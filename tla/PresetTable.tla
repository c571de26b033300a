------------------------------ MODULE PresetTable ------------------------------
(***************************************************************************)
(* What agents and skills share (app/preset/model.py): an identity row, a  *)
(* sequence of version rows of which at most the last is a draft, the      *)
(* groups the preset is shared with, and the reviews of its versions.  A   *)
(* version is addressed by its number, so ver[p] is a sequence.            *)
(*                                                                         *)
(* The text of a version (prompt, description, files) is abstracted to the *)
(* request that wrote it.  Subjects, call counters, times and the reason   *)
(* of a takedown are left out.                                             *)
(***************************************************************************)
EXTENDS Membership, ReviewQueue, Sequences, FiniteSetsExt

CONSTANTS
    Agent, Skill,                \* ids
    OwnerOf,                     \* the author of each id
    Name,
    Edit,                        \* requests that write a text
    NoRow,
    Bound                        \* how many versions of each preset are explored

Preset == Agent \cup Skill

ASSUME PresetsHaveOwners ==
    OwnerOf \in [Preset -> User] /\ Bound \in [Preset -> Nat \ {0}] /\ Agent \cap Skill = {}

VARIABLES
    row,                         \* `agents` and `skills`
    ver,                         \* `agent_versions` and `skill_versions`
    shared,                      \* `resource_groups`
    stained                      \* history: versions changed after their release

tableVars == <<row, ver, shared, stained>>

\* A frozen reference: id, version and the name at that time.
Ref == Preset \X (Nat \ {0}) \X Name

Row == [name : Name, visibility : {"private", "group"}, deleted : BOOLEAN, enabled : BOOLEAN]

ASSUME NoRowAssumption == NoRow \notin Row

\* Only agents have references; a skill's sets stay empty.
Version == [released : BOOLEAN, text : Edit, skills : SUBSET Ref, subs : SUBSET Ref]

TableTypeOK ==
    /\ row \in [Preset -> Row \cup {NoRow}]
    /\ ver \in [Preset -> Seq(Version)] /\ \A p \in Preset : Len(ver[p]) <= Bound[p]
    /\ shared \in [Preset -> SUBSET Group]
    /\ stained \subseteq Preset \X Nat
    /\ reviews \in [Review -> ReviewRow(Preset \X Nat) \cup {NoReview}]

TableInit ==
    /\ row = [p \in Preset |-> NoRow]
    /\ ver = [p \in Preset |-> <<>>]
    /\ shared = [p \in Preset |-> {}]
    /\ stained = {}
    /\ ReviewInit

--------------------------------------------------------------------------------
Exists(p) == row[p] # NoRow
Live(p)   == Exists(p) /\ ~ row[p].deleted

\* Names are unique among one author's presets of one kind that are not deleted.
NameFree(kind, p, n) == \A q \in kind \ {p} :
    ~(Live(q) /\ OwnerOf[q] = OwnerOf[p] /\ row[q].name = n)

Released(p) == {v \in 1..Len(ver[p]) : ver[p][v].released}
Approved(p) == {v \in 1..Len(ver[p]) : ApprovedReview(<<p, v>>)}
Newest(S)   == IF S = {} THEN 0 ELSE Max(S)

Fresh(e, skills, subs) == [released |-> FALSE, text |-> e, skills |-> skills, subs |-> subs]

\* The identity row and its first draft are one transaction.
CreateRow(p, n, version) ==
    /\ ~ Exists(p)
    /\ row' = [row EXCEPT ![p] = [name |-> n, visibility |-> "private",
                                  deleted |-> FALSE, enabled |-> TRUE]]
    /\ ver' = [ver EXCEPT ![p] = <<version>>]
    /\ UNCHANGED <<shared, stained, reviews>>

\* The version a writer finds with status = draft, or the number it would add.
DraftIn(p) == {v \in 1..Len(ver[p]) : ~ ver[p][v].released}

(***************************************************************************)
(* The commit of a writer that loaded version v (found) or decided to add  *)
(* it.  The UPDATE names the primary key only, so a release in between is  *)
(* not noticed; the INSERT is refused by the unique indexes when somebody  *)
(* else added a version or a draft first.                                  *)
(***************************************************************************)
StoreVersion(p, v, found, version) ==
    IF found
      THEN /\ ver' = [ver EXCEPT ![p][v] = [version EXCEPT !.released = ver[p][v].released]]
           /\ stained' = IF ver[p][v].released THEN stained \cup {<<p, v>>} ELSE stained
      ELSE /\ ver' = IF v = Len(ver[p]) + 1 /\ DraftIn(p) = {}
                       THEN [ver EXCEPT ![p] = Append(@, version)] ELSE ver
           /\ UNCHANGED stained

\* One UPDATE from draft to released.
ReleaseRow(p) ==
    /\ Live(p)
    /\ \E v \in DraftIn(p) : ver' = [ver EXCEPT ![p][v].released = TRUE]
    /\ UNCHANGED <<row, shared, stained, reviews>>

ShareRow(p, visibility, kept) ==
    /\ Live(p)
    /\ row' = [row EXCEPT ![p].visibility = visibility]
    /\ shared' = [shared EXCEPT ![p] = kept]
    /\ UNCHANGED <<ver, stained, reviews>>

DeleteRow(p) ==
    /\ Live(p)
    /\ row' = [row EXCEPT ![p].deleted = TRUE]
    /\ UNCHANGED <<ver, shared, stained, reviews>>

\* set_catalog_enabled, reached through an approved review of one of its versions.
EnableRow(p, enabled) ==
    /\ Live(p) /\ Approved(p) # {}
    /\ row' = [row EXCEPT ![p].enabled = enabled]
    /\ UNCHANGED <<ver, shared, stained, reviews>>

================================================================================
