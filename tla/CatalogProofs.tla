----------------------------- MODULE CatalogProofs -----------------------------
(***************************************************************************)
(* What the tables of agents and skills keep, for every number of authors, *)
(* presets, versions, requests, reviews and submissions.                   *)
(*                                                                         *)
(* A step writes at most one version, and one that was released stays      *)
(* released; if its text is written it is stained (Writes).  So what was   *)
(* once true of a released version stays true of it, and a reference can   *)
(* be trusted however much later it is used.                               *)
(***************************************************************************)
EXTENDS Catalog, FiniteSetTheorems, WellFoundedInduction, TLAPS

\* A nonempty set of version numbers has a greatest element.
LEMMA NewestIsOne ==
    ASSUME NEW k \in Nat, NEW S \in SUBSET (1..k), S # {}
    PROVE  Max(S) \in S /\ \A y \in S : Max(S) >= y
<1>. DEFINE T == {k - x : x \in S}
<1>1. T \subseteq Nat /\ T # {}
  <2>1. \A x \in S : k - x \in Nat
    OBVIOUS
  <2>2. PICK x : x \in S
    OBVIOUS
  <2>3. k - x \in T
    BY <2>2
  <2>. QED BY <2>1, <2>3
<1>. HIDE DEF T
<1>2. PICK m \in T : \A j \in T : <<j, m>> \notin OpToRel(<, Nat)
  BY <1>1, NatLessThanWellFounded, WFMin, Zenon
<1>3. \A j \in T : ~(j < m)
  BY <1>1, <1>2, Zenon DEF OpToRel
<1>4. PICK x \in S : m = k - x
  BY DEF T
<1>5. \A y \in S : x >= y
  <2>. TAKE y \in S
  <2>1. k - y \in T
    BY DEF T
  <2>2. ~(k - y < k - x)
    BY <1>3, <1>4, <2>1
  <2>. QED BY <2>2
<1>. QED BY <1>5 DEF Max

--------------------------------------------------------------------------------
(* The inductive invariant. *)

\* What is not there has no versions.
RowsInv == \A p \in Preset : row[p] = NoRow => ver[p] = <<>>

\* A subagent that may be used: a released version that had none of its own.
Flat(ref) ==
    /\ ref[2] \in Released(ref[1])
    /\ ver[ref[1]][ref[2]].subs = {} \/ <<ref[1], ref[2]>> \in stained

GoodRefs(x) == DistinctNames(x.skills) /\ \A ref \in x.subs : Flat(ref)

\* A request that writes has loaded the draft or decided to add a version; whoever is
\* past the row is an upload.
SoundEdit(y) ==
    /\ GoodRefs(y)
    /\ y.at \in 1..Bound[y.p]
    /\ y.phase = "loaded" =>
         y.asDraft /\ row[y.p] # NoRow /\ (y.found => y.at \in 1..Len(ver[y.p]))
    /\ y.phase # "loaded" => y.p \in Skill

EditsInv == \A e \in Edit : edit[e] \in EditRow => SoundEdit(edit[e])

\* Versions and submissions hold good references only.
RefsInv ==
    /\ \A p \in Preset : \A v \in 1..Len(ver[p]) : GoodRefs(ver[p][v])
    /\ \A s \in Submission : snap[s] \in Snap => GoodRefs(snap[s])

\* An upload that has not written the files of version v of k, and still will or never.
Uploading(e, k, v) ==
    edit[e].phase \in {"saving", "writing", "lost"} /\ edit[e].p = k /\ edit[e].at = v

\* Not only the released versions have their files or an upload.
UploadsInv == \A k \in Skill : \A v \in 1..Len(ver[k]) :
    bytes[k][v] = NoBytes => \E e \in Edit : Uploading(e, k, v)

CatalogIInv ==
    /\ CatalogTypeOK /\ RowsInv /\ EditsInv /\ RefsInv /\ UploadsInv /\ ReviewsAreOfReleased

--------------------------------------------------------------------------------
(* What a step may do to each table. *)

\* Version v of p becomes x.  One that was released stays so and is stained, and only by
\* a request that loaded it as a draft.
Writes(p, v, x) ==
    /\ GoodRefs(x)
    /\ \/ v \in 1..Len(ver[p]) /\ Len(ver'[p]) = Len(ver[p])
       \/ v = Len(ver[p]) + 1 /\ Len(ver'[p]) = v /\ v <= Bound[p]
    /\ ver' \in [Preset -> Seq(Version)]
    /\ \A q \in Preset : q # p => ver'[q] = ver[q]
    /\ \A i \in 1..Len(ver'[p]) : ver'[p][i] = IF i = v THEN x ELSE ver[p][i]
    /\ v \in Released(p) =>
         /\ x.released /\ <<p, v>> \in stained'
         /\ \E e \in Edit : /\ edit[e].phase = "loaded"
                            /\ edit[e].p = p /\ edit[e].at = v /\ edit[e].asDraft

VersionsMove ==
    /\ stained \subseteq stained' /\ stained' \subseteq Preset \X Nat
    /\ ver' = ver \/ \E p \in Preset, v \in Nat \ {0}, x \in Version : Writes(p, v, x)

RowsMove ==
    /\ row' \in [Preset -> Row \cup {NoRow}]
    /\ \A p \in Preset : row'[p] = NoRow => row[p] = NoRow /\ ver'[p] = ver[p]

EditsMove ==
    \/ edit' = edit
    \/ \E e \in Edit, y \in EditRow \cup {Done} :
         edit' = [edit EXCEPT ![e] = y] /\ (y \in EditRow => SoundEdit(y))

ReviewsMove ==
    \/ reviews' = reviews
    \/ \E r \in Review, p \in Preset : \E v \in Released(p) :
         /\ reviews[r] = NoReview
         /\ reviews' = [reviews EXCEPT ![r] = [target |-> <<p, v>>, status |-> "pending"]]
    \/ \E r \in Review, approved \in BOOLEAN : decide(r, approved)

SnapsMove ==
    \/ snap' = snap
    \/ \E s \in Submission, y \in Snap \cup {Nothing, Failed} :
         snap' = [snap EXCEPT ![s] = y] /\ (y \in Snap => GoodRefs(y))

CatalogMoves ==
    /\ VersionsMove /\ RowsMove /\ EditsMove /\ ReviewsMove /\ SnapsMove
    /\ MemberTypeOK' /\ shared' \in [Preset -> SUBSET Group]
    /\ BytesTypeOK' /\ UploadsInv'

\* What was released stays released, and flat or stained.
LEMMA VersionsGrow ==
    ASSUME CatalogIInv, VersionsMove
    PROVE  /\ \A p \in Preset : /\ Len(ver[p]) \in Nat /\ Len(ver'[p]) \in Nat
                                /\ Len(ver[p]) <= Len(ver'[p]) /\ Len(ver'[p]) <= Bound[p]
                                /\ Released(p) \subseteq Released(p)'
           /\ ver' \in [Preset -> Seq(Version)]
           /\ \A ref \in Ref : Flat(ref) => Flat(ref)'
<1>0. /\ ver \in [Preset -> Seq(Version)]
      /\ \A p \in Preset : Len(ver[p]) \in Nat /\ Len(ver[p]) <= Bound[p] /\ Bound[p] \in Nat
      /\ stained \subseteq stained'
  BY PresetsHaveOwners DEF CatalogIInv, CatalogTypeOK, TableTypeOK, VersionsMove
<1>1. CASE ver' = ver
  <2>1. \A p \in Preset : Released(p)' = Released(p)
    BY <1>1 DEF Released
  <2>2. ASSUME NEW ref \in Ref, Flat(ref) PROVE Flat(ref)'
    <3>1. Released(ref[1])' = Released(ref[1])
      BY <2>1 DEF Ref
    <3>. QED BY <1>0, <1>1, <2>2, <3>1 DEF Flat
  <2>. QED BY <1>0, <1>1, <2>1, <2>2
<1>2. ASSUME NEW p \in Preset, NEW v \in Nat \ {0}, NEW x \in Version, Writes(p, v, x)
      PROVE  /\ \A q \in Preset : /\ Len(ver'[q]) \in Nat /\ Len(ver[q]) <= Len(ver'[q]) /\ Len(ver'[q]) <= Bound[q]
                                  /\ Released(q) \subseteq Released(q)'
             /\ ver' \in [Preset -> Seq(Version)]
             /\ \A ref \in Ref : Flat(ref) => Flat(ref)'
  <2>1. ver' \in [Preset -> Seq(Version)] /\ \A q \in Preset : Len(ver'[q]) \in Nat
    BY <1>2 DEF Writes
  <2>2. \A q \in Preset : Len(ver[q]) <= Len(ver'[q]) /\ Len(ver'[q]) <= Bound[q]
    <3>1. \/ Len(ver'[p]) = Len(ver[p])
          \/ Len(ver'[p]) = Len(ver[p]) + 1 /\ Len(ver'[p]) <= Bound[p]
      BY <1>2 DEF Writes
    <3>2. Len(ver[p]) <= Len(ver'[p]) /\ Len(ver'[p]) <= Bound[p]
      BY <1>0, <3>1
    <3>3. \A q \in Preset : q # p => ver'[q] = ver[q]
      BY <1>2 DEF Writes
    <3>. QED BY <1>0, <3>2, <3>3
  <2>3. ASSUME NEW q \in Preset, NEW i \in Released(q)
        PROVE  /\ i \in Released(q)'
               /\ <<q, i>> \in stained' \/ ver'[q][i] = ver[q][i]
    <3>1. i \in 1..Len(ver[q]) /\ ver[q][i].released /\ i \in 1..Len(ver'[q])
      BY <1>0, <2>1, <2>2, <2>3 DEF Released
    <3>2. CASE q = p /\ i = v
      BY <1>2, <3>1, <3>2 DEF Writes, Released
    <3>3. CASE ~(q = p /\ i = v)
      <4>1. ver'[q][i] = ver[q][i]
        BY <1>2, <3>1, <3>3 DEF Writes
      <4>. QED BY <3>1, <4>1 DEF Released
    <3>. QED BY <3>2, <3>3
  <2>4. ASSUME NEW ref \in Ref, Flat(ref) PROVE Flat(ref)'
    <3>1. ref[1] \in Preset /\ ref[2] \in Released(ref[1])
      BY <2>4 DEF Ref, Flat
    <3>2. /\ ref[2] \in Released(ref[1])'
          /\ <<ref[1], ref[2]>> \in stained' \/ ver'[ref[1]][ref[2]] = ver[ref[1]][ref[2]]
      BY <2>3, <3>1
    <3>. QED BY <1>0, <2>4, <3>2 DEF Flat
  <2>. QED BY <2>1, <2>2, <2>3, <2>4
<1>. QED BY <1>0, <1>1, <1>2 DEF VersionsMove

\* What is good stays good.
LEMMA GoodStays ==
    ASSUME CatalogIInv, VersionsMove, RowsMove
    PROVE  /\ \A x \in Version \cup EditRow \cup Snap : GoodRefs(x) => GoodRefs(x)'
           /\ \A y \in EditRow : SoundEdit(y) => SoundEdit(y)'
<1>1. ASSUME NEW x, x.subs \subseteq Ref, GoodRefs(x) PROVE GoodRefs(x)'
  BY <1>1, VersionsGrow DEF GoodRefs
<1>2. \A x \in Version \cup EditRow \cup Snap : x.subs \subseteq Ref
  BY DEF Version, EditRow, Snap
<1>3. ASSUME NEW y \in EditRow, SoundEdit(y) PROVE SoundEdit(y)'
  <2>1. GoodRefs(y)'
    BY <1>1, <1>2, <1>3 DEF SoundEdit
  <2>2. y.p \in Preset /\ y.at \in Nat
    BY <1>3 DEF EditRow
  <2>3. y.at \in 1..Len(ver[y.p]) => y.at \in 1..Len(ver'[y.p])
    BY <2>2, VersionsGrow
  <2>4. row[y.p] # NoRow => row'[y.p] # NoRow
    BY <2>2 DEF RowsMove
  <2>. QED BY <1>3, <2>1, <2>3, <2>4 DEF SoundEdit
<1>. QED BY <1>1, <1>2, <1>3

LEMMA EditsKept ==
    ASSUME CatalogIInv, VersionsMove, RowsMove, EditsMove
    PROVE  EditTypeOK' /\ EditsInv'
<1>0. edit \in [Edit -> EditRow \cup {Idle, Done}] /\ Done \notin EditRow
  BY DEF CatalogIInv, CatalogTypeOK, EditTypeOK, Done, EditRow
<1>1. \A e \in Edit : edit[e] \in EditRow => SoundEdit(edit[e])
  BY DEF CatalogIInv, EditsInv
<1>2. ASSUME NEW e \in Edit, NEW y \in EditRow \cup {Done}, edit' = [edit EXCEPT ![e] = y],
             y \in EditRow => SoundEdit(y)
      PROVE  /\ edit' \in [Edit -> EditRow \cup {Idle, Done}]
             /\ \A d \in Edit : edit'[d] \in EditRow => SoundEdit(edit'[d])
  BY <1>0, <1>1, <1>2
<1>3. /\ edit' \in [Edit -> EditRow \cup {Idle, Done}]
      /\ \A d \in Edit : edit'[d] \in EditRow => SoundEdit(edit'[d])
  BY <1>0, <1>1, <1>2 DEF EditsMove
<1>4. ASSUME NEW d \in Edit, edit'[d] \in EditRow
      PROVE  SoundEdit(edit[d])'
  <2>1. \E y \in EditRow : y = edit'[d] /\ SoundEdit(y)
    BY <1>3, <1>4
  <2>2. \E y \in EditRow : y = edit'[d] /\ SoundEdit(y)'
    BY <2>1, GoodStays
  <2>. QED BY <2>2 DEF SoundEdit, GoodRefs
<1>. QED BY <1>3, <1>4 DEF EditTypeOK, EditsInv

\* A step of that kind keeps the invariant.
LEMMA MovesKeep ==
    ASSUME CatalogIInv, CatalogMoves
    PROVE  CatalogIInv'
<1>. USE DEF CatalogMoves
<1>1. /\ ver' \in [Preset -> Seq(Version)]
      /\ \A p \in Preset : Len(ver'[p]) <= Bound[p] /\ Released(p) \subseteq Released(p)'
  BY VersionsGrow
<1>2. reviews' \in [Review -> ReviewRow(Preset \X Nat) \cup {NoReview}] /\ ReviewsAreOfReleased'
  <2>0. /\ reviews \in [Review -> ReviewRow(Preset \X Nat) \cup {NoReview}]
        /\ \A r \in Review : reviews[r] # NoReview =>
             reviews[r].target[2] \in Released(reviews[r].target[1]) /\ reviews[r].target[1] \in Preset
        /\ \A p \in Preset : Released(p) \subseteq Nat
    <3>1. reviews \in [Review -> ReviewRow(Preset \X Nat) \cup {NoReview}]
      BY DEF CatalogIInv, CatalogTypeOK, TableTypeOK
    <3>2. \A r \in Review : reviews[r] # NoReview => reviews[r].target[1] \in Preset
      BY <3>1 DEF ReviewRow
    <3>3. \A p \in Preset : Released(p) \subseteq Nat
      BY DEF Released
    <3>4. ReviewsAreOfReleased
      BY DEF CatalogIInv
    <3>. QED BY <3>1, <3>2, <3>3, <3>4 DEF ReviewsAreOfReleased
  <2>1. CASE reviews' = reviews
    BY <1>1, <2>0, <2>1 DEF ReviewsAreOfReleased
  <2>2. ASSUME NEW r \in Review, NEW p \in Preset, NEW v \in Released(p),
               reviews' = [reviews EXCEPT ![r] = [target |-> <<p, v>>, status |-> "pending"]]
        PROVE  reviews' \in [Review -> ReviewRow(Preset \X Nat) \cup {NoReview}] /\ ReviewsAreOfReleased'
    <3>1. [target |-> <<p, v>>, status |-> "pending"] \in ReviewRow(Preset \X Nat)
      BY <2>0, <2>2 DEF ReviewRow
    <3>2. v \in Released(p)'
      BY <1>1, <2>2
    <3>3. \A q \in Review : reviews'[q] = IF q = r THEN [target |-> <<p, v>>, status |-> "pending"] ELSE reviews[q]
      BY <2>0, <2>2
    <3>4. ReviewsAreOfReleased'
      BY <1>1, <2>0, <3>2, <3>3 DEF ReviewsAreOfReleased
    <3>. QED BY <2>0, <2>2, <3>1, <3>4
  <2>3. ASSUME NEW r \in Review, NEW approved \in BOOLEAN, decide(r, approved)
        PROVE  reviews' \in [Review -> ReviewRow(Preset \X Nat) \cup {NoReview}] /\ ReviewsAreOfReleased'
    <3>1. reviews[r] \in ReviewRow(Preset \X Nat) /\ reviews[r] # NoReview
      BY <2>0, <2>3 DEF decide
    <3>2. PICK z \in {"approved", "rejected"} : reviews' = [reviews EXCEPT ![r].status = z]
      BY <2>3 DEF decide
    <3>3. /\ [reviews[r] EXCEPT !.status = z] \in ReviewRow(Preset \X Nat)
          /\ [reviews[r] EXCEPT !.status = z].target = reviews[r].target
      BY <3>1, <3>2 DEF ReviewRow
    <3>4. \A q \in Review : reviews'[q] = IF q = r THEN [reviews[r] EXCEPT !.status = z] ELSE reviews[q]
      BY <2>0, <3>2
    <3>5. ReviewsAreOfReleased'
      BY <1>1, <2>0, <3>1, <3>3, <3>4 DEF ReviewsAreOfReleased
    <3>. QED BY <2>0, <3>2, <3>3, <3>5
  <2>. QED BY <2>1, <2>2, <2>3 DEF ReviewsMove
<1>3. snap' \in [Submission -> Snap \cup {Nothing, Failed}]
      /\ \A s \in Submission : snap'[s] \in Snap => GoodRefs(snap[s])'
  <2>0. /\ snap \in [Submission -> Snap \cup {Nothing, Failed}]
        /\ \A s \in Submission : snap[s] \in Snap => GoodRefs(snap[s])
    BY DEF CatalogIInv, CatalogTypeOK, RefsInv
  <2>1. /\ snap' \in [Submission -> Snap \cup {Nothing, Failed}]
        /\ \A s \in Submission : snap'[s] \in Snap => GoodRefs(snap'[s])
    BY <2>0 DEF SnapsMove
  <2>2. ASSUME NEW s \in Submission, snap'[s] \in Snap PROVE GoodRefs(snap[s])'
    <3>1. \E y \in Snap : y = snap'[s] /\ GoodRefs(y)'
      BY <2>1, <2>2, GoodStays
    <3>. QED BY <3>1 DEF GoodRefs
  <2>. QED BY <2>1, <2>2
<1>4. ASSUME NEW p \in Preset, NEW v \in 1..Len(ver'[p]) PROVE GoodRefs(ver[p][v])'
  <2>0. /\ ver \in [Preset -> Seq(Version)]
        /\ \A q \in Preset : \A i \in 1..Len(ver[q]) : ver[q][i] \in Version /\ GoodRefs(ver[q][i])
    BY DEF CatalogIInv, CatalogTypeOK, TableTypeOK, RefsInv
  <2>1. ver'[p][v] \in Version /\ GoodRefs(ver'[p][v])
    <3>1. CASE ver' = ver
      BY <1>4, <2>0, <3>1
    <3>2. ASSUME NEW q \in Preset, NEW i \in Nat \ {0}, NEW x \in Version, Writes(q, i, x)
          PROVE  ver'[p][v] \in Version /\ GoodRefs(ver'[p][v])
      <4>1. CASE p # q
        BY <1>4, <2>0, <3>2, <4>1 DEF Writes
      <4>2. CASE p = q /\ v = i
        BY <1>4, <3>2, <4>2 DEF Writes
      <4>3. CASE p = q /\ v # i
        <5>1. ver'[p][v] = ver[p][v]
          BY <1>4, <3>2, <4>3 DEF Writes
        <5>2. v \in 1..Len(ver[p])
          BY <1>4, <2>0, <3>2, <4>3 DEF Writes
        <5>. QED BY <2>0, <5>1, <5>2
      <4>. QED BY <4>1, <4>2, <4>3
    <3>. QED BY <3>1, <3>2 DEF VersionsMove
  <2>2. \E y \in Version : y = ver'[p][v] /\ GoodRefs(y)'
    BY <2>1, GoodStays
  <2>. QED BY <2>2 DEF GoodRefs
<1>5. RowsInv'
  BY DEF RowsMove, RowsInv, CatalogIInv
<1>6. CatalogTypeOK'
  BY <1>1, <1>2, <1>3, EditsKept DEF CatalogTypeOK, TableTypeOK, RowsMove, VersionsMove
<1>. QED BY <1>2, <1>3, <1>4, <1>5, <1>6, EditsKept DEF CatalogIInv, RefsInv

--------------------------------------------------------------------------------
(* What is resolved, and what is written. *)

\* Whatever version a user is given, it is a released one of a preset that is not deleted.
LEMMA AvailableIsReleased ==
    ASSUME CatalogIInv, NEW u \in User, NEW p \in Preset
    PROVE  /\ AgentVersion(u, p) > 0 => Live(p) /\ AgentVersion(u, p) \in Released(p)
           /\ SkillVersion(u, p) > 0 => Live(p) /\ SkillVersion(u, p) \in Released(p)
<1>0. Len(ver[p]) \in Nat
  BY DEF CatalogIInv, CatalogTypeOK, TableTypeOK
<1>1. Approved(p) \subseteq Released(p)
  <2>. SUFFICES ASSUME NEW v \in 1..Len(ver[p]), NEW r \in Review, reviews[r] # NoReview, reviews[r].target = <<p, v>>
                PROVE  v \in Released(p)
    BY DEF Approved, ApprovedReview
  <2>. QED BY DEF CatalogIInv, ReviewsAreOfReleased
<1>2. /\ Released(p) \subseteq 1..Len(ver[p])
      /\ Approved(p) \subseteq 1..Len(ver[p])
  BY DEF Released, Approved
<1>3. /\ Released(p) # {} => Newest(Released(p)) \in Released(p)
      /\ Approved(p) # {} => Newest(Approved(p)) \in Released(p)
  <2>1. \A S \in SUBSET (1..Len(ver[p])) : S # {} => Newest(S) \in S
    BY <1>0, NewestIsOne DEF Newest
  <2>. QED BY <1>1, <1>2, <2>1
<1>4. AgentVersion(u, p) > 0 => Live(p) /\ AgentVersion(u, p) \in Released(p)
  <2>1. CASE Live(p) /\ InCatalog(p)
    BY <1>3, <2>1 DEF AgentVersion, InCatalog
  <2>2. CASE Live(p) /\ ~InCatalog(p) /\ FirstHand(u, p)
    BY <1>3, <2>2 DEF AgentVersion, FirstHand
  <2>3. CASE ~(Live(p) /\ InCatalog(p)) /\ ~(Live(p) /\ ~InCatalog(p) /\ FirstHand(u, p))
    BY <2>3 DEF AgentVersion
  <2>. QED BY <2>1, <2>2, <2>3
<1>5. SkillVersion(u, p) > 0 => Live(p) /\ SkillVersion(u, p) \in Released(p)
  <2>1. CASE Live(p) /\ FirstHand(u, p)
    BY <1>3, <2>1 DEF SkillVersion, FirstHand
  <2>2. CASE Live(p) /\ ~FirstHand(u, p) /\ InCatalog(p)
    BY <1>3, <2>2 DEF SkillVersion, InCatalog
  <2>3. CASE ~(Live(p) /\ FirstHand(u, p)) /\ ~(Live(p) /\ ~FirstHand(u, p) /\ InCatalog(p))
    BY <2>3 DEF SkillVersion
  <2>. QED BY <2>1, <2>2, <2>3
<1>. QED BY <1>4, <1>5

\* Skills that fit are references with different names.
LEMMA SkillsGood ==
    ASSUME CatalogIInv, NEW u \in User, NEW b \in SUBSET Ref, NEW picks \in SUBSET Skill,
           DistinctNames(b), SkillsFit(u, b, picks)
    PROVE  SkillRefs(u, b, picks) \in SUBSET Ref /\ DistinctNames(SkillRefs(u, b, picks))
<1>1. ASSUME NEW k \in picks PROVE resolve_skill(u, k) \in Ref
  <2>1. k \in Preset /\ SkillVersion(u, k) > 0
    BY DEF Preset, SkillsFit
  <2>2. Live(k) /\ SkillVersion(u, k) \in Released(k)
    BY <2>1, AvailableIsReleased
  <2>3. row[k].name \in Name
    BY <2>1, <2>2 DEF Live, Exists, Row, CatalogIInv, CatalogTypeOK, TableTypeOK
  <2>4. SkillVersion(u, k) \in Nat \ {0}
    BY <2>2 DEF Released
  <2>. QED BY <2>1, <2>3, <2>4 DEF resolve_skill, Ref
<1>2. picks = {} => SkillRefs(u, b, picks) = b
  BY DEF SkillRefs
<1>. QED BY <1>1, <1>2 DEF SkillRefs, SkillsFit

\* Subagents that fit are flat.
LEMMA SubsGood ==
    ASSUME CatalogIInv, NEW u \in User, NEW b \in SUBSET Ref, NEW picks \in SUBSET Agent,
           \A ref \in b : Flat(ref), SubsFit(u, b, picks)
    PROVE  SubRefs(u, b, picks) \in SUBSET Ref /\ \A ref \in SubRefs(u, b, picks) : Flat(ref)
<1>1. ASSUME NEW a \in picks PROVE resolve_agent(u, a) \in Ref /\ Flat(resolve_agent(u, a))
  <2>1. a \in Preset /\ AgentVersion(u, a) > 0 /\ ver[a][AgentVersion(u, a)].subs = {}
    BY DEF Preset, SubsFit
  <2>2. Live(a) /\ AgentVersion(u, a) \in Released(a)
    BY <2>1, AvailableIsReleased
  <2>3. row[a].name \in Name
    BY <2>1, <2>2 DEF Live, Exists, Row, CatalogIInv, CatalogTypeOK, TableTypeOK
  <2>4. AgentVersion(u, a) \in Nat \ {0}
    BY <2>2 DEF Released
  <2>. QED BY <2>1, <2>2, <2>3, <2>4 DEF resolve_agent, Ref, Flat
<1>. QED BY <1>1 DEF SubRefs

\* A new preset has one version, where there was none.
LEMMA CreateWrites ==
    ASSUME CatalogIInv, NEW p \in Preset, NEW n \in Name, NEW x \in Version, GoodRefs(x), CreateRow(p, n, x)
    PROVE  /\ VersionsMove /\ RowsMove
           /\ ver[p] = <<>> /\ ver'[p] = <<x>> /\ \A q \in Preset : q # p => ver'[q] = ver[q]
           /\ shared' = shared /\ reviews' = reviews
<1>0. /\ ver \in [Preset -> Seq(Version)] /\ row \in [Preset -> Row \cup {NoRow}]
      /\ stained \subseteq Preset \X Nat /\ Bound[p] \in Nat \ {0}
  BY PresetsHaveOwners DEF CatalogIInv, CatalogTypeOK, TableTypeOK
<1>1. ver[p] = <<>>
  BY DEF CreateRow, Exists, CatalogIInv, RowsInv
<1>2. /\ ver' = [ver EXCEPT ![p] = <<x>>] /\ stained' = stained
      /\ shared' = shared /\ reviews' = reviews
  BY DEF CreateRow
<1>3. ver'[p] = <<x>> /\ \A q \in Preset : q # p => ver'[q] = ver[q]
  BY <1>0, <1>2
<1>4. Writes(p, 1, x)
  <2>1. 1 = Len(ver[p]) + 1 /\ Len(ver'[p]) = 1 /\ 1 <= Bound[p]
    BY <1>0, <1>1, <1>3
  <2>2. ver' \in [Preset -> Seq(Version)]
    BY <1>0, <1>2
  <2>3. \A i \in 1..Len(ver'[p]) : i = 1 /\ ver'[p][i] = x
    BY <1>3
  <2>4. Released(p) = {}
    BY <1>1 DEF Released
  <2>. QED BY <1>3, <2>1, <2>2, <2>3, <2>4 DEF Writes
<1>5. RowsMove
  <2>1. PICK z \in Row : row' = [row EXCEPT ![p] = z]
    BY DEF CreateRow, Row
  <2>. QED BY <1>0, <1>3, <2>1, NoRowAssumption DEF RowsMove
<1>. QED BY <1>0, <1>1, <1>2, <1>3, <1>4, <1>5 DEF VersionsMove

\* A release marks the draft, and leaves its text alone.
LEMMA ReleaseWrites ==
    ASSUME CatalogIInv, NEW p \in Preset, ReleaseRow(p)
    PROVE  /\ VersionsMove /\ RowsMove
           /\ \A q \in Preset : Len(ver'[q]) = Len(ver[q])
           /\ shared' = shared /\ reviews' = reviews
<1>0. /\ ver \in [Preset -> Seq(Version)] /\ row \in [Preset -> Row \cup {NoRow}]
      /\ stained \subseteq Preset \X Nat
  BY DEF CatalogIInv, CatalogTypeOK, TableTypeOK
<1>1. /\ row' = row /\ stained' = stained /\ shared' = shared /\ reviews' = reviews
      /\ row[p] # NoRow
  BY DEF ReleaseRow, Live, Exists
<1>2. PICK v \in DraftIn(p) : ver' = [ver EXCEPT ![p][v].released = TRUE]
  BY DEF ReleaseRow
<1>3. v \in 1..Len(ver[p]) /\ ver[p][v] \in Version /\ v \notin Released(p) /\ GoodRefs(ver[p][v])
  BY <1>0 DEF DraftIn, Released, CatalogIInv, RefsInv
<1>. DEFINE x == [ver[p][v] EXCEPT !.released = TRUE]
<1>4. x \in Version /\ x.skills = ver[p][v].skills /\ x.subs = ver[p][v].subs
  BY <1>3 DEF Version
<1>5. GoodRefs(x)
  BY <1>3, <1>4 DEF GoodRefs
<1>6. ver' = [ver EXCEPT ![p] = [ver[p] EXCEPT ![v] = x]]
  BY <1>0, <1>2
<1>. HIDE DEF x
<1>7. /\ [ver[p] EXCEPT ![v] = x] \in Seq(Version) /\ Len([ver[p] EXCEPT ![v] = x]) = Len(ver[p])
      /\ \A i \in 1..Len(ver[p]) : [ver[p] EXCEPT ![v] = x][i] = IF i = v THEN x ELSE ver[p][i]
  BY <1>0, <1>3, <1>4
<1>8. /\ ver' \in [Preset -> Seq(Version)] /\ ver'[p] = [ver[p] EXCEPT ![v] = x]
      /\ \A q \in Preset : q # p => ver'[q] = ver[q]
  BY <1>0, <1>6, <1>7
<1>9. Writes(p, v, x)
  BY <1>3, <1>5, <1>7, <1>8 DEF Writes
<1>10. RowsMove
  BY <1>0, <1>1, <1>8 DEF RowsMove
<1>11. VersionsMove
  <2>1. v \in Nat \ {0}
    BY <1>0, <1>3
  <2>. QED BY <1>0, <1>1, <1>4, <1>9, <2>1 DEF VersionsMove
<1>12. \A q \in Preset : Len(ver'[q]) = Len(ver[q])
  BY <1>7, <1>8
<1>. QED BY <1>1, <1>10, <1>11, <1>12

\* A writer that loaded a draft stores it, whatever became of it; one that wanted to add
\* a version adds it or is refused.
LEMMA StoreWrites ==
    ASSUME CatalogIInv, NEW e \in Edit, edit[e].phase = "loaded", NEW x \in Version, GoodRefs(x),
           ~x.released, StoreVersion(edit[e].p, edit[e].at, edit[e].found, x), row' = row
    PROVE  /\ VersionsMove /\ RowsMove
           /\ edit[e] \in EditRow
           /\ \A q \in Preset : q # edit[e].p => ver'[q] = ver[q]
           /\ \/ Len(ver'[edit[e].p]) = Len(ver[edit[e].p])
              \/ /\ edit[e].at = Len(ver[edit[e].p]) + 1 /\ ver' # ver
                 /\ Len(ver'[edit[e].p]) = edit[e].at
<1>. DEFINE p == edit[e].p
            v == edit[e].at
<1>0. /\ ver \in [Preset -> Seq(Version)] /\ row \in [Preset -> Row \cup {NoRow}]
      /\ stained \subseteq Preset \X Nat /\ edit[e] \in EditRow /\ SoundEdit(edit[e])
  BY DEF CatalogIInv, CatalogTypeOK, TableTypeOK, EditTypeOK, EditsInv, Idle, Done
<1>1. p \in Preset /\ v \in Nat \ {0} /\ row[p] # NoRow /\ edit[e].asDraft /\ v <= Bound[p]
      /\ Bound[p] \in Nat /\ (edit[e].found => v \in 1..Len(ver[p])) /\ edit[e].found \in BOOLEAN
  BY <1>0, PresetsHaveOwners DEF EditRow, SoundEdit
<1>2. \E d \in Edit : edit[d].phase = "loaded" /\ edit[d].p = p /\ edit[d].at = v /\ edit[d].asDraft
  BY <1>1
<1>3. StoreVersion(p, v, edit[e].found, x)
  OBVIOUS
<1>. HIDE DEF p, v
<1>4. CASE edit[e].found
  <2>. DEFINE y == [x EXCEPT !.released = ver[p][v].released]
  <2>1. ver[p][v] \in Version
    BY <1>0, <1>1, <1>4
  <2>2. y \in Version /\ y.skills = x.skills /\ y.subs = x.subs /\ y.released = ver[p][v].released
    BY <2>1 DEF Version
  <2>3. GoodRefs(y)
    BY <2>2 DEF GoodRefs
  <2>4. /\ ver' = [ver EXCEPT ![p][v] = y]
        /\ stained' = IF ver[p][v].released THEN stained \cup {<<p, v>>} ELSE stained
    BY <1>3, <1>4 DEF StoreVersion
  <2>. HIDE DEF y
  <2>5. ver' = [ver EXCEPT ![p] = [ver[p] EXCEPT ![v] = y]]
    BY <1>0, <1>1, <2>4
  <2>6. /\ [ver[p] EXCEPT ![v] = y] \in Seq(Version) /\ Len([ver[p] EXCEPT ![v] = y]) = Len(ver[p])
        /\ \A i \in 1..Len(ver[p]) : [ver[p] EXCEPT ![v] = y][i] = IF i = v THEN y ELSE ver[p][i]
    BY <1>0, <1>1, <1>4, <2>2
  <2>7. /\ ver' \in [Preset -> Seq(Version)] /\ ver'[p] = [ver[p] EXCEPT ![v] = y]
        /\ \A q \in Preset : q # p => ver'[q] = ver[q]
    BY <1>0, <1>1, <2>5, <2>6
  <2>8. v \in Released(p) => y.released /\ <<p, v>> \in stained'
    BY <2>2, <2>4 DEF Released
  <2>9. Writes(p, v, y)
    BY <1>1, <1>2, <1>4, <2>3, <2>6, <2>7, <2>8 DEF Writes
  <2>10. stained \subseteq stained' /\ stained' \subseteq Preset \X Nat
    BY <1>0, <1>1, <2>4
  <2>11. VersionsMove /\ RowsMove
    BY <1>0, <1>1, <2>2, <2>7, <2>9, <2>10 DEF VersionsMove, RowsMove
  <2>. QED BY <1>0, <2>6, <2>7, <2>11 DEF p, v
<1>5. CASE ~edit[e].found /\ ver' = ver
  <2>1. stained' = stained
    BY <1>3, <1>5 DEF StoreVersion
  <2>2. VersionsMove /\ RowsMove
    BY <1>0, <1>5, <2>1 DEF VersionsMove, RowsMove
  <2>. QED BY <1>0, <1>5, <2>2 DEF p, v
<1>6. CASE ~edit[e].found /\ ver' # ver
  <2>1. /\ stained' = stained /\ v = Len(ver[p]) + 1
        /\ ver' = [ver EXCEPT ![p] = Append(ver[p], x)]
    BY <1>0, <1>1, <1>3, <1>6 DEF StoreVersion
  <2>2. /\ Append(ver[p], x) \in Seq(Version) /\ Len(Append(ver[p], x)) = v
        /\ \A i \in 1..v : Append(ver[p], x)[i] = IF i = v THEN x ELSE ver[p][i]
    BY <1>0, <1>1, <2>1
  <2>3. /\ ver' \in [Preset -> Seq(Version)] /\ ver'[p] = Append(ver[p], x)
        /\ \A q \in Preset : q # p => ver'[q] = ver[q]
    BY <1>0, <1>1, <2>1, <2>2
  <2>4. v \notin Released(p)
    BY <1>0, <1>1, <2>1 DEF Released
  <2>5. Writes(p, v, x)
    BY <1>1, <2>1, <2>2, <2>3, <2>4 DEF Writes
  <2>6. VersionsMove /\ RowsMove
    BY <1>0, <1>1, <2>1, <2>3, <2>5 DEF VersionsMove, RowsMove
  <2>. QED BY <1>0, <1>6, <2>1, <2>2, <2>3, <2>6 DEF p, v
<1>. QED BY <1>1, <1>4, <1>5, <1>6

--------------------------------------------------------------------------------
(* The actions. *)

\* Uploads go on where no version of a skill is added and no upload is touched.
LEMMA UploadsStay ==
    ASSUME CatalogIInv, bytes' = bytes, \A k \in Skill : Len(ver'[k]) = Len(ver[k]),
           \A e \in Edit : edit[e].phase \in {"saving", "writing", "lost"} => edit'[e] = edit[e]
    PROVE  BytesTypeOK' /\ UploadsInv'
<1>1. BytesTypeOK'
  BY DEF CatalogIInv, CatalogTypeOK, BytesTypeOK
<1>2. \A e \in Edit, k \in Skill, v \in Nat : Uploading(e, k, v) => Uploading(e, k, v)'
  BY DEF Uploading
<1>3. \A k \in Skill : Len(ver[k]) \in Nat
  BY DEF CatalogIInv, CatalogTypeOK, TableTypeOK, Preset
<1>4. ASSUME NEW k \in Skill, NEW v \in 1..Len(ver'[k]), bytes'[k][v] = NoBytes
      PROVE  \E e \in Edit : Uploading(e, k, v)'
  <2>1. v \in 1..Len(ver[k]) /\ bytes[k][v] = NoBytes /\ v \in Nat
    BY <1>3, <1>4
  <2>2. PICK e \in Edit : Uploading(e, k, v)
    BY <2>1 DEF CatalogIInv, UploadsInv
  <2>. QED BY <1>2, <2>1, <2>2
<1>. QED BY <1>1, <1>4 DEF UploadsInv

\* One request becomes y; it was not an upload.
LEMMA OneEdit ==
    ASSUME CatalogIInv, NEW e \in Edit, edit[e].phase \in {"idle", "loaded"}, NEW y \in EditRow \cup {Done},
           edit' = [edit EXCEPT ![e] = y], y \in EditRow => SoundEdit(y)
    PROVE  /\ EditsMove
           /\ \A d \in Edit : edit[d].phase \in {"saving", "writing", "lost"} => edit'[d] = edit[d]
<1>1. edit \in [Edit -> EditRow \cup {Idle, Done}]
  BY DEF CatalogIInv, CatalogTypeOK, EditTypeOK
<1>2. \A d \in Edit : d # e => edit'[d] = edit[d]
  BY <1>1
<1>3. EditsMove
  BY DEF EditsMove
<1>. QED BY <1>2, <1>3

LEMMA OnceMoves ==
    ASSUME CatalogIInv, NEW e \in Edit, edit[e] = Idle \/ edit[e].phase = "loaded", edit' = [edit EXCEPT ![e] = Done]
    PROVE  /\ EditsMove
           /\ \A d \in Edit : edit[d].phase \in {"saving", "writing", "lost"} => edit'[d] = edit[d]
<1>1. Done \notin EditRow /\ edit[e].phase \in {"idle", "loaded"}
  BY DEF Done, EditRow, Idle
<1>. QED BY <1>1, OneEdit

\* What is not written does not move.
LEMMA TypesNow ==
    ASSUME CatalogIInv
    PROVE  /\ MemberTypeOK /\ BytesTypeOK /\ EditTypeOK
           /\ row \in [Preset -> Row \cup {NoRow}] /\ ver \in [Preset -> Seq(Version)]
           /\ shared \in [Preset -> SUBSET Group] /\ stained \subseteq Preset \X Nat
           /\ snap \in [Submission -> Snap \cup {Nothing, Failed}]
           /\ members' = members /\ groups' = groups /\ joins' = joins => MemberTypeOK'
           /\ ver' = ver /\ stained' = stained => VersionsMove
           /\ ver' = ver /\ row' = row => RowsMove
BY DEF CatalogIInv, CatalogTypeOK, TableTypeOK, MemberTypeOK, VersionsMove, RowsMove

LEMMA GroupsStep ==
    ASSUME CatalogIInv, GroupsChange
    PROVE  CatalogMoves
<1>1. PICK e \in Edit, u \in User, g \in Group : Once(e) /\ (add_member(u, g) \/ remove_member(u, g))
  BY DEF GroupsChange
<1>2. MemberTypeOK'
  BY <1>1, TypesNow DEF MemberTypeOK, add_member, remove_member
<1>3. UNCHANGED <<row, ver, shared, stained, reviews, bytes, snap>>
  BY DEF GroupsChange, tableVars
<1>4. EditsMove /\ \A d \in Edit : edit[d].phase \in {"saving", "writing", "lost"} => edit'[d] = edit[d]
  BY <1>1, OnceMoves DEF Once
<1>5. VersionsMove /\ RowsMove /\ shared' \in [Preset -> SUBSET Group]
  BY <1>3, TypesNow
<1>6. BytesTypeOK' /\ UploadsInv'
  BY <1>3, <1>4, UploadsStay
<1>. QED BY <1>2, <1>3, <1>4, <1>5, <1>6 DEF CatalogMoves, ReviewsMove, SnapsMove

\* The draft a request is to store.
LEMMA LoadMoves ==
    ASSUME CatalogIInv, NEW e \in Edit, NEW p \in Preset, NEW skills \in SUBSET Ref, NEW subs \in SUBSET Ref,
           DistinctNames(skills), \A ref \in subs : Flat(ref), Load(e, p, skills, subs)
    PROVE  /\ UNCHANGED <<row, ver, shared, stained, reviews>>
           /\ EditsMove
           /\ \A d \in Edit : edit[d].phase \in {"saving", "writing", "lost"} => edit'[d] = edit[d]
<1>. DEFINE found == DraftOf(p) # {}
            v     == IF found THEN Max(DraftOf(p)) ELSE Len(ver[p]) + 1
            y     == [phase |-> "loaded", p |-> p, at |-> v, found |-> found,
                      asDraft |-> (found => ~ ver[p][v].released), skills |-> skills, subs |-> subs]
<1>0. /\ Len(ver[p]) \in Nat /\ Bound[p] \in Nat
      /\ edit[e] = Idle /\ row[p] # NoRow /\ v <= Bound[p]
  BY TypesNow, PresetsHaveOwners DEF Load, Live, Exists
<1>1. edit' = [edit EXCEPT ![e] = y] /\ UNCHANGED <<row, ver, shared, stained, reviews>>
  BY DEF Load, tableVars
<1>2. /\ found => v \in 1..Len(ver[p]) /\ ~ ver[p][v].released
      /\ v \in Nat \ {0}
  <2>1. DraftOf(p) \in SUBSET (1..Len(ver[p])) /\ \A i \in DraftOf(p) : ~ ver[p][i].released
    BY DEF DraftOf, DraftIn
  <2>2. found => v \in DraftOf(p)
    BY <1>0, <2>1, NewestIsOne
  <2>3. ~found => v = Len(ver[p]) + 1
    OBVIOUS
  <2>. HIDE DEF v, found
  <2>. QED BY <1>0, <2>1, <2>2, <2>3
<1>3. found \in BOOLEAN /\ (found => ~ ver[p][v].released) = TRUE
  BY <1>2
<1>. HIDE DEF v, found
<1>4. y \in EditRow
  BY <1>2, <1>3 DEF EditRow
<1>5. SoundEdit(y)
  <2>1. y.skills = skills /\ y.subs = subs /\ y.p = p /\ y.at = v /\ y.found = found /\ y.phase = "loaded"
        /\ y.asDraft
    BY <1>3
  <2>2. GoodRefs(y)
    BY <2>1 DEF GoodRefs
  <2>3. v \in 1..Bound[p]
    BY <1>0, <1>2
  <2>. HIDE DEF y
  <2>. QED BY <1>0, <1>2, <2>1, <2>2, <2>3 DEF SoundEdit
<1>6. edit[e].phase \in {"idle", "loaded"}
  BY <1>0 DEF Idle
<1>. HIDE DEF y
<1>. QED BY <1>1, <1>4, <1>5, <1>6, OneEdit

LEMMA FreshVersion ==
    ASSUME NEW e \in Edit, NEW skills \in SUBSET Ref, NEW subs \in SUBSET Ref,
           DistinctNames(skills), \A ref \in subs : Flat(ref)
    PROVE  /\ Fresh(e, skills, subs) \in Version /\ GoodRefs(Fresh(e, skills, subs))
           /\ ~Fresh(e, skills, subs).released
BY DEF Fresh, Version, GoodRefs

\* What an author picks for an agent is good.
LEMMA PicksGood ==
    ASSUME CatalogIInv, NEW a \in Agent, NEW ks \in Few({k \in Skill : Live(k)}), NEW as \in Few({b \in Agent : Live(b)}),
           SkillsFit(OwnerOf[a], {}, ks), SubsFit(OwnerOf[a], {}, as)
    PROVE  /\ SkillRefs(OwnerOf[a], {}, ks) \in SUBSET Ref /\ DistinctNames(SkillRefs(OwnerOf[a], {}, ks))
           /\ SubRefs(OwnerOf[a], {}, as) \in SUBSET Ref
           /\ \A ref \in SubRefs(OwnerOf[a], {}, as) : Flat(ref)
<1>1. OwnerOf[a] \in User /\ ks \in SUBSET Skill /\ as \in SUBSET Agent
  BY PresetsHaveOwners DEF Preset, Few
<1>2. DistinctNames({})
  BY DEF DistinctNames
<1>3. /\ SkillRefs(OwnerOf[a], {}, ks) \in SUBSET Ref /\ DistinctNames(SkillRefs(OwnerOf[a], {}, ks))
  BY <1>1, <1>2, SkillsGood
<1>4. /\ SubRefs(OwnerOf[a], {}, as) \in SUBSET Ref
      /\ \A ref \in SubRefs(OwnerOf[a], {}, as) : Flat(ref)
  BY <1>1, SubsGood
<1>. QED BY <1>3, <1>4

\* Only agents are written: the uploads stay.
LEMMA AgentsOnly ==
    ASSUME NEW a \in Agent, \A q \in Preset : q # a => ver'[q] = ver[q]
    PROVE  \A k \in Skill : Len(ver'[k]) = Len(ver[k])
BY PresetsHaveOwners DEF Preset

LEMMA SubmitMoves ==
    ASSUME CatalogIInv, NEW r \in Review, NEW p \in Preset, Submittable(p) > 0, submit(r, <<p, Submittable(p)>>)
    PROVE  ReviewsMove
<1>1. Released(p) \in SUBSET (1..Len(ver[p])) /\ Len(ver[p]) \in Nat
  BY TypesNow DEF Released
<1>2. Submittable(p) \in Released(p)
  <2>1. CASE Released(p) = {}
    BY <2>1 DEF Submittable, Newest
  <2>2. CASE Released(p) # {}
    BY <1>1, <2>2, NewestIsOne DEF Submittable, Newest
  <2>. QED BY <2>1, <2>2
<1>. QED BY <1>2 DEF submit, ReviewsMove

LEMMA AgentsStep ==
    ASSUME CatalogIInv, AgentsWritten
    PROVE  CatalogMoves
<1>0. /\ Agent \subseteq Preset /\ bytes' = bytes /\ snap' = snap /\ MemberTypeOK'
      /\ SnapsMove
  BY TypesNow DEF AgentsWritten, memberVars, Preset, SnapsMove
<1>1. ASSUME NEW e \in Edit, NEW a \in Agent,
             NEW ks \in Few({k \in Skill : Live(k)}), NEW as \in Few({b \in Agent : Live(b)}),
             create_agent(e, a, FirstName[a], ks, as)
      PROVE  CatalogMoves
  <2>. DEFINE x == Fresh(e, SkillRefs(OwnerOf[a], {}, ks), SubRefs(OwnerOf[a], {}, as))
  <2>1. x \in Version /\ GoodRefs(x)
    BY <1>1, PicksGood, FreshVersion DEF create_agent
  <2>2. CreateRow(a, FirstName[a], x) /\ FirstName[a] \in Name /\ edit[e] = Idle /\ edit' = [edit EXCEPT ![e] = Done]
    BY <1>0, <1>1, FirstNamesAssumption DEF create_agent
  <2>. HIDE DEF x
  <2>3. /\ VersionsMove /\ RowsMove /\ \A q \in Preset : q # a => ver'[q] = ver[q]
        /\ shared' = shared /\ reviews' = reviews
    BY <1>0, <2>1, <2>2, CreateWrites
  <2>4. EditsMove /\ \A d \in Edit : edit[d].phase \in {"saving", "writing", "lost"} => edit'[d] = edit[d]
    BY <2>2, OnceMoves
  <2>5. BytesTypeOK' /\ UploadsInv'
    BY <1>0, <2>3, <2>4, AgentsOnly, UploadsStay
  <2>. QED BY <1>0, <2>3, <2>4, <2>5, TypesNow DEF CatalogMoves, ReviewsMove
<1>2. ASSUME NEW e \in Edit, NEW a \in Agent,
             NEW ks \in Few({k \in Skill : Live(k)}), NEW as \in Few({b \in Agent : Live(b)}),
             LoadAgentDraft(e, a, ks, as)
      PROVE  CatalogMoves
  <2>1. /\ UNCHANGED <<row, ver, shared, stained, reviews>> /\ EditsMove
        /\ \A d \in Edit : edit[d].phase \in {"saving", "writing", "lost"} => edit'[d] = edit[d]
    BY <1>0, <1>2, PicksGood, LoadMoves DEF LoadAgentDraft
  <2>2. BytesTypeOK' /\ UploadsInv'
    BY <1>0, <2>1, UploadsStay
  <2>. QED BY <1>0, <2>1, <2>2, TypesNow DEF CatalogMoves, ReviewsMove
<1>3. ASSUME NEW e \in Edit, StoreAgentDraft(e) PROVE CatalogMoves
  <2>. DEFINE x == Fresh(e, edit[e].skills, edit[e].subs)
  <2>0. /\ edit[e].phase = "loaded" /\ edit[e].p \in Agent /\ row' = row /\ shared' = shared /\ reviews' = reviews
        /\ StoreVersion(edit[e].p, edit[e].at, edit[e].found, x) /\ edit' = [edit EXCEPT ![e] = Done]
    BY <1>3 DEF StoreAgentDraft
  <2>1. edit[e] \in EditRow /\ SoundEdit(edit[e])
    BY <2>0, TypesNow DEF EditTypeOK, Idle, Done, CatalogIInv, EditsInv
  <2>2. edit[e].skills \in SUBSET Ref /\ edit[e].subs \in SUBSET Ref /\ GoodRefs(edit[e])
    BY <2>1 DEF EditRow, SoundEdit
  <2>3. x \in Version /\ GoodRefs(x) /\ ~x.released
    BY <2>2, FreshVersion DEF GoodRefs
  <2>. HIDE DEF x
  <2>4. VersionsMove /\ RowsMove /\ \A q \in Preset : q # edit[e].p => ver'[q] = ver[q]
    BY <2>0, <2>3, StoreWrites
  <2>5. EditsMove /\ \A d \in Edit : edit[d].phase \in {"saving", "writing", "lost"} => edit'[d] = edit[d]
    BY <2>0, OnceMoves
  <2>6. BytesTypeOK' /\ UploadsInv'
    BY <1>0, <2>0, <2>4, <2>5, AgentsOnly, UploadsStay
  <2>. QED BY <1>0, <2>0, <2>4, <2>5, <2>6, TypesNow DEF CatalogMoves, ReviewsMove
<1>4. ASSUME NEW a \in Agent, release_agent(a) PROVE CatalogMoves
  <2>1. ReleaseRow(a) /\ edit' = edit
    BY <1>4 DEF release_agent
  <2>2. /\ VersionsMove /\ RowsMove /\ shared' = shared /\ reviews' = reviews
        /\ \A q \in Preset : Len(ver'[q]) = Len(ver[q])
    BY <1>0, <2>1, ReleaseWrites
  <2>3. BytesTypeOK' /\ UploadsInv'
    BY <1>0, <2>1, <2>2, UploadsStay DEF Preset
  <2>. QED BY <1>0, <2>1, <2>2, <2>3, TypesNow DEF CatalogMoves, ReviewsMove, EditsMove
<1>5. ASSUME NEW a \in Agent, NEW r \in Review, submit_agent(r, a) PROVE CatalogMoves
  <2>1. UNCHANGED <<row, ver, shared, stained, edit>>
    BY <1>5 DEF submit_agent, tableVars
  <2>2. ReviewsMove
    BY <1>0, <1>5, SubmitMoves DEF submit_agent
  <2>3. BytesTypeOK' /\ UploadsInv'
    BY <1>0, <2>1, UploadsStay
  <2>. QED BY <1>0, <2>1, <2>2, <2>3, TypesNow DEF CatalogMoves, EditsMove
<1>. QED BY <1>1, <1>2, <1>3, <1>4, <1>5 DEF AgentsWritten

\* An upload that is past the row.
LEMMA UploadRow ==
    ASSUME CatalogIInv, NEW e \in Edit, edit[e].phase \in {"saving", "writing"}
    PROVE  /\ edit[e] \in EditRow /\ SoundEdit(edit[e])
           /\ edit[e].p \in Skill /\ edit[e].p \in Preset /\ edit[e].at \in 1..Bound[edit[e].p] /\ edit[e].at \in Nat
<1>1. edit[e] \in EditRow /\ SoundEdit(edit[e])
  BY TypesNow DEF EditTypeOK, Idle, Done, CatalogIInv, EditsInv
<1>. QED BY <1>1 DEF SoundEdit, Preset, EditRow

\* The phase of an upload changes, and nothing else of it.
LEMMA NextPhase ==
    ASSUME CatalogIInv, NEW e \in Edit, edit[e].phase \in {"saving", "writing"}, NEW z \in {"writing", "lost"},
           edit' = [edit EXCEPT ![e].phase = z]
    PROVE  /\ EditsMove
           /\ \A d \in Edit, k \in Skill, v \in Nat : Uploading(d, k, v) => Uploading(d, k, v)'
<1>. DEFINE y == [edit[e] EXCEPT !.phase = z]
<1>1. edit[e] \in EditRow /\ SoundEdit(edit[e]) /\ edit[e].p \in Skill
  BY UploadRow
<1>2. /\ y \in EditRow /\ y.phase = z /\ y.p = edit[e].p /\ y.at = edit[e].at
      /\ y.skills = edit[e].skills /\ y.subs = edit[e].subs
  BY <1>1 DEF EditRow
<1>3. edit' = [edit EXCEPT ![e] = y] /\ edit \in [Edit -> EditRow \cup {Idle, Done}]
  BY TypesNow DEF EditTypeOK
<1>. HIDE DEF y
<1>4. SoundEdit(y)
  BY <1>1, <1>2 DEF SoundEdit, GoodRefs
<1>5. EditsMove
  BY <1>2, <1>3, <1>4 DEF EditsMove
<1>6. edit'[e] = y /\ \A d \in Edit : d # e => edit'[d] = edit[d]
  BY <1>3
<1>. QED BY <1>2, <1>5, <1>6 DEF Uploading

LEMMA TouchMoves ==
    ASSUME CatalogIInv, NEW k \in Preset, NEW v \in Nat, Touch(k, v), ver' = ver
    PROVE  VersionsMove
BY TypesNow DEF Touch, VersionsMove

LEMMA SkillsStep ==
    ASSUME CatalogIInv, SkillsWritten
    PROVE  CatalogMoves
<1>0. /\ Skill \subseteq Preset /\ snap' = snap /\ MemberTypeOK' /\ SnapsMove
      /\ \A k \in Skill : Len(ver[k]) \in Nat
  BY TypesNow DEF SkillsWritten, memberVars, Preset, SnapsMove
<1>1. ASSUME NEW e \in Edit, NEW k \in Skill, create_skill(e, k, FirstName[k]) PROVE CatalogMoves
  <2>. DEFINE x == Fresh(e, {}, {})
  <2>1. x \in Version /\ GoodRefs(x)
    BY FreshVersion DEF DistinctNames
  <2>2. /\ CreateRow(k, FirstName[k], x) /\ FirstName[k] \in Name /\ edit[e] = Idle
        /\ edit' = [edit EXCEPT ![e] = Saving(k)] /\ bytes' = bytes
    BY <1>0, <1>1, FirstNamesAssumption DEF create_skill
  <2>. HIDE DEF x
  <2>3. /\ VersionsMove /\ RowsMove /\ ver'[k] = <<x>> /\ \A q \in Preset : q # k => ver'[q] = ver[q]
        /\ shared' = shared /\ reviews' = reviews
    BY <1>0, <2>1, <2>2, CreateWrites
  <2>4. Saving(k) \in EditRow /\ SoundEdit(Saving(k)) /\ edit[e].phase \in {"idle", "loaded"}
    <3>1. Bound[k] \in Nat \ {0}
      BY <1>0, PresetsHaveOwners
    <3>. QED BY <1>0, <2>2, <3>1 DEF Saving, EditRow, SoundEdit, GoodRefs, DistinctNames, Idle
  <2>5. EditsMove /\ \A d \in Edit : edit[d].phase \in {"saving", "writing", "lost"} => edit'[d] = edit[d]
    BY <2>2, <2>4, OneEdit
  <2>6. Uploading(e, k, 1)'
    BY <2>2, TypesNow DEF EditTypeOK, Uploading, Saving
  <2>7. UploadsInv'
    <3>. SUFFICES ASSUME NEW l \in Skill, NEW v \in 1..Len(ver'[l]), bytes'[l][v] = NoBytes
                  PROVE  \E d \in Edit : Uploading(d, l, v)'
      BY DEF UploadsInv
    <3>1. CASE l = k
      <4>1. ver'[l] = <<x>> /\ Len(<<x>>) = 1
        BY <2>3, <3>1
      <4>2. v \in 1..1
        BY <4>1
      <4>3. v = 1
        BY <4>2
      <4>. QED BY <2>6, <3>1, <4>3
    <3>2. CASE l # k
      <4>1. PICK d \in Edit : Uploading(d, l, v)
        BY <1>0, <2>2, <2>3, <3>2 DEF CatalogIInv, UploadsInv
      <4>. QED BY <2>5, <4>1 DEF Uploading
    <3>. QED BY <3>1, <3>2
  <2>8. BytesTypeOK'
    BY <2>2, TypesNow DEF BytesTypeOK
  <2>. QED BY <1>0, <2>3, <2>5, <2>7, <2>8, TypesNow DEF CatalogMoves, ReviewsMove
<1>2. ASSUME NEW e \in Edit, NEW k \in Skill, LoadSkillDraft(e, k) PROVE CatalogMoves
  <2>1. /\ UNCHANGED <<row, ver, shared, stained, reviews>> /\ EditsMove
        /\ \A d \in Edit : edit[d].phase \in {"saving", "writing", "lost"} => edit'[d] = edit[d]
    BY <1>0, <1>2, LoadMoves DEF LoadSkillDraft, DistinctNames
  <2>2. BytesTypeOK' /\ UploadsInv'
    BY <1>2, <2>1, UploadsStay DEF LoadSkillDraft
  <2>. QED BY <1>0, <2>1, <2>2, TypesNow DEF CatalogMoves, ReviewsMove
<1>3. ASSUME NEW e \in Edit, StoreSkillDraft(e) PROVE CatalogMoves
  <2>. DEFINE x == Fresh(e, {}, {})
              k == edit[e].p
              y == [edit[e] EXCEPT !.phase = "saving"]
  <2>0. /\ edit[e].phase = "loaded" /\ k \in Skill /\ row' = row /\ shared' = shared /\ reviews' = reviews
        /\ StoreVersion(k, edit[e].at, edit[e].found, x) /\ bytes' = bytes
        /\ edit' = [edit EXCEPT ![e] = IF ver' = ver THEN Done ELSE y]
        /\ edit \in [Edit -> EditRow \cup {Idle, Done}]
    BY <1>3, TypesNow DEF StoreSkillDraft, EditTypeOK
  <2>1. x \in Version /\ GoodRefs(x) /\ ~x.released
    BY FreshVersion DEF DistinctNames
  <2>. HIDE DEF x
  <2>2. /\ VersionsMove /\ RowsMove /\ edit[e] \in EditRow /\ \A q \in Preset : q # k => ver'[q] = ver[q]
        /\ \/ Len(ver'[k]) = Len(ver[k])
           \/ edit[e].at = Len(ver[k]) + 1 /\ ver' # ver /\ Len(ver'[k]) = edit[e].at
    BY <2>0, <2>1, StoreWrites
  <2>3. SoundEdit(edit[e])
    BY <2>2 DEF CatalogIInv, EditsInv
  <2>4. /\ y \in EditRow /\ y.phase = "saving" /\ y.p = k /\ y.at = edit[e].at
        /\ y.skills = edit[e].skills /\ y.subs = edit[e].subs
    BY <2>2 DEF EditRow
  <2>. HIDE DEF y
  <2>5. SoundEdit(y)
    BY <2>0, <2>3, <2>4 DEF SoundEdit, GoodRefs
  <2>6. /\ EditsMove
        /\ \A d \in Edit : edit[d].phase \in {"saving", "writing", "lost"} => edit'[d] = edit[d]
    <3>1. Done \notin EditRow
      BY DEF Done, EditRow
    <3>. QED BY <2>0, <2>4, <2>5, <3>1, OneEdit
  <2>7. UploadsInv'
    <3>. SUFFICES ASSUME NEW l \in Skill, NEW v \in 1..Len(ver'[l]), bytes'[l][v] = NoBytes
                  PROVE  \E d \in Edit : Uploading(d, l, v)'
      BY DEF UploadsInv
    <3>1. CASE v \in 1..Len(ver[l])
      <4>1. PICK d \in Edit : Uploading(d, l, v)
        BY <2>0, <3>1 DEF CatalogIInv, UploadsInv
      <4>. QED BY <2>6, <4>1 DEF Uploading
    <3>2. CASE v \notin 1..Len(ver[l])
      <4>1. l = k
        BY <1>0, <2>2, <3>2
      <4>2. ver' # ver /\ v = edit[e].at
        BY <1>0, <2>2, <3>2, <4>1
      <4>3. edit'[e] = y
        BY <2>0, <4>2
      <4>. QED BY <2>4, <4>1, <4>2, <4>3 DEF Uploading
    <3>. QED BY <3>1, <3>2
  <2>8. BytesTypeOK'
    BY <2>0, TypesNow DEF BytesTypeOK
  <2>. QED BY <1>0, <2>0, <2>2, <2>6, <2>7, <2>8, TypesNow DEF CatalogMoves, ReviewsMove
<1>4. ASSUME NEW e \in Edit, RemoveBytes(e) PROVE CatalogMoves
  <2>. PICK k, i : k = edit[e].p /\ i = edit[e].at
    OBVIOUS
  <2>0. /\ edit[e].phase = "saving" /\ bytes' = [bytes EXCEPT ![k][i] = NoBytes]
        /\ edit' = [edit EXCEPT ![e].phase = "writing"] /\ Touch(k, i)
        /\ UNCHANGED <<row, ver, shared, reviews>>
    BY <1>4 DEF RemoveBytes
  <2>1. /\ k \in Skill /\ k \in Preset /\ i \in 1..Bound[k] /\ i \in Nat
    BY <2>0, UploadRow
  <2>2. EditsMove /\ \A d \in Edit, l \in Skill, v \in Nat : Uploading(d, l, v) => Uploading(d, l, v)'
    BY <2>0, NextPhase
  <2>3. Uploading(e, k, i)'
    <3>1. Uploading(e, k, i)
      BY <2>0 DEF Uploading
    <3>. QED BY <2>1, <2>2, <3>1
  <2>4. /\ BytesTypeOK'
        /\ \A l \in Skill : \A v \in 1..Bound[l] : bytes'[l][v] = bytes[l][v] \/ (l = k /\ v = i)
    BY <2>0, <2>1, TypesNow DEF BytesTypeOK
  <2>5. UploadsInv'
    <3>. SUFFICES ASSUME NEW l \in Skill, NEW v \in 1..Len(ver'[l]), bytes'[l][v] = NoBytes
                  PROVE  \E d \in Edit : Uploading(d, l, v)'
      BY DEF UploadsInv
    <3>1. v \in 1..Len(ver[l]) /\ v \in 1..Bound[l] /\ v \in Nat
      <4>1. Len(ver[l]) <= Bound[l] /\ Bound[l] \in Nat
        BY <1>0, PresetsHaveOwners DEF CatalogIInv, CatalogTypeOK, TableTypeOK
      <4>. QED BY <1>0, <2>0, <4>1
    <3>2. CASE l = k /\ v = i
      BY <2>3, <3>2
    <3>3. CASE bytes'[l][v] = bytes[l][v]
      <4>1. PICK d \in Edit : Uploading(d, l, v)
        BY <3>1, <3>3 DEF CatalogIInv, UploadsInv
      <4>. QED BY <2>2, <3>1, <4>1
    <3>. QED BY <2>4, <3>1, <3>2, <3>3
  <2>6. VersionsMove /\ RowsMove
    BY <2>0, <2>1, TouchMoves, TypesNow
  <2>. QED BY <1>0, <2>0, <2>2, <2>4, <2>5, <2>6, TypesNow DEF CatalogMoves, ReviewsMove
<1>5. ASSUME NEW e \in Edit, WriteBytes(e) PROVE CatalogMoves
  <2>. DEFINE k == edit[e].p
              i == edit[e].at
  <2>0. /\ edit[e].phase = "writing" /\ bytes' = [bytes EXCEPT ![k][i] = e]
        /\ edit' = [edit EXCEPT ![e] = Done] /\ Touch(k, i)
        /\ UNCHANGED <<row, ver, shared, reviews>>
    BY <1>5 DEF WriteBytes
  <2>1. /\ k \in Skill /\ k \in Preset /\ i \in 1..Bound[k] /\ i \in Nat
    BY <2>0, UploadRow
  <2>2. /\ EditsMove
        /\ \A d \in Edit, l \in Skill, v \in Nat : Uploading(d, l, v) => Uploading(d, l, v)' \/ (l = k /\ v = i)
    <3>1. Done \notin EditRow /\ edit \in [Edit -> EditRow \cup {Idle, Done}]
      BY TypesNow DEF Done, EditRow, EditTypeOK
    <3>2. EditsMove
      BY <2>0, <3>1 DEF EditsMove
    <3>3. \A d \in Edit : d # e => edit'[d] = edit[d]
      BY <2>0, <3>1
    <3>. QED BY <3>2, <3>3 DEF Uploading
  <2>. HIDE DEF k, i
  <2>4. /\ BytesTypeOK' /\ bytes'[k][i] # NoBytes
        /\ \A l \in Skill : \A v \in 1..Bound[l] : bytes'[l][v] = bytes[l][v] \/ (l = k /\ v = i)
    BY <2>0, <2>1, TypesNow, BytesAssumption DEF BytesTypeOK
  <2>5. UploadsInv'
    <3>. SUFFICES ASSUME NEW l \in Skill, NEW v \in 1..Len(ver'[l]), bytes'[l][v] = NoBytes
                  PROVE  \E d \in Edit : Uploading(d, l, v)'
      BY DEF UploadsInv
    <3>1. v \in 1..Len(ver[l]) /\ v \in 1..Bound[l] /\ v \in Nat
      <4>1. Len(ver[l]) <= Bound[l] /\ Bound[l] \in Nat
        BY <1>0, PresetsHaveOwners DEF CatalogIInv, CatalogTypeOK, TableTypeOK
      <4>. QED BY <1>0, <2>0, <4>1
    <3>2. ~(l = k /\ v = i)
      BY <2>4
    <3>3. bytes'[l][v] = bytes[l][v]
      BY <2>4, <3>1, <3>2
    <3>4. PICK d \in Edit : Uploading(d, l, v)
      BY <3>1, <3>3 DEF CatalogIInv, UploadsInv
    <3>. QED BY <2>2, <3>1, <3>2, <3>4
  <2>6. VersionsMove /\ RowsMove
    BY <2>0, <2>1, TouchMoves, TypesNow
  <2>. QED BY <1>0, <2>0, <2>2, <2>4, <2>5, <2>6, TypesNow DEF CatalogMoves, ReviewsMove
<1>6. ASSUME NEW e \in Edit, LoseBytes(e) PROVE CatalogMoves
  <2>0. /\ edit[e].phase \in {"saving", "writing"} /\ edit' = [edit EXCEPT ![e].phase = "lost"]
        /\ UNCHANGED <<row, ver, shared, stained, reviews, bytes>>
    BY <1>6 DEF LoseBytes, tableVars
  <2>1. EditsMove /\ \A d \in Edit, l \in Skill, v \in Nat : Uploading(d, l, v) => Uploading(d, l, v)'
    BY <2>0, NextPhase
  <2>2. UploadsInv'
    <3>. SUFFICES ASSUME NEW l \in Skill, NEW v \in 1..Len(ver'[l]), bytes'[l][v] = NoBytes
                  PROVE  \E d \in Edit : Uploading(d, l, v)'
      BY DEF UploadsInv
    <3>1. PICK d \in Edit : Uploading(d, l, v)
      BY <2>0 DEF CatalogIInv, UploadsInv
    <3>2. v \in Nat
      BY <1>0, <2>0
    <3>. QED BY <2>1, <3>1, <3>2
  <2>3. BytesTypeOK'
    BY <2>0, TypesNow DEF BytesTypeOK
  <2>. QED BY <1>0, <2>0, <2>1, <2>2, <2>3, TypesNow DEF CatalogMoves, ReviewsMove
<1>7. ASSUME NEW k \in Skill, release_skill(k) PROVE CatalogMoves
  <2>1. ReleaseRow(k) /\ edit' = edit /\ bytes' = bytes
    BY <1>7 DEF release_skill
  <2>2. /\ VersionsMove /\ RowsMove /\ shared' = shared /\ reviews' = reviews
        /\ \A q \in Preset : Len(ver'[q]) = Len(ver[q])
    BY <1>0, <2>1, ReleaseWrites
  <2>3. BytesTypeOK' /\ UploadsInv'
    BY <1>0, <2>1, <2>2, UploadsStay
  <2>. QED BY <1>0, <2>1, <2>2, <2>3, TypesNow DEF CatalogMoves, ReviewsMove, EditsMove
<1>8. ASSUME NEW k \in Skill, NEW r \in Review, submit_skill(r, k) PROVE CatalogMoves
  <2>1. UNCHANGED <<row, ver, shared, stained, edit, bytes>>
    BY <1>8 DEF submit_skill, tableVars
  <2>2. ReviewsMove
    BY <1>0, <1>8, SubmitMoves DEF submit_skill
  <2>3. BytesTypeOK' /\ UploadsInv'
    BY <2>1, UploadsStay
  <2>. QED BY <1>0, <2>1, <2>2, <2>3, TypesNow DEF CatalogMoves, EditsMove
<1>. QED BY <1>1, <1>2, <1>3, <1>4, <1>5, <1>6, <1>7, <1>8 DEF SkillsWritten

\* One row gets other columns: no version and no upload is touched.
LEMMA ColumnsMove ==
    ASSUME CatalogIInv, NEW e \in Edit, NEW p \in Preset, NEW z \in Row, Live(p), Once(e),
           row' = [row EXCEPT ![p] = z], shared' \in [Preset -> SUBSET Group],
           UNCHANGED <<ver, stained, reviews, bytes, snap, memberVars>>
    PROVE  CatalogMoves
<1>1. RowsMove
  BY TypesNow, NoRowAssumption DEF RowsMove
<1>2. EditsMove /\ \A d \in Edit : edit[d].phase \in {"saving", "writing", "lost"} => edit'[d] = edit[d]
  BY OnceMoves DEF Once
<1>3. BytesTypeOK' /\ UploadsInv'
  BY <1>2, UploadsStay
<1>4. MemberTypeOK' /\ VersionsMove
  BY TypesNow DEF memberVars
<1>. QED BY <1>1, <1>2, <1>3, <1>4 DEF CatalogMoves, ReviewsMove, SnapsMove

LEMMA ColumnsWritten ==
    ASSUME CatalogIInv, NEW p \in Preset, Live(p)
    PROVE  /\ row[p] \in Row
           /\ \A n \in Name : [row[p] EXCEPT !.name = n] \in Row
           /\ \A b \in BOOLEAN : [row[p] EXCEPT !.deleted = b] \in Row /\ [row[p] EXCEPT !.enabled = b] \in Row
           /\ \A x \in {"private", "group"} : [row[p] EXCEPT !.visibility = x] \in Row
<1>1. row[p] \in Row
  BY TypesNow DEF Live, Exists
<1>. QED BY <1>1 DEF Row

LEMMA PresetsStep ==
    ASSUME CatalogIInv, PresetsMove
    PROVE  CatalogMoves
<1>0. /\ UNCHANGED <<memberVars, snap>> /\ Agent \subseteq Preset /\ Skill \subseteq Preset
      /\ shared \in [Preset -> SUBSET Group] /\ row \in [Preset -> Row \cup {NoRow}]
  BY TypesNow DEF PresetsMove, Preset
<1>1. ASSUME NEW e \in Edit, NEW p \in Preset, Once(e), DeleteRow(p), bytes' = bytes
      PROVE  CatalogMoves
  BY <1>0, <1>1, ColumnsMove, ColumnsWritten DEF DeleteRow
<1>2. ASSUME NEW e \in Edit, NEW p \in Preset, NEW on \in BOOLEAN, Once(e), EnableRow(p, on), bytes' = bytes
      PROVE  CatalogMoves
  BY <1>0, <1>2, ColumnsMove, ColumnsWritten DEF EnableRow
<1>3. ASSUME NEW e \in Edit, NEW p \in Preset, NEW x \in {"private", "group"}, NEW gs \in SUBSET Group,
             Once(e), ShareRow(p, x, gs), bytes' = bytes
      PROVE  CatalogMoves
  <2>1. shared' \in [Preset -> SUBSET Group]
    BY <1>0, <1>3 DEF ShareRow
  <2>. QED BY <1>0, <1>3, <2>1, ColumnsMove, ColumnsWritten DEF ShareRow
<1>4. ASSUME NEW e \in Edit, NEW a \in Agent, NEW n \in Name, update_meta(e, a, n), bytes' = bytes
      PROVE  CatalogMoves
  BY <1>0, <1>4, ColumnsMove, ColumnsWritten DEF update_meta
<1>5. ASSUME NEW e \in Edit, NEW a \in Agent, bytes' = bytes,
             \/ delete_agent(e, a)
             \/ \E n \in Name : update_meta(e, a, n)
             \/ \E x \in {"private", "group"}, gs \in SUBSET Group : share_agent(e, a, x, gs)
             \/ \E on \in BOOLEAN : enable_agent(e, a, on)
      PROVE  CatalogMoves
  BY <1>0, <1>1, <1>2, <1>3, <1>4, <1>5 DEF delete_agent, share_agent, enable_agent
<1>6. ASSUME NEW e \in Edit, NEW k \in Skill,
             \/ delete_skill(e, k)
             \/ \E x \in {"private", "group"}, gs \in SUBSET Group : share_skill(e, k, x, gs)
             \/ \E on \in BOOLEAN : enable_skill(e, k, on)
      PROVE  CatalogMoves
  <2>1. ASSUME NEW x \in {"private", "group"}, NEW gs \in SUBSET Group, share_skill(e, k, x, gs)
        PROVE  CatalogMoves
    <3>1. PICK kept \in SUBSET Group : kept = IF x = "group" THEN gs ELSE {}
      OBVIOUS
    <3>. QED BY <1>0, <1>3, <2>1, <3>1 DEF share_skill
  <2>. QED BY <1>0, <1>1, <1>2, <1>6, <2>1 DEF delete_skill, enable_skill
<1>. QED BY <1>5, <1>6 DEF PresetsMove

LEMMA ReviewersStep ==
    ASSUME CatalogIInv, ReviewersDecide
    PROVE  CatalogMoves
<1>1. UNCHANGED <<memberVars, row, ver, shared, stained, edit, bytes, snap>>
  BY DEF ReviewersDecide, tableVars
<1>2. ReviewsMove
  BY DEF ReviewersDecide, ReviewsMove
<1>3. BytesTypeOK' /\ UploadsInv'
  BY <1>1, UploadsStay
<1>4. MemberTypeOK' /\ VersionsMove /\ RowsMove /\ shared' \in [Preset -> SUBSET Group]
  BY <1>1, TypesNow DEF memberVars
<1>. QED BY <1>1, <1>2, <1>3, <1>4 DEF CatalogMoves, EditsMove, SnapsMove

\* A submission moves to z, or drops out.
LEMMA SnapMoves ==
    ASSUME NEW s \in Submission, NEW z \in Snap \cup {Nothing, Failed},
           snap' = [snap EXCEPT ![s] = z], z \in Snap => GoodRefs(z)
    PROVE  SnapsMove
BY DEF SnapsMove

\* A submission that is under way holds references, good ones.
LEMMA SnapNow ==
    ASSUME CatalogIInv, NEW s \in Submission, snap[s].step \in {"skills", "subs", "frozen"}
    PROVE  snap[s] \in Snap /\ GoodRefs(snap[s])
<1>1. snap[s] \in Snap
  BY TypesNow DEF Nothing, Failed
<1>. QED BY <1>1 DEF CatalogIInv, RefsInv

\* Nothing and Failed are steps of no submission under way.
LEMMA DroppedOut == Nothing \notin Snap /\ Failed \notin Snap
BY DEF Nothing, Failed, Snap

LEMMA ResolveMoves ==
    ASSUME CatalogIInv, NEW s \in Submission, NEW u \in User, NEW a \in Agent, ResolveAgent(s, u, a)
    PROVE  SnapsMove
<1>. PICK i : i = AgentVersion(u, a)
  OBVIOUS
<1>1. /\ a \in Preset /\ i > 0 /\ Live(a) /\ i \in Released(a)
      /\ snap' = [snap EXCEPT ![s] = [step |-> "skills", user |-> u, agent |-> <<a, i, row[a].name>>,
                                      skills |-> ver[a][i].skills, subs |-> ver[a][i].subs]]
  BY AvailableIsReleased DEF ResolveAgent, resolve_agent, Preset
<1>2. i \in 1..Len(ver[a]) /\ i \in Nat \ {0} /\ ver[a][i] \in Version /\ row[a].name \in Name
  BY <1>1, TypesNow DEF Released, Live, Exists, Row
<1>3. GoodRefs(ver[a][i]) /\ ver[a][i].skills \in SUBSET Ref /\ ver[a][i].subs \in SUBSET Ref
  BY <1>1, <1>2 DEF CatalogIInv, RefsInv, Version
<1>4. <<a, i, row[a].name>> \in Ref
  BY <1>1, <1>2 DEF Ref
<1>. DEFINE z == [step |-> "skills", user |-> u, agent |-> <<a, i, row[a].name>>,
                  skills |-> ver[a][i].skills, subs |-> ver[a][i].subs]
<1>5. z \in Snap /\ GoodRefs(z)
  BY <1>3, <1>4 DEF Snap, GoodRefs
<1>6. snap' = [snap EXCEPT ![s] = z]
  BY <1>1
<1>. HIDE DEF z
<1>. QED BY <1>5, <1>6, SnapMoves

LEMMA RunsStep ==
    ASSUME CatalogIInv, RunsUse
    PROVE  CatalogMoves
<1>1. UNCHANGED <<memberVars, row, ver, shared, stained, reviews, edit, bytes>>
  BY DEF RunsUse, tableVars
<1>2. BytesTypeOK' /\ UploadsInv'
  BY <1>1, UploadsStay
<1>3. MemberTypeOK' /\ VersionsMove /\ RowsMove /\ shared' \in [Preset -> SUBSET Group]
  BY <1>1, TypesNow DEF memberVars
<1>4. ASSUME NEW s \in Submission, NEW u \in User, ResolveNoAgent(s, u) PROVE SnapsMove
  <2>. DEFINE z == [step |-> "skills", user |-> u, agent |-> NoAgent, skills |-> {}, subs |-> {}]
  <2>1. z \in Snap /\ GoodRefs(z)
    BY DEF Snap, GoodRefs, DistinctNames
  <2>2. snap' = [snap EXCEPT ![s] = z]
    BY <1>4 DEF ResolveNoAgent
  <2>. HIDE DEF z
  <2>. QED BY <2>1, <2>2, SnapMoves
<1>5. ASSUME NEW s \in Submission, NEW ks \in Few({k \in Skill : Live(k)}), ResolveSkills(s, ks)
      PROVE  SnapsMove
  <2>. PICK x : x = snap[s]
    OBVIOUS
  <2>1. x \in Snap /\ GoodRefs(x)
    BY <1>5, SnapNow DEF ResolveSkills
  <2>2. x.user \in User /\ x.skills \in SUBSET Ref /\ DistinctNames(x.skills) /\ ks \in SUBSET Skill
    BY <2>1 DEF Snap, GoodRefs, Few
  <2>3. CASE SkillsFit(x.user, x.skills, ks)
    <3>. PICK refs : refs = SkillRefs(x.user, x.skills, ks)
      OBVIOUS
    <3>1. refs \in SUBSET Ref /\ DistinctNames(refs)
      BY <2>2, <2>3, SkillsGood
    <3>2. snap' = [snap EXCEPT ![s] = [x EXCEPT !.step = "subs", !.skills = refs]]
      BY <1>5, <2>3 DEF ResolveSkills
    <3>3. [x EXCEPT !.step = "subs", !.skills = refs] \in Snap
      BY <2>1, <3>1 DEF Snap
    <3>4. /\ [x EXCEPT !.step = "subs", !.skills = refs].skills = refs
          /\ [x EXCEPT !.step = "subs", !.skills = refs].subs = x.subs
      BY <2>1 DEF Snap
    <3>5. GoodRefs([x EXCEPT !.step = "subs", !.skills = refs])
      BY <2>1, <3>1, <3>4 DEF GoodRefs
    <3>. QED BY <3>2, <3>3, <3>5, SnapMoves
  <2>4. CASE ~SkillsFit(x.user, x.skills, ks)
    <3>1. snap' = [snap EXCEPT ![s] = Nothing]
      BY <1>5, <2>4 DEF ResolveSkills
    <3>. QED BY <3>1, DroppedOut, SnapMoves
  <2>. QED BY <2>3, <2>4
<1>6. ASSUME NEW s \in Submission, NEW as \in Few({a \in Agent : Live(a)}), ResolveSubs(s, as)
      PROVE  SnapsMove
  <2>. PICK x : x = snap[s]
    OBVIOUS
  <2>1. x \in Snap /\ GoodRefs(x)
    BY <1>6, SnapNow DEF ResolveSubs
  <2>2. x.user \in User /\ x.subs \in SUBSET Ref /\ (\A ref \in x.subs : Flat(ref)) /\ as \in SUBSET Agent
    BY <2>1 DEF Snap, GoodRefs, Few
  <2>3. CASE SubsFit(x.user, x.subs, as)
    <3>. PICK refs : refs = SubRefs(x.user, x.subs, as)
      OBVIOUS
    <3>1. refs \in SUBSET Ref /\ \A ref \in refs : Flat(ref)
      BY <2>2, <2>3, SubsGood
    <3>2. snap' = [snap EXCEPT ![s] = [x EXCEPT !.step = "frozen", !.subs = refs]]
      BY <1>6, <2>3 DEF ResolveSubs
    <3>3. [x EXCEPT !.step = "frozen", !.subs = refs] \in Snap
      BY <2>1, <3>1 DEF Snap
    <3>4. /\ [x EXCEPT !.step = "frozen", !.subs = refs].skills = x.skills
          /\ [x EXCEPT !.step = "frozen", !.subs = refs].subs = refs
      BY <2>1 DEF Snap
    <3>5. GoodRefs([x EXCEPT !.step = "frozen", !.subs = refs])
      BY <2>1, <3>1, <3>4 DEF GoodRefs
    <3>. QED BY <3>2, <3>3, <3>5, SnapMoves
  <2>4. CASE ~SubsFit(x.user, x.subs, as)
    <3>1. snap' = [snap EXCEPT ![s] = Nothing]
      BY <1>6, <2>4 DEF ResolveSubs
    <3>. QED BY <3>1, DroppedOut, SnapMoves
  <2>. QED BY <2>3, <2>4
<1>7. ASSUME NEW s \in Submission, Assemble(s) PROVE SnapsMove
  <2>1. PICK z \in {Nothing, Failed} : snap' = [snap EXCEPT ![s] = z]
    BY <1>7 DEF Assemble
  <2>. QED BY <2>1, DroppedOut, SnapMoves
<1>8. SnapsMove
  BY <1>4, <1>5, <1>6, <1>7, ResolveMoves DEF RunsUse
<1>. QED BY <1>1, <1>2, <1>3, <1>8 DEF CatalogMoves, EditsMove, ReviewsMove

--------------------------------------------------------------------------------
(* The invariant of every behaviour. *)

LEMMA InitCatalog == CatalogInit => CatalogIInv
<1>. SUFFICES ASSUME CatalogInit PROVE CatalogIInv
  OBVIOUS
<1>1. /\ \A p \in Preset : row[p] = NoRow /\ ver[p] = <<>> /\ Len(ver[p]) = 0
      /\ row \in [Preset -> Row \cup {NoRow}] /\ ver \in [Preset -> Seq(Version)]
      /\ shared \in [Preset -> SUBSET Group] /\ stained \subseteq Preset \X Nat
      /\ \A r \in Review : reviews[r] = NoReview
      /\ reviews \in [Review -> ReviewRow(Preset \X Nat) \cup {NoReview}]
  BY DEF CatalogInit, TableInit, ReviewInit
<1>2. \A e \in Edit : edit[e] = Idle /\ edit[e] \notin EditRow
  BY DEF CatalogInit, EditInit, Idle, EditRow
<1>3. \A s \in Submission : snap[s] = Nothing /\ snap[s] \notin Snap
  BY DroppedOut DEF CatalogInit
<1>4. MemberTypeOK /\ EditTypeOK /\ BytesTypeOK /\ snap \in [Submission -> Snap \cup {Nothing, Failed}]
  <2>1. MemberTypeOK
    BY DEF CatalogInit, MemberTypeOK, JoinStatus
  <2>2. EditTypeOK /\ BytesTypeOK
    BY DEF CatalogInit, EditInit, EditTypeOK, BytesInit, BytesTypeOK
  <2>. QED BY <2>1, <2>2 DEF CatalogInit
<1>5. TableTypeOK
  BY <1>1, PresetsHaveOwners DEF TableTypeOK
<1>6. UploadsInv /\ \A p \in Preset : \A v \in 1..Len(ver[p]) : GoodRefs(ver[p][v])
  <2>1. \A p \in Preset : 1..Len(ver[p]) = {}
    BY <1>1
  <2>. QED BY <2>1 DEF UploadsInv, Preset
<1>. QED BY <1>1, <1>2, <1>3, <1>4, <1>5, <1>6
         DEF CatalogIInv, CatalogTypeOK, RowsInv, EditsInv, RefsInv, ReviewsAreOfReleased

LEMMA CatalogAtRest ==
    ASSUME CatalogIInv, UNCHANGED catalogVars
    PROVE  CatalogMoves
<1>1. UNCHANGED <<memberVars, row, ver, shared, stained, reviews, edit, bytes, snap>>
  BY DEF catalogVars, tableVars
<1>2. BytesTypeOK' /\ UploadsInv'
  BY <1>1, UploadsStay
<1>. QED BY <1>1, <1>2, TypesNow DEF CatalogMoves, EditsMove, ReviewsMove, SnapsMove, memberVars

LEMMA NextCatalog == CatalogIInv /\ [CatalogNext]_catalogVars => CatalogMoves /\ CatalogIInv'
<1>. SUFFICES ASSUME CatalogIInv, [CatalogNext]_catalogVars PROVE CatalogMoves /\ CatalogIInv'
  OBVIOUS
<1>1. CatalogMoves
  BY GroupsStep, AgentsStep, SkillsStep, PresetsStep, ReviewersStep, RunsStep, CatalogAtRest DEF CatalogNext
<1>. QED BY <1>1, MovesKeep

LEMMA CatalogIInvHolds == CatalogSpec => []CatalogIInv
BY InitCatalog, NextCatalog, PTL DEF CatalogSpec

--------------------------------------------------------------------------------
(* What is promised. *)

\* The tables of agents, skills, versions, reviews and submissions stay well formed, and
\* a review is always about a released version: no draft gets into the catalog, whoever
\* submits or releases at the same time (app/preset/model.py, submit_review).
THEOREM CatalogInOrder == CatalogSpec => []CatalogInv
<1>1. CatalogIInv => CatalogInv
  BY DEF CatalogIInv, CatalogInv
<1>. QED BY <1>1, CatalogIInvHolds, PTL

\* A released skill version without files has an upload that is on its way or was lost
\* after the row's commit (create_skill and write_draft in app/api/route/skill.py).
THEOREM FilesFollow == CatalogSpec => []FilesUnlessLost
<1>1. CatalogIInv => FilesUnlessLost
  BY DEF CatalogIInv, UploadsInv, Uploading, FilesUnlessLost, Released
<1>. QED BY <1>1, CatalogIInvHolds, PTL

\* The references frozen into a run fit together, whatever was released, renamed, deleted
\* or rewritten between the reads of its submission (resolve_skill_references and
\* resolve_subagent_references).
THEOREM ReferencesFit == CatalogSpec => []ResolvedFits
<1>1. CatalogIInv => ResolvedFits
  <2>. SUFFICES ASSUME CatalogIInv, NEW s \in Submission, snap[s].step = "frozen"
                PROVE  /\ DistinctNames(snap[s].skills)
                       /\ \A ref \in snap[s].subs :
                             ver[ref[1]][ref[2]].subs = {} \/ <<ref[1], ref[2]>> \in stained
    BY DEF ResolvedFits, OneDirectoryPerSkill, FlatUnlessStained
  <2>1. GoodRefs(snap[s])
    BY SnapNow
  <2>. QED BY <2>1 DEF GoodRefs, Flat
<1>. QED BY <1>1, CatalogIInvHolds, PTL

\* A release is changed only by a request that loaded it as a draft, and a verdict is
\* never overruled (write_draft in app/preset/repository.py, decide in app/preset/review.py).
THEOREM PublicationsStand == CatalogSpec => PublishedStands
<1>1. ASSUME CatalogIInv, CatalogMoves, NEW p \in Preset, NEW v \in Released(p), ver'[p][v] # ver[p][v]
      PROVE  \E e \in Edit : /\ edit[e].phase = "loaded"
                             /\ edit[e].p = p /\ edit[e].at = v /\ edit[e].asDraft
  <2>1. PICK q \in Preset, i \in Nat \ {0}, x \in Version : Writes(q, i, x)
    BY <1>1 DEF CatalogMoves, VersionsMove
  <2>2. p = q
    BY <1>1, <2>1 DEF Writes
  <2>3. v \in 1..Len(ver[p]) /\ Len(ver[p]) \in Nat /\ Len(ver[p]) <= Len(ver'[p]) /\ Len(ver'[p]) \in Nat
    BY <1>1, VersionsGrow DEF Released, CatalogMoves
  <2>4. v \in 1..Len(ver'[p])
    BY <2>3
  <2>5. v = i
    BY <1>1, <2>1, <2>2, <2>4 DEF Writes
  <2>. QED BY <1>1, <2>1, <2>2, <2>5 DEF Writes
<1>2. ASSUME CatalogIInv, CatalogMoves, NEW r \in Review, reviews[r] # NoReview, reviews[r].status # "pending"
      PROVE  reviews'[r] = reviews[r]
  BY <1>2 DEF CatalogIInv, CatalogTypeOK, TableTypeOK, CatalogMoves, ReviewsMove, decide
<1>3. CatalogIInv /\ [CatalogNext]_catalogVars =>
        /\ [\A p \in Preset : \A v \in Released(p) : ver'[p][v] # ver[p][v] =>
               \E e \in Edit : /\ edit[e].phase = "loaded"
                               /\ edit[e].p = p /\ edit[e].at = v /\ edit[e].asDraft]_catalogVars
        /\ [\A r \in Review : reviews[r] # NoReview /\ reviews[r].status # "pending" =>
               reviews'[r] = reviews[r]]_catalogVars
  BY <1>1, <1>2, NextCatalog
<1>. QED BY <1>3, CatalogIInvHolds, PTL DEF CatalogSpec, PublishedStands, FrozenUnlessStraddled, VerdictStands
================================================================================
