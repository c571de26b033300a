------------------------------ MODULE MCEventFeed ------------------------------
(* One page, two writers, three events in a Stream that keeps two. *)
EXTENDS EventFeed

CONSTANTS lead, helper           \* the main agent and a subagent that runs beside it

Say(who) == [type |-> "token", path |-> who]

Said == <<Say(lead), Say(lead), Say(helper)>>

================================================================================
