------------------------------ MODULE ReviewQueue ------------------------------
(***************************************************************************)
(* The `reviews` table (app/preset/review.py).  A review is about one      *)
(* VERSION of an agent or a skill, or about one mcp server; the partial    *)
(* unique index admits one pending row per target.  Reasons, reviewers and *)
(* times are left out.                                                     *)
(***************************************************************************)
CONSTANTS Review, NoReview

VARIABLE reviews                 \* the row of each id: its target and status

PendingReview(t) == \E r \in Review :
    reviews[r] # NoReview /\ reviews[r].target = t /\ reviews[r].status = "pending"

ApprovedReview(t) == \E r \in Review :
    reviews[r] # NoReview /\ reviews[r].target = t /\ reviews[r].status = "approved"

ReviewRow(Target) == [target : Target, status : {"pending", "approved", "rejected"}]

ReviewInit == reviews = [r \in Review |-> NoReview]

\* submit() returns None, and changes nothing, when the target is already waiting.
submit(r, t) ==
    /\ reviews[r] = NoReview
    /\ ~ PendingReview(t)
    /\ reviews' = [reviews EXCEPT ![r] = [target |-> t, status |-> "pending"]]

decide(r, approved) ==
    /\ reviews[r] # NoReview
    /\ reviews[r].status = "pending"
    /\ reviews' = [reviews EXCEPT ![r].status = IF approved THEN "approved" ELSE "rejected"]

================================================================================
