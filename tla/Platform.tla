-------------------------------- MODULE Platform --------------------------------
(***************************************************************************)
(* The parameters shared by the modules of the run life cycle.             *)
(***************************************************************************)
EXTENDS Naturals, FiniteSets

CONSTANTS
    Run,                         \* run identifiers (uuid4, never reused)
    Thread,                      \* conversations
    ThreadOf,                    \* ThreadOf[r]: the conversation run r belongs to
    Worker,                      \* worker processes
    Slot,                        \* concurrent tasks of one worker (Worker._concurrency)
    Client,                      \* concurrent HTTP requests to the api
    MaxAsk,                      \* bound: interrupts a conversation raises
    RecursionLimit,              \* graph steps one delivery may take (agent_recursion_limit)
    MaxToken,                    \* bound: events of a run besides the first of each step
    MaxCrash,                    \* bound: worker processes killed
    MaxHiccup,                   \* bound: failed Redis/Postgres calls and dropped requests
    MaxAge,                      \* bound: how far time passes (0: no cron ever finds work)
    FreshDeploy                  \* TRUE: no worker has run yet, so no consumer group exists

ASSUME PlatformAssumption ==
    /\ Run # {}
    /\ ThreadOf \in [Run -> Thread]
    /\ IsFiniteSet(Worker) /\ IsFiniteSet(Slot)
    /\ MaxAsk \in Nat
    /\ RecursionLimit \in Nat
    /\ MaxToken \in Nat
    /\ MaxCrash \in Nat
    /\ MaxHiccup \in Nat
    /\ MaxAge \in 0..2
    /\ FreshDeploy \in BOOLEAN

\* One task slot of one worker process.
Handler == Worker \X Slot
Host(h) == h[1]
================================================================================
