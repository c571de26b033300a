------------------------------- MODULE RateGate -------------------------------
(***************************************************************************)
(* The rate limit every request passes first (app/quota/rate.py,           *)
(* app/api/security.py), here for the logins from one address.  The window *)
(* is counted in one round trip to Redis and the request recorded in       *)
(* another.                                                                *)
(***************************************************************************)
EXTENDS Naturals, FiniteSets

CONSTANTS Token, RateLimit       \* a login attempt and its token; RateLimiter's limit

ASSUME RateAssumption == RateLimit \in Nat \ {0} /\ IsFiniteSet(Token)

VARIABLES
    gate,                        \* by login: "new", "counted", "in" or "refused"
    hits,                        \* entries of the sorted set that are in the window
    peak                         \* history: most between count and record since the set was empty

rateVars == <<gate, hits, peak>>

GatePlace == {"new", "counted", "in", "refused"}

RateInit == gate = [k \in Token |-> "new"] /\ hits = 0 /\ peak = 0

Counted == {k \in Token : gate[k] = "counted"}

Pass(k, place) == gate' = [gate EXCEPT ![k] = place]

Fits == hits < RateLimit

\* allow, first round trip; a refused request is not recorded.
CountHits(k) ==
    /\ gate[k] = "new"
    /\ Pass(k, IF Fits THEN "counted" ELSE "refused")
    /\ peak' = IF Fits /\ Cardinality(Counted) + 1 > peak THEN Cardinality(Counted) + 1 ELSE peak
    /\ UNCHANGED hits

\* allow, second round trip.
RecordHit(k) ==
    /\ gate[k] = "counted"
    /\ hits' = hits + 1
    /\ Pass(k, "in")
    /\ UNCHANGED peak

\* The oldest entry grows older than the window; bound: while a login is still to come.
WindowSlides ==
    /\ hits > 0 /\ \E k \in Token : gate[k] = "new"
    /\ hits' = hits - 1
    /\ peak' = IF hits' = 0 THEN Cardinality(Counted) ELSE peak
    /\ UNCHANGED gate

================================================================================
