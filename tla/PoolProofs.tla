------------------------------- MODULE PoolProofs -------------------------------
(***************************************************************************)
(* The pool's books never promise more than max_container, for any number  *)
(* of runs, conversations and places. PoolInv adds to Capacity and         *)
(* GrantsAreBacked who may be inside _lock (its owner alone, so at most    *)
(* one place is in the making) and that a request on its way to redeem a   *)
(* place still has its promise.                                            *)
(*                                                                         *)
(* LeaseInv adds what the broker's lock of a conversation gives: who waits *)
(* for a place or starts a container for it found none and nobody else can *)
(* have brought one since.                                                 *)
(***************************************************************************)
EXTENDS SandboxPool, FiniteSetTheorems, TLAPS

LockInv == \A a \in Actor : pc[a] \in TakingPc \cup PumpPc => Owns(a)

PromiseInv == \A r \in Run : At(r, "lock2") => r \in granted

FiniteInv == IsFiniteSet(slot) /\ IsFiniteSet(granted)

PoolInv ==
    /\ PoolTypeOK /\ FiniteInv /\ LockInv /\ PromiseInv
    /\ GrantsAreBacked /\ Capacity

--------------------------------------------------------------------------------
\* One element more or less.
LEMMA CardRemove == ASSUME NEW S, NEW x, IsFiniteSet(S)
                    PROVE  /\ IsFiniteSet(S \ {x})
                           /\ Cardinality(S) \in Nat /\ Cardinality(S \ {x}) \in Nat
                           /\ Cardinality(S \ {x}) <= Cardinality(S)
                           /\ x \in S => Cardinality(S \ {x}) = Cardinality(S) - 1
                           /\ x \in S => Cardinality(S) >= 1
<1>1. IsFiniteSet(S \ {x}) /\ Cardinality(S) \in Nat /\ Cardinality(S \ {x}) \in Nat
  BY FS_RemoveElement, FS_CardinalityType
<1>2. CASE x \in S
  BY <1>1, <1>2, FS_RemoveElement
<1>3. CASE x \notin S
  <2>1. S \ {x} = S
    BY <1>3
  <2> QED BY <1>1, <1>3, <2>1
<1> QED BY <1>1, <1>2, <1>3

LEMMA CardAdd == ASSUME NEW S, NEW x, IsFiniteSet(S)
                 PROVE  /\ IsFiniteSet(S \cup {x})
                        /\ Cardinality(S) \in Nat /\ Cardinality(S \cup {x}) \in Nat
                        /\ Cardinality(S \cup {x}) <= Cardinality(S) + 1
<1>1. IsFiniteSet(S \cup {x}) /\ Cardinality(S) \in Nat /\ Cardinality(S \cup {x}) \in Nat
  BY FS_AddElement, FS_CardinalityType
<1>2. CASE x \in S
  <2>1. Cardinality(S \cup {x}) = Cardinality(S)
    <3>1. S \cup {x} = S
      BY <1>2
    <3> QED BY <3>1
  <2> QED BY <1>1, <2>1
<1>3. CASE x \notin S
  BY <1>1, <1>3, FS_AddElement
<1> QED BY <1>1, <1>2, <1>3

LEMMA CardSub == ASSUME NEW S, NEW T, IsFiniteSet(S), T \subseteq S
                 PROVE  /\ IsFiniteSet(T) /\ Cardinality(T) \in Nat /\ Cardinality(S) \in Nat
                        /\ Cardinality(T) <= Cardinality(S)
BY FS_Subset, FS_CardinalityType

\* Leaving the lock's queue keeps it a sequence, and keeps its owner unless that is who
\* leaves.
LEMMA DropType == ASSUME NEW S, NEW s \in Seq(S), NEW i \in 1..Len(s)
                  PROVE  /\ Drop(s, i) \in Seq(S)
                         /\ i # 1 => Drop(s, i) # <<>> /\ Head(Drop(s, i)) = Head(s)
<1>1. Len(s) \in Nat /\ \A j \in 1..Len(s) : s[j] \in S
  OBVIOUS
<1>2. \A j \in 1..(Len(s) - 1) : (IF j < i THEN s[j] ELSE s[j + 1]) \in S
  BY <1>1
<1>3. Len(s) - 1 \in Nat
  BY <1>1
<1>4. Drop(s, i) \in [1..(Len(s) - 1) -> S]
  BY <1>2 DEF Drop
<1>5. Drop(s, i) \in Seq(S) /\ Len(Drop(s, i)) = Len(s) - 1
  BY <1>3, <1>4
<1>6. ASSUME i # 1
      PROVE  Drop(s, i) # <<>> /\ Head(Drop(s, i)) = Head(s)
  <2>1. Len(s) - 1 >= 1 /\ 1 < i
    BY <1>1, <1>6
  <2>2. Drop(s, i)[1] = s[1]
    BY <1>1, <2>1 DEF Drop
  <2>3. Drop(s, i) # <<>> /\ Head(Drop(s, i)) = Drop(s, i)[1]
    BY <1>5, <2>1
  <2>4. Head(s) = s[1]
    BY <1>1, <2>1
  <2> QED BY <2>2, <2>3, <2>4
<1> QED BY <1>5, <1>6

LEMMA LockQueue == ASSUME NEW S, NEW s \in Seq(S)
                   PROVE  /\ \A x \in S : /\ Append(s, x) \in Seq(S) /\ Append(s, x) # <<>>
                                          /\ s # <<>> => Head(Append(s, x)) = Head(s)
                                          /\ s = <<>> => Head(Append(s, x)) = x
                          /\ s # <<>> => Tail(s) \in Seq(S) /\ Head(s) \in S
<1>1. s # <<>> => Tail(s) \in Seq(S) /\ Head(s) \in S
  OBVIOUS
<1>2. ASSUME NEW x \in S
      PROVE  /\ Append(s, x) \in Seq(S) /\ Append(s, x) # <<>>
             /\ s # <<>> => Head(Append(s, x)) = Head(s)
             /\ s = <<>> => Head(Append(s, x)) = x
  <2>1. /\ Append(s, x) \in Seq(S) /\ Len(Append(s, x)) = Len(s) + 1 /\ Len(s) \in Nat
        /\ \A j \in 1..Len(s) : Append(s, x)[j] = s[j]
        /\ Append(s, x)[Len(s) + 1] = x
    OBVIOUS
  <2>2. Append(s, x) # <<>> /\ Head(Append(s, x)) = Append(s, x)[1]
    BY <2>1
  <2>3. ASSUME s # <<>> PROVE Head(Append(s, x)) = Head(s)
    <3>1. Len(s) >= 1 /\ Head(s) = s[1]
      BY <2>1, <2>3
    <3> QED BY <2>1, <2>2, <3>1
  <2>4. ASSUME s = <<>> PROVE Head(Append(s, x)) = x
    <3>1. Len(s) = 0
      BY <2>4
    <3> QED BY <2>1, <2>2, <3>1
  <2> QED BY <2>1, <2>2, <2>3, <2>4
<1> QED BY <1>1, <1>2

--------------------------------------------------------------------------------
\* The types.  A promise that is redeemed or handed back was reserved.
LEMMA TypeStep == ASSUME PoolInv, [Next]_vars
                  PROVE  PoolTypeOK'
<1> USE PoolAssumption DEF PoolInv, bookVars, waitVars
<1>1. Run \subseteq Actor /\ Thread \subseteq Actor /\ Sweeper \in Actor
  BY DEF Actor
<1>2. PoolTypeOK
  OBVIOUS
<1>3. \A r \in Run : r \in granted => reserved - 1 \in Nat
  <2>1. TAKE r \in Run
  <2>2. HAVE r \in granted
  <2>3. Cardinality(granted) \in Nat /\ Cardinality(granted) >= 1
    BY <2>2, CardRemove DEF FiniteInv
  <2> QED BY <1>2, <2>3 DEF GrantsAreBacked, PoolTypeOK
<1>4. \A a \in Actor : \A p \in PoolPc : [pc EXCEPT ![a] = p] \in [Actor -> PoolPc]
  BY <1>2 DEF PoolTypeOK
<1>q. /\ \A a \in Actor : Append(lockq, a) \in Seq(Actor)
      /\ lockq # <<>> => Tail(lockq) \in Seq(Actor)
  BY <1>2, LockQueue DEF PoolTypeOK
<1>w. /\ \A r \in Run : Append(queue, r) \in Seq(Run)
      /\ queue # <<>> => Tail(queue) \in Seq(Run) /\ Head(queue) \in Run
  BY <1>2, LockQueue DEF PoolTypeOK
<1> USE DEF At, Goto, Lock, Unlock, PoolPc, TakingPc, PumpPc, LockPc
<1>5. ASSUME NEW r \in Run, Open(r) \/ Release(r)
      PROVE  PoolTypeOK'
  <2>1. lockq' \in Seq(Actor)
    BY <1>1, <1>5, <1>q DEF Open, Release
  <2>2. tlock' \subseteq Actor /\ UNCHANGED <<bookVars, waitVars, wiped>>
    BY <1>1, <1>2, <1>5 DEF PoolTypeOK, Open, Release
  <2>3. pc' \in [Actor -> PoolPc]
    BY <1>1, <1>4, <1>5 DEF Open, Release
  <2> QED BY <1>2, <2>1, <2>2, <2>3 DEF PoolTypeOK
<1>6. ASSUME NEW r \in Run, Probe(r) \/ TakeRoom(r) \/ TakeEvicted(r) \/ Forget(r)
      PROVE  PoolTypeOK'
  <2>1. UNCHANGED <<bookVars, waitVars, lockq, tlock, wiped>>
    BY <1>6 DEF Probe, TakeRoom, TakeEvicted, Forget
  <2>2. pc' \in [Actor -> PoolPc]
    BY <1>1, <1>4, <1>6 DEF Probe, TakeRoom, TakeEvicted, Forget
  <2> QED BY <1>2, <2>1, <2>2 DEF PoolTypeOK
<1>7. ASSUME NEW r \in Run, Reuse(r) \/ StartOk(r) \/ StartFails(r)
      PROVE  PoolTypeOK'
  <2>1. lockq # <<>>
    BY <1>1, <1>7 DEF Reuse, StartOk, StartFails, LockInv, Owns
  <2>2. UNCHANGED <<waitVars, wiped, stray>> /\ pc' \in [Actor -> PoolPc] /\ lockq' = Tail(lockq)
    BY <1>1, <1>4, <1>7 DEF Reuse, StartOk, StartFails, Served
  <2>3. slot' \subseteq Thread /\ dead' \subseteq slot' /\ tlock' \subseteq Actor
        /\ holder' \in [Thread -> SUBSET Run]
    BY <1>1, <1>2, <1>7 DEF PoolTypeOK, Reuse, StartOk, StartFails, Served
  <2> QED BY <1>2, <2>1, <2>2, <2>3, <1>q, <1>w DEF PoolTypeOK
<1>8. ASSUME NEW r \in Run, DropDead(r) \/ TakeEvict(r)
      PROVE  PoolTypeOK'
  <2>1. UNCHANGED <<stray, waitVars, lockq, tlock, wiped>>
    BY <1>8 DEF DropDead, TakeEvict, evict_idle
  <2>2. pc' \in [Actor -> PoolPc]
    BY <1>1, <1>4, <1>8 DEF DropDead, TakeEvict
  <2>3. slot' \subseteq Thread /\ dead' \subseteq slot' /\ holder' \in [Thread -> SUBSET Run]
    BY <1>2, <1>8 DEF PoolTypeOK, DropDead, TakeEvict, evict_idle
  <2> QED BY <1>2, <2>1, <2>2, <2>3 DEF PoolTypeOK
<1>9. ASSUME NEW r \in Run, Enqueue(r)
      PROVE  PoolTypeOK'
  <2>1. lockq # <<>>
    BY <1>1, <1>9 DEF Enqueue, Seeking, LockInv, Owns
  <2> QED BY <1>1, <1>2, <1>4, <1>9, <2>1, <1>q, <1>w DEF PoolTypeOK, Enqueue
<1>10. ASSUME NEW r \in Run, Wake(r) \/ Redeem(r)
       PROVE  PoolTypeOK'
  <2>1. lockq' \in Seq(Actor)
    <3>1. lockq' = lockq \/ lockq' = Append(lockq, r)
      BY <1>10 DEF Wake, Redeem
    <3>2. lockq \in Seq(Actor) /\ r \in Actor
      BY <1>1, <1>2 DEF PoolTypeOK
    <3>3. Append(lockq, r) \in Seq(Actor)
      BY <1>q, <3>2
    <3> QED BY <3>1, <3>2, <3>3
  <2>2. reserved' \in Nat /\ granted' \subseteq Run
    BY <1>2, <1>3, <1>10 DEF PoolTypeOK, PromiseInv, Wake, Redeem, Redeemed
  <2>3. pc' \in [Actor -> PoolPc] /\ UNCHANGED <<bookVars, queue, cancelled, tlock, wiped>>
    BY <1>1, <1>4, <1>10 DEF Wake, Redeem
  <2> QED BY <1>2, <2>1, <2>2, <2>3 DEF PoolTypeOK
<1>11. ASSUME NEW r \in Run, Abandon(r)
       PROVE  PoolTypeOK'
  <2>1. queue' \in Seq(Run)
    <3>1. CASE queue' = queue
      BY <1>2, <3>1 DEF PoolTypeOK
    <3>2. CASE \E i \in 1..Len(queue) : queue' = Drop(queue, i)
      BY <1>2, <3>2, DropType DEF PoolTypeOK
    <3> QED BY <1>11, <3>1, <3>2 DEF Abandon
  <2> QED BY <1>1, <1>2, <1>3, <1>4, <1>11, <2>1 DEF PoolTypeOK, Abandon, Redeemed
<1>12. ASSUME NEW r \in Run, Timeout(r) \/ CloseWaiting(r)
       PROVE  PoolTypeOK'
  BY <1>1, <1>2, <1>12 DEF PoolTypeOK, Timeout, CloseWaiting
<1>13. ASSUME NEW r \in Run, CloseLocking(r)
       PROVE  PoolTypeOK'
  BY <1>1, <1>2, <1>4, <1>13, DropType DEF PoolTypeOK, CloseLocking
<1>14. ASSUME NEW r \in Run, CloseTaking(r)
       PROVE  PoolTypeOK'
  <2>1. lockq # <<>>
    BY <1>1, <1>14 DEF CloseTaking, LockInv, Owns
  <2>2. stray' \in 0..MaxStray
    BY <1>2, <1>14 DEF PoolTypeOK, CloseTaking
  <2> QED BY <1>1, <1>2, <1>4, <1>14, <2>1, <2>2, <1>q, <1>w DEF PoolTypeOK, CloseTaking
<1>15. ASSUME NEW r \in Run, ReleaseIn(r)
       PROVE  PoolTypeOK'
  BY <1>1, <1>2, <1>4, <1>15 DEF PoolTypeOK, ReleaseIn
<1>16. ASSUME NEW t \in Thread, DestroyIn(t) \/ Die(t)
       PROVE  PoolTypeOK'
  <2>1. UNCHANGED <<stray, waitVars, lockq, tlock, wiped>>
    BY <1>16 DEF DestroyIn, Die
  <2>2. pc' \in [Actor -> PoolPc]
    BY <1>1, <1>2, <1>4, <1>16 DEF PoolTypeOK, DestroyIn, Die
  <2>3. slot' \subseteq Thread /\ dead' \subseteq slot' /\ holder' \in [Thread -> SUBSET Run]
    BY <1>2, <1>16 DEF PoolTypeOK, DestroyIn, Die
  <2> QED BY <1>2, <2>1, <2>2, <2>3 DEF PoolTypeOK
<1>17. ASSUME Sweep \/ \E t \in Thread : Destroy(t)
       PROVE  PoolTypeOK'
  <2>1. lockq' \in Seq(Actor)
    BY <1>1, <1>17, <1>q DEF Sweep, Destroy
  <2>2. tlock' \subseteq Actor /\ UNCHANGED <<bookVars, waitVars, wiped>>
    BY <1>1, <1>2, <1>17 DEF PoolTypeOK, Sweep, Destroy
  <2>3. pc' \in [Actor -> PoolPc]
    BY <1>1, <1>4, <1>17 DEF Sweep, Destroy
  <2> QED BY <1>2, <2>1, <2>2, <2>3 DEF PoolTypeOK
<1>21. ASSUME SweepIn
       PROVE  PoolTypeOK'
  <2>1. slot' \subseteq Thread /\ dead' \subseteq slot' /\ holder' \in [Thread -> SUBSET Run]
    BY <1>2, <1>21 DEF PoolTypeOK, SweepIn
  <2> QED BY <1>1, <1>2, <1>4, <1>21, <2>1 DEF PoolTypeOK, SweepIn
<1>18. ASSUME NEW a \in Actor, PumpEvict(a)
       PROVE  PoolTypeOK'
  BY <1>1, <1>2, <1>4, <1>18 DEF PoolTypeOK, PumpEvict, evict_idle
<1>19. ASSUME NEW a \in Actor, Pump(a) \/ PumpEvicted(a) \/ PumpDone(a)
       PROVE  PoolTypeOK'
  <2>1. lockq # <<>>
    BY <1>19 DEF Pump, PumpEvicted, PumpDone, LockInv, Owns
  <2>2. lockq' \in {lockq, Tail(lockq)} /\ queue' \in {queue, Tail(queue)}
    BY <1>19 DEF Pump, PumpEvicted, PumpDone, Admit, PumpEnds
  <2>3. queue = <<>> => queue' = queue
    BY <1>19 DEF Pump, PumpEvicted, PumpDone, Admit
  <2>4. lockq' \in Seq(Actor) /\ queue' \in Seq(Run)
    BY <1>2, <1>q, <1>w, <2>1, <2>2, <2>3 DEF PoolTypeOK
  <2>5. tlock' \subseteq Actor /\ wiped' \subseteq Thread
    BY <1>2, <1>19 DEF PoolTypeOK, Pump, PumpEvicted, PumpDone, Admit, PumpEnds
  <2>6. pc' \in [Actor -> PoolPc]
    <3>1. \E p \in {"idle", "gone", "pump"} : pc' = [pc EXCEPT ![a] = p]
      BY <1>19 DEF Pump, PumpEvicted, PumpDone, Admit, PumpEnds
    <3> QED BY <1>4, <3>1
  <2>7. granted' \in {granted, granted \cup {Head(queue)}} /\ (queue = <<>> => granted' = granted)
    BY <1>19 DEF Pump, PumpEvicted, PumpDone, Admit
  <2>8. granted' \subseteq Run
    BY <1>2, <1>w, <2>7 DEF PoolTypeOK
  <2>9. UNCHANGED <<cancelled, bookVars>> /\ (reserved' = reserved \/ reserved' = reserved + 1)
    BY <1>19 DEF Pump, PumpEvicted, PumpDone, Admit
  <2> QED BY <1>2, <2>4, <2>5, <2>6, <2>8, <2>9 DEF PoolTypeOK
<1>20. CASE UNCHANGED vars
  BY <1>2, <1>20 DEF PoolTypeOK, vars
<1> QED BY <1>5, <1>6, <1>7, <1>8, <1>9, <1>10, <1>11, <1>12, <1>13, <1>14, <1>15, <1>16, <1>17,
          <1>18, <1>19, <1>20, <1>21 DEF Next, AcquireStep, PumpStep, Disconnect

--------------------------------------------------------------------------------
\* Who is inside _lock: joining its queue, moving without it, or leaving it.
CriticalPc == TakingPc \cup PumpPc

LEMMA JoinLock == ASSUME PoolTypeOK, LockInv, NEW a \in Actor, NEW p, p \notin CriticalPc,
                         Lock(a), Goto(a, p)
                  PROVE  LockInv'
<1> SUFFICES ASSUME NEW b \in Actor, pc'[b] \in CriticalPc PROVE Owns(b)'
  BY DEF LockInv, CriticalPc
<1>1. pc[b] \in CriticalPc
  BY DEF Goto, PoolTypeOK
<1>2. lockq # <<>> /\ Head(lockq) = b
  BY <1>1 DEF LockInv, Owns, CriticalPc
<1>3. Append(lockq, a) # <<>> /\ Head(Append(lockq, a)) = Head(lockq)
  BY <1>2, LockQueue DEF PoolTypeOK
<1> QED BY <1>2, <1>3 DEF Lock, Owns

LEMMA MoveLock == ASSUME PoolTypeOK, LockInv, NEW a \in Actor, NEW p, p \in CriticalPc => Owns(a),
                         lockq' = lockq, Goto(a, p)
                  PROVE  LockInv'
<1> SUFFICES ASSUME NEW b \in Actor, pc'[b] \in CriticalPc PROVE Owns(b)'
  BY DEF LockInv, CriticalPc
<1>1. CASE b = a
  BY <1>1 DEF Goto, PoolTypeOK, Owns
<1>2. CASE b # a
  BY <1>2 DEF Goto, PoolTypeOK, LockInv, Owns, CriticalPc
<1> QED BY <1>1, <1>2

LEMMA LeaveLock == ASSUME PoolTypeOK, LockInv, NEW a \in Actor, NEW p, p \notin CriticalPc, Owns(a),
                          Goto(a, p)
                   PROVE  (\A b \in Actor : pc'[b] \notin CriticalPc) /\ LockInv'
<1>1. ASSUME NEW b \in Actor PROVE pc'[b] \notin CriticalPc
  <2>1. CASE b = a
    BY <2>1 DEF Goto, PoolTypeOK
  <2>2. CASE b # a
    BY <2>2 DEF Goto, PoolTypeOK, LockInv, Owns, CriticalPc
  <2> QED BY <2>1, <2>2
<1> QED BY <1>1 DEF LockInv, CriticalPc

\* A request that gives up waiting for _lock: its owner is untouched, or was that request
\* before it did anything.
LEMMA CloseLock == ASSUME PoolTypeOK, LockInv, NEW r \in Run, CloseLocking(r)
                   PROVE  LockInv'
<1> PICK i \in 1..Len(lockq) : lockq[i] = r /\ lockq' = Drop(lockq, i)
  BY DEF CloseLocking
<1>1. r \in Actor /\ pc[r] \in {"lock1", "lock2"} /\ Goto(r, "idle")
  BY DEF Actor, CloseLocking
<1> SUFFICES ASSUME NEW b \in Actor, pc'[b] \in CriticalPc PROVE Owns(b)'
  BY DEF LockInv, CriticalPc
<1>2. b # r /\ pc[b] \in CriticalPc
  BY <1>1 DEF Goto, PoolTypeOK, CriticalPc, TakingPc, PumpPc
<1>3. lockq # <<>> /\ Head(lockq) = b
  BY <1>2 DEF LockInv, Owns, CriticalPc
<1>4. Head(lockq) = lockq[1]
  BY <1>3 DEF PoolTypeOK
<1>5. i # 1
  BY <1>2, <1>3, <1>4
<1>6. Drop(lockq, i) # <<>> /\ Head(Drop(lockq, i)) = Head(lockq)
  BY <1>5, DropType DEF PoolTypeOK
<1> QED BY <1>3, <1>6 DEF Owns

LEMMA LockStep == ASSUME PoolInv, [Next]_vars
                  PROVE  LockInv'
<1> USE DEF PoolInv, bookVars, waitVars
<1>1. Run \subseteq Actor /\ Thread \subseteq Actor /\ Sweeper \in Actor
  BY DEF Actor
<1>2. \A a \in Actor : pc[a] \in CriticalPc => Owns(a)
  BY DEF LockInv, CriticalPc
<1>3. \A p \in {"idle", "waiting", "using", "gone"} \cup LockPc : p \notin CriticalPc
  BY DEF CriticalPc, TakingPc, PumpPc, LockPc
<1>4. TakingPc \subseteq CriticalPc /\ PumpPc \subseteq CriticalPc
  BY DEF CriticalPc
<1> USE DEF TakingPc, PumpPc, LockPc
<1>5. ASSUME NEW r \in Run, Open(r) \/ Release(r)
      PROVE  LockInv'
  <2>1. Lock(r) /\ (Goto(r, "lock1") \/ Goto(r, "release"))
    BY <1>5 DEF Open, Release
  <2> QED BY <1>1, <1>3, <2>1, JoinLock
<1>6. ASSUME Sweep \/ \E t \in Thread : Destroy(t)
      PROVE  LockInv'
  <2>1. \E a \in Actor : Lock(a) /\ (Goto(a, "sweep") \/ Goto(a, "delete"))
    BY <1>1, <1>6 DEF Sweep, Destroy
  <2> QED BY <1>3, <2>1, JoinLock
<1>7. ASSUME NEW r \in Run, Probe(r) \/ DropDead(r) \/ TakeRoom(r) \/ TakeEvict(r) \/ TakeEvicted(r)
                            \/ ReleaseIn(r) \/ Redeem(r)
      PROVE  LockInv'
  <2>1. Owns(r) /\ lockq' = lockq
    BY <1>1, <1>2, <1>4, <1>7
       DEF Probe, DropDead, TakeRoom, TakeEvict, TakeEvicted, ReleaseIn, Redeem, Seeking, At
  <2>2. \E p : Goto(r, p)
    BY <1>7 DEF Probe, DropDead, TakeRoom, TakeEvict, TakeEvicted, ReleaseIn, Redeem
  <2> QED BY <1>1, <2>1, <2>2, MoveLock
<1>8. ASSUME NEW r \in Run, Forget(r)
      PROVE  LockInv'
  <2>1. lockq' = lockq /\ Goto(r, "idle")
    BY <1>8 DEF Forget
  <2> QED BY <1>1, <1>3, <2>1, MoveLock
<1>9. ASSUME NEW r \in Run, Abandon(r)
      PROVE  LockInv'
  <2>1. lockq' = lockq /\ Goto(r, "idle")
    BY <1>9 DEF Abandon
  <2> QED BY <1>1, <1>3, <2>1, MoveLock
<1>10. ASSUME SweepIn \/ \E t \in Thread : DestroyIn(t)
       PROVE  LockInv'
  <2>1. \E a \in Actor : Owns(a) /\ lockq' = lockq /\ Goto(a, "pump")
    BY <1>1, <1>10 DEF SweepIn, DestroyIn
  <2> QED BY <2>1, MoveLock
<1>11. ASSUME NEW a \in Actor, PumpEvict(a)
       PROVE  LockInv'
  <2>1. Owns(a) /\ lockq' = lockq /\ Goto(a, "evicting")
    BY <1>2, <1>4, <1>11 DEF PumpEvict, At
  <2> QED BY <2>1, MoveLock
<1>12. ASSUME NEW r \in Run, Reuse(r) \/ Enqueue(r) \/ StartOk(r) \/ StartFails(r) \/ CloseTaking(r)
       PROVE  LockInv'
  <2>1. Owns(r)
    BY <1>1, <1>2, <1>4, <1>12 DEF Reuse, Enqueue, StartOk, StartFails, CloseTaking, Seeking, At
  <2>2. \E p \in {"idle", "waiting", "using"} : Goto(r, p)
    BY <1>12 DEF Reuse, Enqueue, StartOk, StartFails, CloseTaking, Served
  <2> QED BY <1>1, <1>3, <2>1, <2>2, LeaveLock
<1>13. ASSUME NEW a \in Actor, Pump(a) \/ PumpEvicted(a) \/ PumpDone(a)
       PROVE  LockInv'
  <2>1. Owns(a)
    BY <1>2, <1>4, <1>13 DEF Pump, PumpEvicted, PumpDone, At
  <2>2. \/ Goto(a, "pump") /\ lockq' = lockq
        \/ Goto(a, "idle") \/ Goto(a, "gone")
    BY <1>13 DEF Pump, PumpEvicted, PumpDone, Admit, PumpEnds
  <2> QED BY <1>3, <2>1, <2>2, MoveLock, LeaveLock
<1>14. ASSUME NEW r \in Run, Wake(r)
       PROVE  LockInv'
  <2>1. CASE lockq = <<>>
    <3>1. \A b \in Actor : pc[b] \notin CriticalPc
      BY <1>2, <2>1 DEF Owns
    <3>2. Goto(r, "start") /\ lockq' = Append(lockq, r)
      BY <1>14, <2>1 DEF Wake, Lock
    <3>3. Owns(r)'
      BY <1>1, <2>1, <3>2, LockQueue DEF Owns, PoolTypeOK
    <3>4. \A b \in Actor : pc'[b] \in CriticalPc => b = r
      BY <3>1, <3>2 DEF Goto, PoolTypeOK
    <3> QED BY <3>3, <3>4 DEF LockInv, CriticalPc
  <2>2. CASE lockq # <<>>
    <3>1. Goto(r, "lock2") /\ Lock(r)
      BY <1>14, <2>2 DEF Wake
    <3> QED BY <1>1, <1>3, <3>1, JoinLock
  <2> QED BY <2>1, <2>2
<1>15. ASSUME NEW r \in Run, CloseLocking(r)
       PROVE  LockInv'
  BY <1>15, CloseLock
<1>16. ASSUME UNCHANGED <<lockq, pc>>
       PROVE  LockInv'
  BY <1>16 DEF LockInv, Owns
<1>17. ASSUME UNCHANGED vars \/ (\E r \in Run : Timeout(r) \/ CloseWaiting(r)) \/ (\E t \in Thread : Die(t))
       PROVE  LockInv'
  BY <1>16, <1>17 DEF vars, Timeout, CloseWaiting, Die
<1> QED BY <1>5, <1>6, <1>7, <1>8, <1>9, <1>10, <1>11, <1>12, <1>13, <1>14, <1>15, <1>17, PoolAssumption
        DEF Next, AcquireStep, PumpStep, Disconnect

--------------------------------------------------------------------------------
\* Promises: only Wake sends a request to its second critical section.
PromiseOK == PromiseInv /\ IsFiniteSet(granted) /\ GrantsAreBacked

LEMMA KeepPromises == ASSUME PoolInv, UNCHANGED <<granted, reserved>>,
                             NEW a \in Actor, NEW p, p # "lock2", Goto(a, p)
                      PROVE  PromiseOK'
BY DEF PoolInv, PromiseOK, PromiseInv, FiniteInv, GrantsAreBacked, Goto, At, PoolTypeOK, Actor

LEMMA ReturnPromise == ASSUME PoolInv, NEW r \in Run, r \in granted, Redeemed(r),
                              NEW p, p # "lock2", Goto(r, p)
                       PROVE  PromiseOK'
<1>1. PromiseInv'
  BY DEF PoolInv, PromiseInv, Goto, At, PoolTypeOK, Actor, Redeemed
<1>2. IsFiniteSet(granted') /\ Cardinality(granted') = Cardinality(granted) - 1
      /\ Cardinality(granted) \in Nat
  BY CardRemove DEF PoolInv, FiniteInv, Redeemed
<1>3. GrantsAreBacked'
  BY <1>2 DEF PoolInv, GrantsAreBacked, Redeemed, PoolTypeOK
<1> QED BY <1>1, <1>2, <1>3 DEF PromiseOK

\* _pump reserves before it looks who waits, so a promise is always backed.
LEMMA AdmitPromise == ASSUME PoolInv, NEW a \in Actor, Admit(a)
                      PROVE  PromiseOK'
<1>1. granted' = granted \/ granted' = granted \cup {Head(queue)}
  BY DEF Admit
<1>2. \E p \in {"pump", "idle", "gone"} : Goto(a, p)
  BY DEF Admit, PumpEnds
<1>3. PromiseInv'
  BY <1>1, <1>2 DEF PoolInv, PromiseInv, Goto, At, PoolTypeOK, Actor
<1>4. IsFiniteSet(granted') /\ Cardinality(granted') <= Cardinality(granted) + 1
      /\ Cardinality(granted) \in Nat /\ Cardinality(granted') \in Nat
  <2>1. Cardinality(granted) \in Nat /\ IsFiniteSet(granted)
    BY FS_CardinalityType DEF PoolInv, FiniteInv
  <2>2. CASE granted' = granted
    BY <2>1, <2>2
  <2>3. CASE granted' = granted \cup {Head(queue)}
    BY <2>1, <2>3, CardAdd
  <2> QED BY <1>1, <2>2, <2>3
<1>5. GrantsAreBacked'
  <2>1. reserved \in Nat /\ Cardinality(granted) <= reserved /\ reserved' = reserved + 1
    BY DEF PoolInv, GrantsAreBacked, PoolTypeOK, Admit
  <2> QED BY <1>4, <2>1 DEF GrantsAreBacked
<1> QED BY <1>3, <1>4, <1>5 DEF PromiseOK

LEMMA PromiseStep == ASSUME PoolInv, [Next]_vars
                     PROVE  PromiseOK'
<1> USE DEF bookVars, waitVars
<1>1. Run \subseteq Actor /\ Thread \subseteq Actor /\ Sweeper \in Actor
  BY DEF Actor
<1>2. ASSUME NEW r \in Run,
             \/ Open(r) \/ Release(r) \/ Forget(r) \/ Probe(r) \/ Reuse(r) \/ DropDead(r) \/ TakeRoom(r)
             \/ TakeEvict(r) \/ TakeEvicted(r) \/ Enqueue(r) \/ StartOk(r) \/ StartFails(r)
             \/ ReleaseIn(r) \/ CloseTaking(r)
      PROVE  PromiseOK'
  <2>1. UNCHANGED <<granted, reserved>>
    BY <1>2 DEF Open, Release, Forget, Probe, Reuse, DropDead, TakeRoom, TakeEvict, TakeEvicted, Enqueue,
                StartOk, StartFails, ReleaseIn, CloseTaking, Served
  <2>2. \E p \in PoolPc \ {"lock2"} : Goto(r, p)
    BY <1>2 DEF Open, Release, Forget, Probe, Reuse, DropDead, TakeRoom, TakeEvict, TakeEvicted, Enqueue,
                StartOk, StartFails, ReleaseIn, CloseTaking, Served, PoolPc, TakingPc, PumpPc, LockPc
  <2> QED BY <1>1, <2>1, <2>2, KeepPromises
<1>3. ASSUME NEW a \in Actor, PumpEvict(a) \/ PumpDone(a)
      PROVE  PromiseOK'
  <2>1. UNCHANGED <<granted, reserved>> /\ \E p \in {"evicting", "idle", "gone"} : Goto(a, p)
    BY <1>3 DEF PumpEvict, PumpDone, PumpEnds
  <2> QED BY <2>1, KeepPromises
<1>4. ASSUME NEW a \in Actor, Pump(a) \/ PumpEvicted(a)
      PROVE  PromiseOK'
  BY <1>4, AdmitPromise DEF Pump, PumpEvicted
<1>5. ASSUME Sweep \/ SweepIn \/ \E t \in Thread : Destroy(t) \/ DestroyIn(t)
      PROVE  PromiseOK'
  <2>1. UNCHANGED <<granted, reserved>> /\ \E a \in Actor, p \in {"sweep", "delete", "pump"} : Goto(a, p)
    BY <1>1, <1>5 DEF Sweep, SweepIn, Destroy, DestroyIn
  <2> QED BY <2>1, KeepPromises
<1>6. ASSUME NEW r \in Run, Wake(r)
      PROVE  PromiseOK'
  <2>1. CASE lockq = <<>>
    BY <1>6, <2>1, ReturnPromise DEF Wake
  <2>2. CASE lockq # <<>>
    BY <1>6, <2>2 DEF Wake, PoolInv, PromiseOK, PromiseInv, FiniteInv, GrantsAreBacked, Goto, At,
                      PoolTypeOK, Actor
  <2> QED BY <2>1, <2>2
<1>7. ASSUME NEW r \in Run, Redeem(r)
      PROVE  PromiseOK'
  BY <1>7, ReturnPromise DEF Redeem, PoolInv, PromiseInv
<1>8. ASSUME NEW r \in Run, Abandon(r)
      PROVE  PromiseOK'
  BY <1>1, <1>8, ReturnPromise, KeepPromises DEF Abandon
<1>9. ASSUME NEW r \in Run, CloseLocking(r)
      PROVE  PromiseOK'
  <2>1. granted' = granted \ {r} /\ reserved' = reserved /\ Goto(r, "idle")
    BY <1>9 DEF CloseLocking
  <2>2. PromiseInv'
    BY <2>1 DEF PoolInv, PromiseInv, Goto, At, PoolTypeOK, Actor
  <2>3. IsFiniteSet(granted') /\ Cardinality(granted') <= Cardinality(granted)
        /\ Cardinality(granted) \in Nat /\ Cardinality(granted') \in Nat
    BY <2>1, CardRemove DEF PoolInv, FiniteInv
  <2>4. GrantsAreBacked'
    BY <2>1, <2>3 DEF PoolInv, GrantsAreBacked, PoolTypeOK
  <2> QED BY <2>2, <2>3, <2>4 DEF PromiseOK
<1>10. ASSUME UNCHANGED <<granted, reserved, pc>>
       PROVE  PromiseOK'
  BY <1>10 DEF PoolInv, PromiseOK, PromiseInv, FiniteInv, GrantsAreBacked, At
<1>11. ASSUME UNCHANGED vars \/ (\E r \in Run : Timeout(r) \/ CloseWaiting(r)) \/ (\E t \in Thread : Die(t))
       PROVE  PromiseOK'
  BY <1>10, <1>11 DEF vars, Timeout, CloseWaiting, Die
<1> QED BY <1>2, <1>3, <1>4, <1>5, <1>6, <1>7, <1>8, <1>9, <1>11, PoolAssumption
        DEF Next, AcquireStep, PumpStep, Disconnect

--------------------------------------------------------------------------------
\* Places: registered, promised and in the making.
PlacesOK == IsFiniteSet(slot) /\ Capacity

\* A step that takes nothing: no more containers, no more promises, nothing begun.
LEMMA KeepPlaces == ASSUME PoolInv, slot' \subseteq slot, reserved' = reserved,
                           \A a \in Actor : pc'[a] \in ComingPc => pc[a] \in ComingPc
                    PROVE  PlacesOK'
<1>1. IsFiniteSet(slot') /\ Cardinality(slot') \in Nat /\ Cardinality(slot) \in Nat
      /\ Cardinality(slot') <= Cardinality(slot)
  BY CardSub DEF PoolInv, FiniteInv
<1>2. Coming \in {0, 1} /\ Coming' \in {0, 1} /\ Coming' <= Coming
  BY DEF Coming
<1>3. reserved \in Nat /\ MaxContainer \in Nat /\ Cardinality(slot) + reserved + Coming <= MaxContainer
  BY PoolAssumption DEF PoolInv, Capacity, PoolTypeOK
<1>4. Cardinality(slot') + reserved' + Coming' <= MaxContainer
  BY <1>1, <1>2, <1>3
<1> QED BY <1>1, <1>4 DEF PlacesOK, Capacity

LEMMA MoveKeeps == ASSUME PoolInv, slot' \subseteq slot, reserved' = reserved,
                          NEW a \in Actor, NEW p, Goto(a, p), p \in ComingPc => pc[a] \in ComingPc
                   PROVE  PlacesOK'
<1>1. \A b \in Actor : pc'[b] \in ComingPc => pc[b] \in ComingPc
  BY DEF Goto, PoolInv, PoolTypeOK
<1> QED BY <1>1, KeepPlaces

\* A victim makes room for one.
LEMMA EvictMakesRoom == ASSUME PoolInv, NEW v \in Thread, evict_idle(v), reserved' = reserved
                        PROVE  PlacesOK'
<1>1. v \in slot /\ slot' = slot \ {v}
  BY DEF evict_idle, idle
<1>2. IsFiniteSet(slot') /\ Cardinality(slot') \in Nat /\ Cardinality(slot) \in Nat
      /\ Cardinality(slot') = Cardinality(slot) - 1
  BY <1>1, CardRemove DEF PoolInv, FiniteInv
<1>3. Coming \in {0, 1} /\ Coming' \in {0, 1}
  BY DEF Coming
<1>4. reserved \in Nat /\ MaxContainer \in Nat /\ Cardinality(slot) + reserved + Coming <= MaxContainer
  BY PoolAssumption DEF PoolInv, Capacity, PoolTypeOK
<1>5. Cardinality(slot') + reserved' + Coming' <= MaxContainer
  BY <1>2, <1>3, <1>4
<1> QED BY <1>2, <1>5 DEF PlacesOK, Capacity

\* A promise turns into a container in the making.
LEMMA RedeemKeeps == ASSUME PoolInv, slot' = slot, NEW r \in Run, Redeemed(r)
                     PROVE  PlacesOK'
<1>1. IsFiniteSet(slot) /\ Cardinality(slot) \in Nat
  BY FS_CardinalityType DEF PoolInv, FiniteInv
<1>2. Coming \in {0, 1} /\ Coming' \in {0, 1}
  BY DEF Coming
<1>3. reserved \in Nat /\ MaxContainer \in Nat /\ Cardinality(slot) + reserved + Coming <= MaxContainer
      /\ reserved' = reserved - 1
  BY PoolAssumption DEF PoolInv, Capacity, PoolTypeOK, Redeemed
<1>4. Cardinality(slot) + reserved' + Coming' <= MaxContainer
  BY <1>1, <1>2, <1>3
<1> QED BY <1>1, <1>4 DEF PlacesOK, Capacity

\* What its owner was making under _lock is finished: nothing else is in the making.
LEMMA OwnerDone == ASSUME PoolInv, NEW a \in Actor, pc[a] \in CriticalPc,
                          NEW p, Goto(a, p), p \notin ComingPc
                   PROVE  Coming' = 0
<1>1. \A b \in Actor : pc'[b] \notin ComingPc
  <2> TAKE b \in Actor
  <2>1. CASE b = a
    BY <2>1 DEF Goto, PoolInv, PoolTypeOK
  <2>2. CASE b # a
    <3>1. pc[b] \notin CriticalPc
      BY <2>2 DEF PoolInv, LockInv, Owns, CriticalPc
    <3> QED BY <2>2, <3>1 DEF Goto, PoolInv, PoolTypeOK, ComingPc, CriticalPc, TakingPc, PumpPc
  <2> QED BY <2>1, <2>2
<1> QED BY <1>1 DEF Coming

LEMMA StartFills == ASSUME PoolInv, NEW r \in Run, StartOk(r)
                    PROVE  PlacesOK'
<1>1. r \in Actor /\ pc[r] = "start" /\ Goto(r, "using") /\ reserved' = reserved
      /\ slot' = slot \cup {ThreadOf[r]}
  BY DEF Actor, StartOk, Served, At, waitVars
<1>2. Coming' = 0
  BY <1>1, OwnerDone DEF CriticalPc, TakingPc, ComingPc
<1>3. Coming = 1
  BY <1>1 DEF Coming, ComingPc
<1>4. IsFiniteSet(slot') /\ Cardinality(slot') \in Nat /\ Cardinality(slot) \in Nat
      /\ Cardinality(slot') <= Cardinality(slot) + 1
  BY <1>1, CardAdd DEF PoolInv, FiniteInv
<1>5. reserved \in Nat /\ MaxContainer \in Nat /\ Cardinality(slot) + reserved + Coming <= MaxContainer
  BY PoolAssumption DEF PoolInv, Capacity, PoolTypeOK
<1>6. Cardinality(slot') + reserved' + Coming' <= MaxContainer
  BY <1>1, <1>2, <1>3, <1>4, <1>5
<1> QED BY <1>4, <1>6 DEF PlacesOK, Capacity

LEMMA PumpFills == ASSUME PoolInv, NEW a \in Actor, Pump(a) \/ PumpEvicted(a)
                   PROVE  PlacesOK'
<1>1. reserved' = reserved + 1 /\ slot' = slot
  BY DEF Pump, PumpEvicted, Admit
<1>2. \E p \in {"pump", "idle", "gone"} : Goto(a, p)
  BY DEF Pump, PumpEvicted, Admit, PumpEnds
<1>3. Coming' = 0
  BY <1>2, OwnerDone DEF Pump, PumpEvicted, At, CriticalPc, PumpPc, ComingPc
<1>4. IsFiniteSet(slot) /\ Cardinality(slot) \in Nat
  BY FS_CardinalityType DEF PoolInv, FiniteInv
<1>5. reserved \in Nat /\ MaxContainer \in Nat /\ Cardinality(slot) + reserved + Coming <= MaxContainer
  BY PoolAssumption DEF PoolInv, Capacity, PoolTypeOK
<1>6. Cardinality(slot) + reserved + 1 <= MaxContainer
  <2>1. CASE Pump(a)
    BY <1>4, <1>5, <2>1 DEF Pump, has_room
  <2>2. CASE PumpEvicted(a)
    <3>1. Coming = 1
      BY <2>2 DEF PumpEvicted, At, Coming, ComingPc
    <3> QED BY <1>4, <1>5, <3>1
  <2> QED BY <2>1, <2>2
<1>7. Cardinality(slot') + reserved' + Coming' <= MaxContainer
  BY <1>1, <1>3, <1>4, <1>5, <1>6
<1>8. IsFiniteSet(slot')
  BY <1>1, <1>4
<1> QED BY <1>7, <1>8 DEF PlacesOK, Capacity

LEMMA RoomTaken == ASSUME PoolInv, NEW r \in Run, TakeRoom(r)
                   PROVE  PlacesOK'
<1>1. slot' = slot /\ reserved' = reserved /\ Cardinality(slot) + reserved < MaxContainer
  BY DEF TakeRoom, has_room, bookVars, waitVars
<1>2. IsFiniteSet(slot) /\ Cardinality(slot) \in Nat /\ reserved \in Nat /\ MaxContainer \in Nat
  BY FS_CardinalityType, PoolAssumption DEF PoolInv, FiniteInv, PoolTypeOK
<1>3. Coming' \in {0, 1}
  BY DEF Coming
<1>4. Cardinality(slot) + reserved + Coming' <= MaxContainer
  BY <1>1, <1>2, <1>3
<1> QED BY <1>1, <1>2, <1>4 DEF PlacesOK, Capacity

LEMMA PlacesStep == ASSUME PoolInv, [Next]_vars
                    PROVE  PlacesOK'
<1> USE DEF bookVars, waitVars
<1>1. Run \subseteq Actor /\ Thread \subseteq Actor /\ Sweeper \in Actor
  BY DEF Actor
<1>2. ASSUME NEW r \in Run,
             \/ Open(r) \/ Release(r) \/ Forget(r) \/ Probe(r) \/ Reuse(r) \/ DropDead(r) \/ Enqueue(r)
             \/ StartFails(r) \/ ReleaseIn(r) \/ CloseLocking(r) \/ CloseTaking(r)
      PROVE  PlacesOK'
  <2>1. slot' \subseteq slot /\ reserved' = reserved
    BY <1>2 DEF Open, Release, Forget, Probe, Reuse, DropDead, Enqueue, StartFails, ReleaseIn,
                CloseLocking, CloseTaking, Served
  <2>2. \E p \in PoolPc \ ComingPc : Goto(r, p)
    BY <1>2 DEF Open, Release, Forget, Probe, Reuse, DropDead, Enqueue, StartFails, ReleaseIn,
                CloseLocking, CloseTaking, Served, PoolPc, TakingPc, PumpPc, LockPc, ComingPc
  <2> QED BY <1>1, <2>1, <2>2, MoveKeeps
<1>3. ASSUME NEW r \in Run, TakeEvicted(r)
      PROVE  PlacesOK'
  <2>1. slot' \subseteq slot /\ reserved' = reserved /\ Goto(r, "start") /\ pc[r] \in ComingPc
    BY <1>3 DEF TakeEvicted, At, ComingPc
  <2> QED BY <1>1, <2>1, MoveKeeps
<1>4. ASSUME NEW r \in Run, TakeEvict(r)
      PROVE  PlacesOK'
  BY <1>4, EvictMakesRoom DEF TakeEvict
<1>5. ASSUME NEW r \in Run, Wake(r)
      PROVE  PlacesOK'
  <2>1. CASE lockq = <<>>
    BY <1>5, <2>1, RedeemKeeps DEF Wake
  <2>2. CASE lockq # <<>>
    <3>1. slot' \subseteq slot /\ reserved' = reserved /\ Goto(r, "lock2") /\ "lock2" \notin ComingPc
      BY <1>5, <2>2 DEF Wake, ComingPc
    <3> QED BY <1>1, <3>1, MoveKeeps
  <2> QED BY <2>1, <2>2
<1>6. ASSUME NEW r \in Run, Redeem(r)
      PROVE  PlacesOK'
  BY <1>6, RedeemKeeps DEF Redeem
<1>7. ASSUME NEW r \in Run, Abandon(r)
      PROVE  PlacesOK'
  <2>1. slot' = slot /\ Goto(r, "idle") /\ "idle" \notin ComingPc
    BY <1>7 DEF Abandon, ComingPc
  <2>2. CASE r \in granted
    BY <1>7, <2>1, <2>2, RedeemKeeps DEF Abandon
  <2>3. CASE r \notin granted
    <3>1. reserved' = reserved /\ slot' \subseteq slot
      BY <1>7, <2>1, <2>3 DEF Abandon
    <3> QED BY <1>1, <2>1, <3>1, MoveKeeps
  <2> QED BY <2>2, <2>3
<1>8. ASSUME Sweep \/ SweepIn \/ \E t \in Thread : Destroy(t) \/ DestroyIn(t)
      PROVE  PlacesOK'
  <2>1. slot' \subseteq slot /\ reserved' = reserved
    BY <1>8 DEF Sweep, SweepIn, Destroy, DestroyIn
  <2>2. \E a \in Actor, p \in {"sweep", "delete", "pump"} : Goto(a, p)
    BY <1>1, <1>8 DEF Sweep, SweepIn, Destroy, DestroyIn
  <2>3. \A p \in {"sweep", "delete", "pump"} : p \notin ComingPc
    BY DEF ComingPc
  <2> QED BY <2>1, <2>2, <2>3, MoveKeeps
<1>9. ASSUME NEW a \in Actor, PumpEvict(a)
      PROVE  PlacesOK'
  BY <1>9, EvictMakesRoom DEF PumpEvict
<1>10. ASSUME NEW a \in Actor, PumpDone(a)
       PROVE  PlacesOK'
  <2>1. slot' \subseteq slot /\ reserved' = reserved /\ Goto(a, "idle") /\ "idle" \notin ComingPc
    BY <1>10 DEF PumpDone, PumpEnds, ComingPc
  <2> QED BY <2>1, MoveKeeps
<1>11. ASSUME UNCHANGED vars \/ (\E r \in Run : Timeout(r) \/ CloseWaiting(r)) \/ (\E t \in Thread : Die(t))
       PROVE  PlacesOK'
  <2>1. slot' \subseteq slot /\ reserved' = reserved /\ pc' = pc
    BY <1>11 DEF vars, Timeout, CloseWaiting, Die
  <2> QED BY <2>1, KeepPlaces
<1> QED BY <1>2, <1>3, <1>4, <1>5, <1>6, <1>7, <1>8, <1>9, <1>10, <1>11, RoomTaken, StartFills, PumpFills,
          PoolAssumption
        DEF Next, AcquireStep, PumpStep, Disconnect

--------------------------------------------------------------------------------
LEMMA PoolInvInit == Init => PoolInv
<1> SUFFICES ASSUME Init PROVE PoolInv
  OBVIOUS
<1>1. PoolTypeOK
  BY PoolAssumption DEF Init, PoolTypeOK, PoolPc
<1>2. \A a \in Actor : pc[a] = "idle"
  BY DEF Init
<1>3. LockInv /\ PromiseInv
  BY <1>2 DEF LockInv, PromiseInv, At, TakingPc, PumpPc, Actor
<1>4. FiniteInv /\ Cardinality(slot) = 0 /\ Cardinality(granted) = 0
  BY FS_EmptySet DEF Init, FiniteInv
<1>5. Coming = 0
  BY <1>2 DEF Coming, ComingPc
<1>6. GrantsAreBacked /\ Capacity
  BY <1>4, <1>5, PoolAssumption DEF Init, GrantsAreBacked, Capacity
<1> QED BY <1>1, <1>3, <1>4, <1>6 DEF PoolInv

LEMMA PoolInvNext == PoolInv /\ [Next]_vars => PoolInv'
<1> SUFFICES ASSUME PoolInv, [Next]_vars PROVE PoolInv'
  OBVIOUS
<1>1. PoolTypeOK' /\ LockInv' /\ PromiseOK' /\ PlacesOK'
  BY TypeStep, LockStep, PromiseStep, PlacesStep
<1> QED BY <1>1 DEF PoolInv, PromiseOK, PlacesOK, FiniteInv

LEMMA PoolInductive == Spec => []PoolInv
<1>1. Init => PoolInv
  BY PoolInvInit
<1>2. PoolInv /\ [Next]_vars => PoolInv'
  BY PoolInvNext
<1> QED BY <1>1, <1>2, PTL DEF Spec

\* The pool's state keeps its types: reserved never goes below zero, although two places
\* (_abandon and acquire's second critical section) decrease it without looking.
THEOREM PoolTypeCorrect == Spec => []PoolTypeOK
<1>1. PoolInv => PoolTypeOK
  BY DEF PoolInv
<1> QED BY <1>1, PoolInductive, PTL

\* Registered containers, promised places and the one being filled never exceed
\* max_container, for any numbers of requests, conversations and places and under every
\* timeout, disconnection and deletion.
THEOREM PoolCapacity == Spec => []Capacity
<1>1. PoolInv => Capacity
  BY DEF PoolInv
<1> QED BY <1>1, PoolInductive, PTL

\* No promised place is handed back twice, so a waiter that _pump resolved can rely on it.
THEOREM PoolGrants == Spec => []GrantsAreBacked
<1>1. PoolInv => GrantsAreBacked
  BY DEF PoolInv
<1> QED BY <1>1, PoolInductive, PTL

--------------------------------------------------------------------------------
(* The conversation's lock.  A request that waited does not look at _slot again, so it    *)
(* must have the conversation to itself from the first look to the start.                 *)

\* Inside acquire, not told to stop.
Acquiring(r) ==
    \/ pc[r] \in {"lock1", "probe", "rebuild", "evict", "start", "lock2"}
    \/ pc[r] = "waiting" /\ r \notin cancelled

\* Past the look that found no container.
Bare(r) ==
    \/ pc[r] \in {"rebuild", "evict", "start", "lock2"}
    \/ pc[r] = "waiting" /\ r \notin cancelled

LeaseInv ==
    /\ \A r \in Run : Acquiring(r) => r \in tlock
    /\ \A r, q \in Run : r \in tlock /\ q \in tlock /\ ThreadOf[r] = ThreadOf[q] => r = q
    /\ \A r \in Run : Bare(r) => ThreadOf[r] \notin slot

\* A step of one actor that registers nothing: the actor stays inside acquire only with
\* its lock, and gets past the look only where there is no container.
LEMMA LeaseMove ==
  ASSUME PoolTypeOK, LeaseInv, NEW a \in Actor, NEW p, Goto(a, p),
         slot' \subseteq slot, tlock' \subseteq tlock, tlock \ {a} \subseteq tlock',
         cancelled \ {a} \subseteq cancelled',
         a \in Run /\ Acquiring(a)' => a \in tlock',
         a \in Run /\ Bare(a)' => ThreadOf[a] \notin slot'
  PROVE  LeaseInv'
<1>1. \A b \in Actor : b # a => pc'[b] = pc[b]
  BY DEF Goto, PoolTypeOK
<1>2. Run \subseteq Actor
  BY DEF Actor
<1>3. ASSUME NEW r \in Run, r # a
      PROVE  /\ Acquiring(r)' => Acquiring(r)
             /\ Bare(r)' => Bare(r)
             /\ r \in tlock => r \in tlock'
  BY <1>1, <1>2, <1>3 DEF Acquiring, Bare
<1>4. \A r \in Run : Acquiring(r)' => r \in tlock'
  BY <1>3 DEF LeaseInv
<1>5. \A r \in Run : Bare(r)' => ThreadOf[r] \notin slot'
  BY <1>3 DEF LeaseInv
<1>6. QED
  BY <1>4, <1>5 DEF LeaseInv

\* Nobody has a conversation while another request, or its deletion, is inside its lock.
LEMMA LeaseOpen ==
  ASSUME PoolTypeOK, LeaseInv, NEW r \in Run, Open(r)
  PROVE  LeaseInv'
<1>1. /\ r \in Actor /\ Run \subseteq Actor
      /\ pc' = [pc EXCEPT ![r] = "lock1"] /\ tlock' = tlock \cup {r}
      /\ slot' = slot /\ cancelled' = cancelled /\ Alone(r, ThreadOf[r])
  BY DEF Open, Goto, Actor, bookVars, waitVars
<1>2. pc'[r] = "lock1" /\ \A b \in Actor : b # r => pc'[b] = pc[b]
  BY <1>1 DEF PoolTypeOK
<1>3. \A q \in Run : q \in tlock /\ q # r => ThreadOf[q] # ThreadOf[r]
  BY <1>1 DEF Alone
<1>4. \A q \in Run : Acquiring(q)' => q = r \/ Acquiring(q)
  BY <1>1, <1>2 DEF Acquiring
<1>5. \A q \in Run : Bare(q)' => Bare(q)
  BY <1>1, <1>2 DEF Bare
<1>6. \A q \in Run : Acquiring(q)' => q \in tlock'
  BY <1>1, <1>4 DEF LeaseInv
<1>7. \A q, s \in Run : q \in tlock' /\ s \in tlock' /\ ThreadOf[q] = ThreadOf[s] => q = s
  BY <1>1, <1>3 DEF LeaseInv
<1>8. QED
  BY <1>1, <1>5, <1>6, <1>7 DEF LeaseInv

\* A container comes up for the only request of its conversation.
LEMMA LeaseStart ==
  ASSUME PoolTypeOK, LeaseInv, NEW r \in Run, StartOk(r)
  PROVE  LeaseInv'
<1>1. /\ r \in Actor /\ Run \subseteq Actor /\ pc[r] = "start"
      /\ pc' = [pc EXCEPT ![r] = "using"] /\ tlock' = tlock \ {r}
      /\ slot' = slot \cup {ThreadOf[r]} /\ cancelled' = cancelled
  BY DEF StartOk, Served, At, Goto, Actor, waitVars
<1>2. pc'[r] = "using" /\ \A b \in Actor : b # r => pc'[b] = pc[b]
  BY <1>1 DEF PoolTypeOK
<1>3. r \in tlock
  BY <1>1 DEF LeaseInv, Acquiring
<1>4. ASSUME NEW q \in Run
      PROVE  (Acquiring(q)' => q # r /\ Acquiring(q)) /\ (Bare(q)' => q # r /\ Bare(q))
  BY <1>1, <1>2 DEF Acquiring, Bare
<1>5. \A q \in Run : Bare(q) => Acquiring(q)
  BY DEF Bare, Acquiring
<1>6. ASSUME NEW q \in Run, Bare(q)'
      PROVE  ThreadOf[q] \notin slot'
  <2>1. q # r /\ q \in tlock /\ ThreadOf[q] \notin slot
    BY <1>4, <1>5, <1>6 DEF LeaseInv
  <2>2. ThreadOf[q] # ThreadOf[r]
    BY <1>3, <2>1 DEF LeaseInv
  <2>3. QED
    BY <1>1, <2>1, <2>2
<1>7. \A q \in Run : Acquiring(q)' => q \in tlock'
  BY <1>1, <1>4 DEF LeaseInv
<1>8. QED
  BY <1>1, <1>6, <1>7 DEF LeaseInv

\* Every step keeps the conversations apart.
LEMMA LeaseStep == ASSUME PoolInv, LeaseInv, [Next]_vars
                   PROVE  LeaseInv'
<1> USE DEF bookVars, waitVars, At, Goto
<1>1. PoolTypeOK /\ Run \subseteq Actor /\ Thread \subseteq Actor /\ Sweeper \in Actor /\ pc \in [Actor -> PoolPc]
  BY DEF Actor, PoolInv, PoolTypeOK
<1>2. \A a \in Actor : \A p : pc' = [pc EXCEPT ![a] = p] => pc'[a] = p
  BY <1>1
<1>3. ASSUME NEW r \in Run, Probe(r) \/ DropDead(r) \/ TakeRoom(r) \/ TakeEvict(r) \/ TakeEvicted(r)
                            \/ Enqueue(r) \/ Wake(r) \/ Redeem(r)
      PROVE  LeaseInv'
  <2>1. PICK p \in {"probe", "rebuild", "start", "evict", "waiting", "lock2"} : pc' = [pc EXCEPT ![r] = p]
    BY <1>3 DEF Probe, DropDead, TakeRoom, TakeEvict, TakeEvicted, Enqueue, Wake, Redeem
  <2>2. tlock' = tlock /\ cancelled' = cancelled /\ slot' \subseteq slot
    BY <1>3 DEF Probe, DropDead, TakeRoom, TakeEvict, TakeEvicted, Enqueue, Wake, Redeem, evict_idle
  <2>3. Acquiring(r) /\ r \in tlock
    BY <1>3 DEF Probe, DropDead, TakeRoom, TakeEvict, TakeEvicted, Enqueue, Wake, Redeem, Seeking,
                Acquiring, LeaseInv
  <2>4. CASE p = "probe"
    <3>1. ~ Bare(r)'
      BY <1>1, <1>2, <2>1, <2>4 DEF Bare
    <3>2. QED
      BY <1>1, <2>1, <2>2, <2>3, <3>1, LeaseMove
  <2>5. CASE p # "probe"
    <3>1. ThreadOf[r] \notin slot'
      BY <1>1, <1>2, <1>3, <2>1, <2>2, <2>5
         DEF Probe, DropDead, TakeRoom, TakeEvict, TakeEvicted, Enqueue, Wake, Redeem, Seeking,
             Bare, LeaseInv
    <3>2. QED
      BY <1>1, <2>1, <2>2, <2>3, <3>1, LeaseMove
  <2>6. QED
    BY <2>4, <2>5
<1>4. ASSUME NEW r \in Run, Reuse(r) \/ StartFails(r) \/ Abandon(r) \/ Release(r) \/ Forget(r)
                            \/ ReleaseIn(r) \/ CloseLocking(r) \/ CloseTaking(r)
      PROVE  LeaseInv'
  <2>1. PICK p \in {"using", "idle", "release", "pump"} : pc' = [pc EXCEPT ![r] = p]
    BY <1>4 DEF Reuse, Served, StartFails, Abandon, Release, Forget, ReleaseIn, CloseLocking, CloseTaking
  <2>2. tlock' \in {tlock, tlock \ {r}} /\ cancelled \ {r} \subseteq cancelled' /\ slot' = slot
    BY <1>4 DEF Reuse, Served, StartFails, Abandon, Release, Forget, ReleaseIn, CloseLocking, CloseTaking
  <2>3. ~ Acquiring(r)' /\ ~ Bare(r)'
    BY <1>1, <1>2, <2>1 DEF Acquiring, Bare
  <2>4. QED
    BY <1>1, <2>1, <2>2, <2>3, LeaseMove
<1>5. ASSUME NEW r \in Run, Timeout(r) \/ CloseWaiting(r)
      PROVE  LeaseInv'
  <2>1. /\ pc[r] = "waiting" /\ pc' = pc /\ slot' = slot /\ tlock' \in {tlock, tlock \ {r}}
        /\ cancelled' = cancelled \cup {r}
    BY <1>5 DEF Timeout, CloseWaiting
  <2>2. ~ Acquiring(r)' /\ ~ Bare(r)' /\ pc' = [pc EXCEPT ![r] = "waiting"]
    BY <1>1, <2>1 DEF Acquiring, Bare
  <2>3. QED
    BY <1>1, <2>1, <2>2, LeaseMove
<1>6. ASSUME NEW t \in Thread, Destroy(t)
      PROVE  LeaseInv'
  <2>1. t \notin Run /\ slot' = slot /\ cancelled' = cancelled /\ tlock' = tlock \cup {t}
        /\ \A r \in Run : pc'[r] = pc[r]
    BY <1>1, <1>6, PoolAssumption DEF Destroy
  <2>2. QED
    BY <2>1 DEF LeaseInv, Acquiring, Bare
<1>7. ASSUME NEW a \in Actor, (a = Sweeper /\ (Sweep \/ SweepIn)) \/ (a \in Thread /\ DestroyIn(a)) \/ PumpStep(a)
      PROVE  LeaseInv'
  <2>1. PICK p \in {"idle", "gone", "sweep", "pump", "evicting"} : pc' = [pc EXCEPT ![a] = p]
    BY <1>7 DEF Sweep, SweepIn, DestroyIn, PumpStep, Pump, PumpEvict, PumpEvicted, PumpDone, Admit, PumpEnds
  <2>2. tlock' \in {tlock, tlock \ {a}} /\ cancelled' = cancelled /\ slot' \subseteq slot
    BY <1>7 DEF Sweep, SweepIn, DestroyIn, PumpStep, Pump, PumpEvict, PumpEvicted, PumpDone, Admit, PumpEnds,
                evict_idle
  <2>3. a \in Run => ~ Acquiring(a)' /\ ~ Bare(a)'
    BY <1>2, <2>1 DEF Acquiring, Bare
  <2>4. QED
    BY <1>1, <2>1, <2>2, <2>3, LeaseMove
<1>8. ASSUME UNCHANGED vars \/ \E t \in Thread : Die(t)
      PROVE  LeaseInv'
  BY <1>8 DEF vars, Die, LeaseInv, Acquiring, Bare
<1> QED BY <1>1, <1>3, <1>4, <1>5, <1>6, <1>7, <1>8, LeaseOpen, LeaseStart, PoolAssumption
        DEF Next, AcquireStep, Disconnect

\* Nothing is started over a container that is registered, in either critical section of
\* acquire and whatever streams closed in between.
THEOREM PoolNeverOverwrites == Spec => []NoOverwrite
<1>1. Init => LeaseInv
  BY DEF Init, LeaseInv, Acquiring, Bare, Actor
<1>2. PoolInv /\ LeaseInv /\ [Next]_vars => LeaseInv'
  BY LeaseStep
<1>3. LeaseInv => NoOverwrite
  BY DEF LeaseInv, Bare, NoOverwrite, At
<1> QED BY <1>1, <1>2, <1>3, PoolInductive, PTL DEF Spec

\* Nobody loses a container he uses for somebody else's sake (_evict_idle, sweep).
THEOREM PoolKeepsBusy == Spec => BusyKept
<1> DEFINE Kept == \A t \in slot \ slot' :
                      Busy(t) => t \in dead \/ At(t, "delete") \/ At(Sweeper, "sweep")
<1>1. ASSUME [Next]_vars, NEW t \in slot \ slot', Busy(t)
      PROVE  t \in dead \/ At(t, "delete") \/ At(Sweeper, "sweep")
  <2>1. \A v \in Thread : evict_idle(v) => FALSE
    BY <1>1 DEF evict_idle, idle, Busy
  <2>2. CASE \E r \in Run : DropDead(r)
    BY <1>1, <2>2 DEF DropDead
  <2>3. CASE SweepIn \/ \E u \in Thread : DestroyIn(u)
    BY <1>1, <2>3 DEF SweepIn, DestroyIn
  <2>4. CASE slot \subseteq slot'
    BY <1>1, <2>4
  <2>5. \/ \E r \in Run : DropDead(r)
        \/ SweepIn \/ \E u \in Thread : DestroyIn(u)
        \/ slot \subseteq slot'
    BY <1>1, <2>1, PoolAssumption
       DEF Next, vars, bookVars, waitVars, AcquireStep, PumpStep, Disconnect, Open, Probe, Reuse, TakeRoom,
           TakeEvict, TakeEvicted, Enqueue, StartOk, StartFails, Wake, Redeem, Abandon, ReleaseIn,
           Release, Forget, Timeout, CloseWaiting, CloseLocking, CloseTaking, Destroy, Die, Sweep,
           Pump, PumpEvict, PumpEvicted, PumpDone
  <2>6. QED
    BY <2>2, <2>3, <2>4, <2>5
<1>2. [Next]_vars => [Kept]_vars
  BY <1>1
<1> QED BY <1>2, PTL DEF Spec, BusyKept

================================================================================
