------------------------------ MODULE FeedProofs ------------------------------
(***************************************************************************)
(* What a page sees of a run, for every number of pages, writers, events   *)
(* and faults and every length of the Stream: the stream and the replay    *)
(* send each event once and in order, the collapsed replay is the same     *)
(* text, and what a page goes past without seeing is one of four cases.    *)
(*                                                                         *)
(* The model lists ids with a recursive function and collapses with a      *)
(* fold, so what they compute is proved by induction over the natural      *)
(* numbers: on a set P of numbers (Induct, from the least one outside P).  *)
(* Chains and FoldExists give the functions that a recursion defines.      *)
(* The invariant then says of each reader that what it has read has no     *)
(* gap but the known ones, at every place its request can be.              *)
(***************************************************************************)
EXTENDS EventFeed, SequenceTheorems, WellFoundedInduction, TLAPS

--------------------------------------------------------------------------------
(* Induction and recursion over the natural numbers, for sets and functions. *)

LEMMA Induct ==
    ASSUME NEW P, P \subseteq Nat, 0 \in P, \A k \in P : k + 1 \in P
    PROVE  P = Nat
<1>. DEFINE Q == Nat \ P
<1>. SUFFICES ASSUME Q # {} PROVE FALSE
  OBVIOUS
<1>0. Q \subseteq Nat
  OBVIOUS
<1>. HIDE DEF Q
<1>1. PICK m \in Q : \A j \in Q : <<j, m>> \notin OpToRel(<, Nat)
  BY <1>0, NatLessThanWellFounded, WFMin, Zenon
<1>2. \A j \in Q : ~(j < m)
  BY <1>0, <1>1, Zenon DEF OpToRel
<1>3. m \in Nat /\ m \notin P
  BY <1>0, <1>1 DEF Q
<1>4. m - 1 \in Nat /\ m - 1 < m /\ (m - 1) + 1 = m
  BY <1>3
<1>5. m - 1 \in P
  BY <1>2, <1>4 DEF Q
<1>. QED BY <1>3, <1>4, <1>5

\* A function on 0..k that starts with a and goes on by g.
Chain(f, k, A, a, g) ==
    f \in [0..k -> A] /\ f[0] = a /\ \A i \in 1..k : f[i] = g[<<i, f[i - 1]>>]

LEMMA Chains ==
    ASSUME NEW A, NEW a \in A, NEW N \in Nat, NEW g \in [(1..N) \X A -> A]
    PROVE  \E f : Chain(f, N, A, a, g)
<1>. DEFINE P == {k \in Nat : k <= N => \E f : Chain(f, k, A, a, g)}
<1>1. 0 \in P
  <2>1. Chain([i \in 0..0 |-> a], 0, A, a, g)
    BY DEF Chain
  <2>. QED BY <2>1
<1>2. ASSUME NEW k \in P PROVE k + 1 \in P
  <2>. SUFFICES ASSUME k + 1 <= N PROVE \E f : Chain(f, k + 1, A, a, g)
    OBVIOUS
  <2>1. PICK f : Chain(f, k, A, a, g)
    OBVIOUS
  <2>. DEFINE b == g[<<k + 1, f[k]>>]
              h == [i \in 0..(k + 1) |-> IF i = k + 1 THEN b ELSE f[i]]
  <2>2. f[k] \in A /\ k + 1 \in 1..N /\ b \in A
    BY <2>1 DEF Chain
  <2>. HIDE DEF b
  <2>3. h \in [0..(k + 1) -> A] /\ h[0] = a /\ \A i \in 0..k : h[i] = f[i]
    BY <2>1, <2>2 DEF Chain
  <2>4. h[k + 1] = g[<<k + 1, h[k]>>]
    <3>1. k + 1 \in 0..(k + 1) /\ k \in 0..k
      OBVIOUS
    <3>2. h[k + 1] = b /\ h[k] = f[k]
      BY <2>3, <3>1
    <3>. QED BY <3>2 DEF b
  <2>5. \A i \in 1..k : h[i] = g[<<i, h[i - 1]>>]
    BY <2>1, <2>3 DEF Chain
  <2>. HIDE DEF h
  <2>6. \A i \in 1..(k + 1) : h[i] = g[<<i, h[i - 1]>>]
    <3>. TAKE i \in 1..(k + 1)
    <3>1. CASE i \in 1..k
      BY <2>5, <3>1
    <3>2. CASE i = k + 1
      <4>1. i - 1 = k
        BY <3>2
      <4>. QED BY <2>4, <3>2, <4>1
    <3>. QED BY <3>1, <3>2
  <2>. QED BY <2>3, <2>6 DEF Chain
<1>3. P = Nat
  <2>1. P \subseteq Nat
    OBVIOUS
  <2>. HIDE DEF P
  <2>. QED BY <1>1, <1>2, <2>1, Induct
<1>4. N \in P
  BY <1>3
<1>. QED BY <1>4

--------------------------------------------------------------------------------
(* The ids of a set in order. *)

Listing(F, S, k) == [i \in 0..k |->
    IF i = 0 THEN <<>> ELSE IF i \in S THEN Append(F[i - 1], i) ELSE F[i - 1]]

\* A strictly growing sequence of numbers above c.
Ascends(q, c) == \A j \in DOMAIN q : q[j] > (IF j = 1 THEN c ELSE q[j - 1])

LEMMA InOrderListed ==
    ASSUME NEW S, n \in Nat
    PROVE  InOrder(S) = (CHOOSE F : F = Listing(F, S, n))[n]
BY DEF InOrder, Listing

\* InOrder(S) has the ids of S, each once, in order.
LEMMA InOrderSorted ==
    ASSUME NEW S, n \in Nat
    PROVE  /\ InOrder(S) \in Seq(1..n)
           /\ ToSet(InOrder(S)) = S \cap (1..n)
           /\ \A i, j \in DOMAIN InOrder(S) : i < j => InOrder(S)[i] < InOrder(S)[j]
<1>. DEFINE A == Seq(1..n)
            g == [x \in (1..n) \X A |-> IF x[1] \in S THEN Append(x[2], x[1]) ELSE x[2]]
<1>1. <<>> \in A /\ g \in [(1..n) \X A -> A]
  <2>1. \A q \in A, i \in 1..n : Append(q, i) \in A
    OBVIOUS
  <2>2. <<>> \in A
    OBVIOUS
  <2>. HIDE DEF A
  <2>3. \A x \in (1..n) \X A : x[1] \in 1..n /\ x[2] \in A
    OBVIOUS
  <2>. QED BY <2>1, <2>2, <2>3
<1>2. \A i \in 1..n, q \in A : g[<<i, q>>] = IF i \in S THEN Append(q, i) ELSE q
  OBVIOUS
<1>. HIDE DEF A, g
<1>3. PICK f : Chain(f, n, A, <<>>, g)
  BY <1>1, Chains
<1>4. f = Listing(f, S, n)
  <2>1. f = [i \in 0..n |-> f[i]]
    BY <1>3 DEF Chain
  <2>2. ASSUME NEW i \in 0..n
        PROVE  f[i] = IF i = 0 THEN <<>> ELSE IF i \in S THEN Append(f[i - 1], i) ELSE f[i - 1]
    <3>1. CASE i = 0
      BY <1>3, <3>1 DEF Chain
    <3>2. CASE i # 0
      <4>1. i \in 1..n /\ i - 1 \in 0..n
        BY <3>2
      <4>2. f[i - 1] \in A /\ f[i] = g[<<i, f[i - 1]>>]
        BY <1>3, <4>1 DEF Chain
      <4>. QED BY <1>2, <3>2, <4>1, <4>2
    <3>. QED BY <3>1, <3>2
  <2>3. Listing(f, S, n) = [i \in 0..n |-> f[i]]
    BY <2>2, Zenon DEF Listing
  <2>. QED BY <2>1, <2>3
<1>. DEFINE F == CHOOSE F : F = Listing(F, S, n)
<1>5. F = Listing(F, S, n)
  BY <1>4
<1>. HIDE DEF F
<1>6. /\ F[0] = <<>>
      /\ \A i \in 1..n : F[i] = IF i \in S THEN Append(F[i - 1], i) ELSE F[i - 1]
  <2>1. \A i \in 0..n : F[i] = Listing(F, S, n)[i]
    BY <1>5
  <2>2. \A i \in 0..n : F[i] = IF i = 0 THEN <<>> ELSE IF i \in S THEN Append(F[i - 1], i) ELSE F[i - 1]
    BY <2>1, Zenon DEF Listing
  <2>. QED BY <2>2
<1>. DEFINE Good(k) ==
       /\ F[k] \in Seq(1..k)
       /\ \A x \in 1..k : x \in S <=> \E j \in DOMAIN F[k] : F[k][j] = x
       /\ \A j \in DOMAIN F[k] : F[k][j] \in S
       /\ \A i, j \in DOMAIN F[k] : i < j => F[k][i] < F[k][j]
            P == {k \in Nat : k <= n => Good(k)}
<1>7. 0 \in P
  <2>1. F[0] \in Seq(1..0) /\ DOMAIN F[0] = {} /\ 1..0 = {}
    BY <1>6
  <2>. QED BY <2>1
<1>8. ASSUME NEW k \in P PROVE k + 1 \in P
  <2>. SUFFICES ASSUME k + 1 <= n PROVE Good(k + 1)
    OBVIOUS
  <2>. DEFINE q == F[k]
              r == F[k + 1]
  <2>1. /\ q \in Seq(1..k)
        /\ \A x \in 1..k : x \in S <=> \E j \in DOMAIN q : q[j] = x
        /\ \A j \in DOMAIN q : q[j] \in S
        /\ \A i, j \in DOMAIN q : i < j => q[i] < q[j]
    OBVIOUS
  <2>2. r = IF k + 1 \in S THEN Append(q, k + 1) ELSE q
    BY <1>6
  <2>3. Good(k + 1) <=>
          /\ r \in Seq(1..(k + 1))
          /\ \A x \in 1..(k + 1) : x \in S <=> \E j \in DOMAIN r : r[j] = x
          /\ \A j \in DOMAIN r : r[j] \in S
          /\ \A i, j \in DOMAIN r : i < j => r[i] < r[j]
    OBVIOUS
  <2>. HIDE DEF q, r, Good
  <2>4. q \in Seq(1..(k + 1)) /\ \A j \in DOMAIN q : q[j] \in 1..k /\ q[j] < k + 1 /\ q[j] # k + 1
    BY <2>1
  <2>5. CASE k + 1 \in S
    <3>1. /\ r = Append(q, k + 1) /\ r \in Seq(1..(k + 1)) /\ Len(r) = Len(q) + 1 /\ Len(q) \in Nat
          /\ r[Len(q) + 1] = k + 1 /\ DOMAIN r = 1..(Len(q) + 1) /\ DOMAIN q = 1..Len(q)
          /\ \A j \in DOMAIN q : r[j] = q[j]
      BY <2>2, <2>4, <2>5
    <3>2. \A x \in 1..(k + 1) : x \in S <=> \E j \in DOMAIN r : r[j] = x
      <4>. TAKE x \in 1..(k + 1)
      <4>1. CASE x = k + 1
        <5>1. Len(q) + 1 \in DOMAIN r
          BY <3>1
        <5>. QED BY <2>5, <3>1, <4>1, <5>1
      <4>2. CASE x # k + 1
        <5>1. x \in 1..k
          BY <4>2
        <5>2. (\E j \in DOMAIN r : r[j] = x) <=> \E j \in DOMAIN q : q[j] = x
          BY <3>1, <4>2
        <5>. QED BY <2>1, <5>1, <5>2
      <4>. QED BY <4>1, <4>2
    <3>3. \A j \in DOMAIN r : r[j] \in S
      BY <2>1, <2>5, <3>1
    <3>4. \A i, j \in DOMAIN r : i < j => r[i] < r[j]
      BY <2>1, <2>4, <3>1
    <3>. QED BY <2>3, <3>1, <3>2, <3>3, <3>4
  <2>6. CASE k + 1 \notin S
    <3>1. r = q
      BY <2>2, <2>6
    <3>2. \A x \in 1..(k + 1) : x \in S <=> \E j \in DOMAIN r : r[j] = x
      <4>. TAKE x \in 1..(k + 1)
      <4>1. CASE x = k + 1
        BY <2>4, <2>6, <3>1, <4>1
      <4>2. CASE x # k + 1
        <5>1. x \in 1..k
          BY <4>2
        <5>. QED BY <2>1, <3>1, <5>1
      <4>. QED BY <4>1, <4>2
    <3>. QED BY <2>1, <2>3, <2>4, <3>1, <3>2
  <2>. QED BY <2>5, <2>6
<1>9. Good(n)
  <2>1. P \subseteq Nat
    OBVIOUS
  <2>2. P = Nat
    <3>. HIDE DEF P
    <3>. QED BY <1>7, <1>8, <2>1, Induct
  <2>. QED BY <2>2
<1>10. InOrder(S) = F[n]
  BY InOrderListed DEF F
<1>. QED BY <1>9, <1>10 DEF ToSet

--------------------------------------------------------------------------------
(* Texts put together again. *)

\* f[i] are the first i sequences of q in one.
Flattens(f, q, A) ==
    f \in [0..Len(q) -> Seq(A)] /\ f[0] = <<>> /\ \A i \in 1..Len(q) : f[i] = f[i - 1] \o q[i]

Flattening(F, q) == [i \in 1..Len(q) |-> IF i = 1 THEN q[i] ELSE F[i - 1] \o q[i]]

LEMMA FlattenListed ==
    ASSUME NEW q, Len(q) # 0
    PROVE  FlattenSeq(q) = (CHOOSE F : F = Flattening(F, q))[Len(q)]
BY DEF FlattenSeq, Flattening

LEMMA FlattenExists ==
    ASSUME NEW A, NEW q \in Seq(Seq(A))
    PROVE  \E f : Flattens(f, q, A)
<1>. DEFINE B == Seq(A)
            g == [x \in (1..Len(q)) \X B |-> x[2] \o q[x[1]]]
<1>1. <<>> \in B /\ Len(q) \in Nat /\ \A b, c \in B : b \o c \in B
  OBVIOUS
<1>2. \A i \in 1..Len(q) : q[i] \in B
  OBVIOUS
<1>. HIDE DEF B
<1>3. g \in [(1..Len(q)) \X B -> B]
  BY <1>1, <1>2
<1>4. \A i \in 1..Len(q), b \in B : g[<<i, b>>] = b \o q[i]
  OBVIOUS
<1>. HIDE DEF g
<1>5. PICK f : Chain(f, Len(q), B, <<>>, g)
  BY <1>1, <1>3, Chains
<1>6. \A i \in 1..Len(q) : f[i - 1] \in B
  <2>. TAKE i \in 1..Len(q)
  <2>1. i - 1 \in 0..Len(q)
    BY <1>1
  <2>. QED BY <1>5, <2>1 DEF Chain
<1>. QED BY <1>4, <1>5, <1>6 DEF Chain, Flattens, B

LEMMA EmptyBefore ==
    ASSUME NEW A, NEW x \in Seq(A)
    PROVE  <<>> \o x = x
OBVIOUS

LEMMA FlattenIs ==
    ASSUME NEW A, NEW q \in Seq(Seq(A)), NEW f, Flattens(f, q, A)
    PROVE  FlattenSeq(q) = f[Len(q)]
<1>0. Len(q) \in Nat /\ \A i \in 1..Len(q) : q[i] \in Seq(A)
  OBVIOUS
<1>1. CASE Len(q) = 0
  <2>1. q = <<>>
    BY <1>1
  <2>2. FlattenSeq(q) = q
    BY <1>1 DEF FlattenSeq
  <2>. QED BY <1>1, <2>1, <2>2 DEF Flattens
<1>2. CASE Len(q) # 0
  <2>. DEFINE h == [i \in 1..Len(q) |-> f[i]]
              F == CHOOSE F : F = Flattening(F, q)
  <2>1. ASSUME NEW i \in 1..Len(q)
        PROVE  h[i] = IF i = 1 THEN q[i] ELSE h[i - 1] \o q[i]
    <3>1. CASE i = 1
      <4>0. 1 \in 1..Len(q) /\ 1 - 1 = 0
        BY <1>0, <1>2
      <4>1. f[1] = f[1 - 1] \o q[1] /\ f[0] = <<>> /\ q[1] \in Seq(A)
        BY <1>0, <4>0, Zenon DEF Flattens
      <4>2. f[1] = <<>> \o q[1]
        BY <4>0, <4>1
      <4>3. f[1] = q[1]
        BY <4>1, <4>2, EmptyBefore
      <4>. QED BY <3>1, <4>3
    <3>2. CASE i # 1
      <4>1. i - 1 \in 1..Len(q)
        BY <1>0, <3>2
      <4>. QED BY <3>2, <4>1 DEF Flattens
    <3>. QED BY <3>1, <3>2
  <2>2. h = Flattening(h, q)
    <3>1. h = [i \in 1..Len(q) |-> h[i]]
      OBVIOUS
    <3>. HIDE DEF h
    <3>2. Flattening(h, q) = [i \in 1..Len(q) |-> h[i]]
      BY <2>1, Zenon DEF Flattening
    <3>. QED BY <3>1, <3>2
  <2>3. F = Flattening(F, q)
    BY <2>2
  <2>. HIDE DEF F, h
  <2>4. \A i \in 1..Len(q) : F[i] = IF i = 1 THEN q[i] ELSE F[i - 1] \o q[i]
    <3>1. \A i \in 1..Len(q) : F[i] = Flattening(F, q)[i]
      BY <2>3
    <3>. QED BY <3>1, Zenon DEF Flattening
  <2>. DEFINE P == {k \in Nat : k + 1 <= Len(q) => F[k + 1] = h[k + 1]}
  <2>5. 0 \in P
    <3>1. 1 \in 1..Len(q)
      BY <1>0, <1>2
    <3>. QED BY <2>1, <2>4, <3>1
  <2>6. ASSUME NEW k \in P PROVE k + 1 \in P
    <3>. SUFFICES ASSUME (k + 1) + 1 <= Len(q) PROVE F[(k + 1) + 1] = h[(k + 1) + 1]
      OBVIOUS
    <3>1. PICK i \in 1..Len(q) : i = (k + 1) + 1 /\ i # 1 /\ i - 1 = k + 1
      BY <1>0
    <3>2. F[i - 1] = h[i - 1]
      BY <1>0, <3>1
    <3>. QED BY <2>1, <2>4, <3>1, <3>2
  <2>7. P = Nat
    <3>1. P \subseteq Nat
      OBVIOUS
    <3>. HIDE DEF P
    <3>. QED BY <2>5, <2>6, <3>1, Induct
  <2>8. PICK k \in Nat : Len(q) = k + 1
    <3>1. Len(q) - 1 \in Nat /\ Len(q) = (Len(q) - 1) + 1
      BY <1>0, <1>2
    <3>. QED BY <3>1
  <2>9. F[Len(q)] = h[Len(q)]
    <3>1. k \in P
      BY <2>7
    <3>. QED BY <2>8, <3>1
  <2>10. FlattenSeq(q) = F[Len(q)]
    BY <1>2, FlattenListed DEF F
  <2>11. h[Len(q)] = f[Len(q)]
    BY <1>0, <1>2 DEF h
  <2>. QED BY <2>9, <2>10, <2>11
<1>. QED BY <1>1, <1>2

LEMMA FlattenAppend ==
    ASSUME NEW A, NEW q \in Seq(Seq(A)), NEW x \in Seq(A)
    PROVE  /\ FlattenSeq(q) \in Seq(A)
           /\ FlattenSeq(Append(q, x)) = FlattenSeq(q) \o x
<1>. PICK k \in Nat : k = Len(q)
  OBVIOUS
<1>. PICK r : r = Append(q, x)
  OBVIOUS
<1>1. r \in Seq(Seq(A)) /\ Len(r) = k + 1 /\ r[k + 1] = x /\ \A i \in 1..k : r[i] = q[i]
  OBVIOUS
<1>2. PICK f : Flattens(f, q, A)
  BY FlattenExists
<1>. DEFINE h == [i \in 0..(k + 1) |-> IF i = k + 1 THEN f[k] \o x ELSE f[i]]
<1>3. k \in 0..k /\ f[k] \in Seq(A) /\ f[k] \o x \in Seq(A)
  BY <1>2 DEF Flattens
<1>4. h \in [0..(k + 1) -> Seq(A)] /\ h[k + 1] = f[k] \o x /\ \A i \in 0..k : h[i] = f[i]
  BY <1>2, <1>3 DEF Flattens
<1>. HIDE DEF h
<1>5. \A i \in 1..(k + 1) : h[i] = h[i - 1] \o r[i]
  <2>. TAKE i \in 1..(k + 1)
  <2>1. CASE i = k + 1
    <3>1. i - 1 = k
      BY <2>1
    <3>. QED BY <1>1, <1>3, <1>4, <2>1, <3>1
  <2>2. CASE i # k + 1
    <3>1. i \in 1..k /\ i \in 0..k /\ i - 1 \in 0..k
      BY <2>2
    <3>. QED BY <1>1, <1>2, <1>4, <3>1 DEF Flattens
  <2>. QED BY <2>1, <2>2
<1>6. Flattens(h, r, A)
  <2>1. h[0] = <<>>
    BY <1>2, <1>4 DEF Flattens
  <2>. QED BY <1>1, <1>4, <1>5, <2>1 DEF Flattens
<1>7. FlattenSeq(r) = h[k + 1] /\ FlattenSeq(q) = f[k]
  BY <1>1, <1>2, <1>6, FlattenIs
<1>. QED BY <1>3, <1>4, <1>7

--------------------------------------------------------------------------------
(* A fold from the left. *)

LEMMA MaxIsOne ==
    ASSUME NEW k \in Nat, NEW S \in SUBSET (1..k), S # {}
    PROVE  Max(S) \in S /\ \A y \in S : Max(S) >= y
<1>. DEFINE U == {m \in Nat : \A y \in S : y <= k - m}
<1>1. \E x \in S : \A y \in S : x >= y
  <2>0. SUFFICES ASSUME \A x \in S : \E y \in S : y > x PROVE FALSE
    <3>1. \A x, y \in S : x >= y \/ y > x
      OBVIOUS
    <3>. QED BY <3>1
  <2>1. 0 \in U
    OBVIOUS
  <2>2. ASSUME NEW m \in U PROVE m + 1 \in U
    <3>1. k - m \notin S
      BY <2>0, <2>2
    <3>. QED BY <3>1
  <2>3. U = Nat
    <3>1. U \subseteq Nat
      OBVIOUS
    <3>. HIDE DEF U
    <3>. QED BY <2>1, <2>2, <3>1, Induct
  <2>4. k \in U
    BY <2>3
  <2>5. \A y \in S : y <= k - k /\ y \in 1..k
    BY <2>4
  <2>6. \A y \in 1..k : ~(y <= k - k)
    OBVIOUS
  <2>7. PICK y : y \in S
    OBVIOUS
  <2>. HIDE DEF U
  <2>. QED BY <2>5, <2>6, <2>7, Zenon
<1>. QED BY <1>1 DEF Max

\* h is the fold of g over every set of places up to k.
Folds(h, k, A, a, g) ==
    /\ h \in [SUBSET (1..k) -> A]
    /\ \A S \in SUBSET (1..k) : h[S] = IF S = {} THEN a ELSE g[<<h[S \ {Max(S)}], Max(S)>>]

LEMMA FoldExists ==
    ASSUME NEW A, NEW a \in A, NEW N \in Nat, NEW g \in [A \X (1..N) -> A]
    PROVE  \E h : Folds(h, N, A, a, g)
<1>. DEFINE P == {k \in Nat : k <= N => \E h : Folds(h, k, A, a, g)}
<1>1. 0 \in P
  <2>. DEFINE h == [S \in SUBSET (1..0) |-> a]
  <2>1. 1..0 = {}
    OBVIOUS
  <2>2. h \in [SUBSET (1..0) -> A] /\ \A S \in SUBSET (1..0) : S = {} /\ h[S] = a
    BY <2>1
  <2>. HIDE DEF h
  <2>3. Folds(h, 0, A, a, g)
    BY <2>2 DEF Folds
  <2>. QED BY <2>3
<1>2. ASSUME NEW k \in P PROVE k + 1 \in P
  <2>. SUFFICES ASSUME k + 1 <= N PROVE \E h : Folds(h, k + 1, A, a, g)
    OBVIOUS
  <2>1. PICK f : Folds(f, k, A, a, g)
    OBVIOUS
  <2>. DEFINE h == [S \in SUBSET (1..(k + 1)) |->
                     IF k + 1 \in S THEN g[<<f[S \ {k + 1}], k + 1>>] ELSE f[S]]
  <2>2. k + 1 \in 1..N /\ \A S \in SUBSET (1..(k + 1)) : S \ {k + 1} \in SUBSET (1..k)
    OBVIOUS
  <2>3. \A S \in SUBSET (1..(k + 1)) : k + 1 \notin S => S \in SUBSET (1..k)
    OBVIOUS
  <2>4. \A S \in SUBSET (1..k) : f[S] \in A /\ S \in SUBSET (1..(k + 1)) /\ k + 1 \notin S
    BY <2>1 DEF Folds
  <2>5. h \in [SUBSET (1..(k + 1)) -> A]
    BY <2>2, <2>3, <2>4
  <2>6. /\ \A S \in SUBSET (1..k) : h[S] = f[S]
        /\ \A S \in SUBSET (1..(k + 1)) : k + 1 \in S => h[S] = g[<<f[S \ {k + 1}], k + 1>>]
    BY <2>4
  <2>. HIDE DEF h
  <2>7. ASSUME NEW S \in SUBSET (1..(k + 1))
        PROVE  h[S] = IF S = {} THEN a ELSE g[<<h[S \ {Max(S)}], Max(S)>>]
    <3>1. CASE k + 1 \in S
      <4>0. k \in Nat /\ k + 1 \in Nat /\ S # {}
        BY <3>1
      <4>1. Max(S) \in S /\ Max(S) >= k + 1
        BY <3>1, <4>0, MaxIsOne
      <4>2. Max(S) \in 1..(k + 1)
        BY <4>1
      <4>3. Max(S) = k + 1
        BY <4>0, <4>1, <4>2
      <4>4. S \ {k + 1} \in SUBSET (1..k)
        BY <2>2
      <4>. QED BY <2>6, <3>1, <4>3, <4>4
    <3>2. CASE k + 1 \notin S
      <4>1. S \in SUBSET (1..k) /\ S \ {Max(S)} \in SUBSET (1..k)
        BY <2>3, <3>2
      <4>. QED BY <2>1, <2>6, <4>1 DEF Folds
    <3>. QED BY <3>1, <3>2
  <2>. QED BY <2>5, <2>7 DEF Folds
<1>3. P = Nat
  <2>1. P \subseteq Nat
    OBVIOUS
  <2>. HIDE DEF P
  <2>. QED BY <1>1, <1>2, <2>1, Induct
<1>4. N \in P
  BY <1>3
<1>. QED BY <1>4

--------------------------------------------------------------------------------
(* The collapsed replay. *)

Marks == [type : {"token", "reasoning", "step", "end"}, path : Path]

Piece == [id : Id, mark : Marks, text : Seq(Id)]

Texts(all) == [j \in DOMAIN all |-> all[j].text]

Whole(p) == p.text # <<>> /\ p.id = Last(p.text) /\ \A i \in ToSet(p.text) : Mark(i) = p.mark

\* all are the pieces of ids: the same text, its neighbouring pieces joined.
Joined(all, ids) ==
    /\ all \in Seq(Piece)
    /\ FlattenSeq(Texts(all)) = ids
    /\ \A j \in DOMAIN all : Whole(all[j])
    /\ \A j \in DOMAIN all : j > 1 /\ all[j].mark.type \in MERGEABLE_TYPE => all[j].mark # all[j - 1].mark
    /\ UNION {ToSet(all[j].text) : j \in DOMAIN all} = ToSet(ids)
    /\ all = <<>> <=> ids = <<>>
    /\ all # <<>> => Last(all).id = Last(ids)

\* One turn of the loop of collapse.
Gather(done, i) ==
    IF done # <<>> /\ _mergeable(Last(done), i)
    THEN Front(done) \o <<[id |-> i, mark |-> Mark(i), text |-> Last(done).text \o <<i>>]>>
    ELSE Append(done, [id |-> i, mark |-> Mark(i), text |-> <<i>>])

LEMMA EndOfAppend ==
    ASSUME NEW A, NEW q \in Seq(A), NEW x \in A
    PROVE  /\ Append(q, x) \in Seq(A) /\ Append(q, x) # <<>> /\ Last(Append(q, x)) = x
           /\ DOMAIN Append(q, x) = 1..(Len(q) + 1) /\ Len(q) + 1 \in DOMAIN Append(q, x)
           /\ DOMAIN q = 1..Len(q) /\ Len(q) \in Nat
           /\ \A j \in DOMAIN q : Append(q, x)[j] = q[j]
           /\ Append(q, x)[Len(q) + 1] = x
           /\ q \o <<x>> = Append(q, x)
           /\ \A j \in DOMAIN Append(q, x) : j \in DOMAIN q \/ j = Len(q) + 1
<1>1. Len(q) \in Nat /\ Len(Append(q, x)) = Len(q) + 1 /\ Append(q, x)[Len(q) + 1] = x
  OBVIOUS
<1>2. /\ Append(q, x) \in Seq(A)
      /\ DOMAIN Append(q, x) = 1..(Len(q) + 1) /\ DOMAIN q = 1..Len(q)
      /\ \A j \in DOMAIN q : Append(q, x)[j] = q[j]
  OBVIOUS
<1>3. Append(q, x) # <<>> /\ Last(Append(q, x)) = x
  BY <1>1 DEF Last
<1>4. q \o <<x>> = Append(q, x)
  OBVIOUS
<1>. QED BY <1>1, <1>2, <1>3, <1>4

LEMMA SetOfAppend ==
    ASSUME NEW A, NEW q \in Seq(A), NEW x \in A
    PROVE  ToSet(Append(q, x)) = ToSet(q) \cup {x}
<1>1. \A y \in ToSet(Append(q, x)) : y \in ToSet(q) \cup {x}
  BY EndOfAppend DEF ToSet
<1>2. \A y \in ToSet(q) \cup {x} : y \in ToSet(Append(q, x))
  <2>1. x \in ToSet(Append(q, x))
    BY EndOfAppend DEF ToSet
  <2>2. ASSUME NEW j \in DOMAIN q PROVE q[j] \in ToSet(Append(q, x))
    <3>1. j \in DOMAIN Append(q, x) /\ Append(q, x)[j] = q[j]
      BY EndOfAppend
    <3>. QED BY <3>1 DEF ToSet
  <2>. QED BY <2>1, <2>2 DEF ToSet
<1>. QED BY <1>1, <1>2

LEMMA SplitLast ==
    ASSUME NEW A, NEW q \in Seq(A), q # <<>>
    PROVE  Front(q) \in Seq(A) /\ Last(q) \in A /\ q = Append(Front(q), Last(q))
<1>1. Len(q) \in Nat /\ Len(q) # 0 /\ Len(q) - 1 \in Nat
  OBVIOUS
<1>2. /\ Front(q) \in Seq(A) /\ Len(Front(q)) = Len(q) - 1
      /\ \A j \in 1..(Len(q) - 1) : Front(q)[j] = q[j]
  <2>1. \A j \in 1..(Len(q) - 1) : q[j] \in A
    BY <1>1
  <2>2. /\ SubSeq(q, 1, Len(q) - 1) \in Seq(A)
        /\ Len(SubSeq(q, 1, Len(q) - 1)) = IF 1 <= Len(q) - 1 THEN (Len(q) - 1) - 1 + 1 ELSE 0
        /\ \A j \in 1..((Len(q) - 1) - 1 + 1) : SubSeq(q, 1, Len(q) - 1)[j] = q[1 + j - 1]
    <3>1. 1 \in Int /\ Len(q) - 1 \in Int
      BY <1>1
    <3>. QED BY <2>1, <3>1, SubSeqProperties
  <2>3. /\ Front(q) \in Seq(A)
        /\ Len(Front(q)) = IF 1 <= Len(q) - 1 THEN (Len(q) - 1) - 1 + 1 ELSE 0
        /\ \A j \in 1..((Len(q) - 1) - 1 + 1) : Front(q)[j] = q[1 + j - 1]
    BY <2>2, Zenon DEF Front
  <2>4. Len(Front(q)) = Len(q) - 1 /\ (Len(q) - 1) - 1 + 1 = Len(q) - 1
    <3>1. PICK m \in Nat : m = Len(q) - 1
      BY <1>1
    <3>2. (IF 1 <= m THEN m - 1 + 1 ELSE 0) = m /\ m - 1 + 1 = m
      OBVIOUS
    <3>3. Len(Front(q)) = IF 1 <= m THEN m - 1 + 1 ELSE 0
      BY <2>3, <3>1
    <3>. QED BY <3>1, <3>2, <3>3
  <2>5. \A j \in 1..(Len(q) - 1) : 1 + j - 1 = j
    OBVIOUS
  <2>. QED BY <2>3, <2>4, <2>5
<1>3. Last(q) \in A
  <2>1. Len(q) \in 1..Len(q)
    BY <1>1
  <2>. QED BY <2>1 DEF Last
<1>4. /\ Append(Front(q), Last(q)) \in Seq(A)
      /\ Len(Append(Front(q), Last(q))) = Len(q)
  BY <1>1, <1>2, <1>3
<1>5. \A j \in 1..Len(q) : Append(Front(q), Last(q))[j] = q[j]
  <2>. TAKE j \in 1..Len(q)
  <2>1. CASE j = Len(q)
    BY <1>1, <1>2, <1>3, <2>1 DEF Last
  <2>2. CASE j # Len(q)
    <3>1. j \in 1..(Len(q) - 1)
      BY <1>1, <2>2
    <3>. QED BY <1>1, <1>2, <1>3, <3>1
  <2>. QED BY <2>1, <2>2
<1>. QED BY <1>2, <1>3, <1>4, <1>5

LEMMA TextsAppend ==
    ASSUME NEW d \in Seq(Piece), NEW p \in Piece
    PROVE  /\ Texts(d) \in Seq(Seq(Id)) /\ Append(d, p) \in Seq(Piece)
           /\ Texts(Append(d, p)) = Append(Texts(d), p.text) /\ p.text \in Seq(Id)
           /\ FlattenSeq(Texts(d)) \in Seq(Id)
           /\ FlattenSeq(Texts(Append(d, p))) = FlattenSeq(Texts(d)) \o p.text
           /\ UNION {ToSet(Append(d, p)[j].text) : j \in DOMAIN Append(d, p)}
              = (UNION {ToSet(d[j].text) : j \in DOMAIN d}) \cup ToSet(p.text)
<1>. DEFINE T == Seq(Id)
            r == Append(d, p)
<1>0. p.text \in T /\ \A j \in DOMAIN d : d[j].text \in T
  <2>1. \A x \in Piece : x.text \in T
    BY DEF Piece
  <2>2. \A j \in DOMAIN d : d[j] \in Piece
    OBVIOUS
  <2>. QED BY <2>1, <2>2
<1>1. Texts(d) \in Seq(T) /\ Len(Texts(d)) = Len(d)
  BY <1>0 DEF Texts
<1>2. /\ r \in Seq(Piece) /\ DOMAIN r = 1..(Len(d) + 1) /\ DOMAIN d = 1..Len(d) /\ Len(d) \in Nat
      /\ r[Len(d) + 1] = p /\ \A j \in DOMAIN d : r[j] = d[j]
  BY EndOfAppend
<1>. HIDE DEF r
<1>3. Texts(r) = Append(Texts(d), p.text)
  <2>1. Texts(r) \in Seq(T) /\ Len(Texts(r)) = Len(d) + 1
    BY <1>0, <1>2 DEF Texts
  <2>. HIDE DEF T
  <2>2. Append(Texts(d), p.text) \in Seq(T) /\ Len(Append(Texts(d), p.text)) = Len(d) + 1
    BY <1>0, <1>1, <1>2
  <2>3. ASSUME NEW j \in 1..(Len(d) + 1) PROVE Texts(r)[j] = Append(Texts(d), p.text)[j]
    <3>1. Texts(r)[j] = r[j].text
      BY <1>2 DEF Texts
    <3>2. CASE j = Len(d) + 1
      BY <1>0, <1>1, <1>2, <3>1, <3>2
    <3>3. CASE j # Len(d) + 1
      <4>1. j \in DOMAIN d
        BY <1>2, <3>3
      <4>2. Append(Texts(d), p.text)[j] = Texts(d)[j] /\ Texts(d)[j] = d[j].text
        BY <1>0, <1>1, <1>2, <4>1 DEF Texts
      <4>. QED BY <1>2, <3>1, <4>1, <4>2
    <3>. QED BY <3>2, <3>3
  <2>. QED BY <2>1, <2>2, <2>3
<1>4. UNION {ToSet(r[j].text) : j \in DOMAIN r}
      = (UNION {ToSet(d[j].text) : j \in DOMAIN d}) \cup ToSet(p.text)
  <2>1. \A j \in DOMAIN r : j \in DOMAIN d \/ j = Len(d) + 1
    BY <1>2
  <2>2. Len(d) + 1 \in DOMAIN r /\ \A j \in DOMAIN d : j \in DOMAIN r
    BY <1>2
  <2>3. \A y : (\E j \in DOMAIN r : y \in ToSet(r[j].text))
               <=> (\E j \in DOMAIN d : y \in ToSet(d[j].text)) \/ y \in ToSet(p.text)
    BY <1>2, <2>1, <2>2, Zenon
  <2>. QED BY <2>3
<1>5. FlattenSeq(Texts(d)) \in Seq(Id) /\ FlattenSeq(Append(Texts(d), p.text)) = FlattenSeq(Texts(d)) \o p.text
  BY <1>0, <1>1, FlattenAppend
<1>. QED BY <1>0, <1>1, <1>2, <1>3, <1>4, <1>5 DEF r

LEMMA MarkIsMark ==
    ASSUME n \in 0..MaxEvent, NEW i \in 1..n
    PROVE  i \in Id /\ Mark(i) \in Marks
<1>1. Script \in Seq([type : {"token", "reasoning", "step"}, path : Path]) /\ MaxEvent = Len(Script)
  BY FeedAssumption DEF MaxEvent
<1>2. i \in 1..Len(Script)
  BY <1>1
<1>9. PICK R : R = [type : {"token", "reasoning", "step"}, path : Path]
  OBVIOUS
<1>7. Script \in Seq(R)
  BY <1>1, <1>9
<1>8. Script[i] \in R
  BY <1>2, <1>7
<1>3. PICK e \in [type : {"token", "reasoning", "step"}, path : Path] : e = Script[i]
  BY <1>8, <1>9
<1>4. \A k : [e EXCEPT !.type = k] = [type |-> k, path |-> e.path]
  BY <1>3
<1>5. Mark(i) = [type |-> IF i = endAt THEN "end" ELSE e.type, path |-> e.path]
  BY <1>3, <1>4 DEF Mark
<1>6. i \in Id
  BY <1>1, <1>2 DEF Id
<1>. QED BY <1>3, <1>5, <1>6 DEF Marks

\* A piece and an event are joined when they carry the same mark.
LEMMA MarksAgree ==
    ASSUME n \in 0..MaxEvent, NEW i \in 1..n, NEW p \in Piece
    PROVE  _mergeable(p, i) <=> Mark(i).type \in MERGEABLE_TYPE /\ p.mark = Mark(i)
<1>1. Mark(i) \in Marks /\ p.mark \in Marks
  BY MarkIsMark DEF Piece
<1>2. \A a, b \in Marks : a = b <=> a.type = b.type /\ a.path = b.path
  BY DEF Marks
<1>3. p.mark = Mark(i) <=> p.mark.type = Mark(i).type /\ p.mark.path = Mark(i).path
  BY <1>1, <1>2
<1>. QED BY <1>3 DEF _mergeable

\* A turn of the loop keeps the text.
LEMMA GatherJoins ==
    ASSUME n \in 0..MaxEvent, NEW ids \in Seq(1..n), NEW i \in 1..n, NEW all, Joined(all, ids)
    PROVE  Joined(Gather(all, i), Append(ids, i))
<1>. DEFINE more == Append(ids, i)
<1>1. /\ more # <<>> /\ Last(more) = i /\ ids \o <<i>> = more /\ ToSet(more) = ToSet(ids) \cup {i}
  BY EndOfAppend, SetOfAppend
<1>. HIDE DEF more
<1>2. i \in Id /\ Mark(i) \in Marks /\ <<i>> \in Seq(Id)
  BY MarkIsMark
<1>3. CASE all # <<>> /\ _mergeable(Last(all), i)
  <2>. DEFINE d == Front(all)
              p == Last(all)
              both == p.text \o <<i>>
              u == [id |-> i, mark |-> Mark(i), text |-> both]
  <2>1. d \in Seq(Piece) /\ p \in Piece /\ all = Append(d, p)
    BY <1>3, SplitLast DEF Joined
  <2>2. p.text \in Seq(Id)
    BY <2>1 DEF Piece
  <2>3. both = Append(p.text, i) /\ both \in Seq(Id) /\ both # <<>> /\ Last(both) = i
        /\ ToSet(both) = ToSet(p.text) \cup {i}
    <3>. PICK x : x = p.text
      OBVIOUS
    <3>. HIDE DEF p
    <3>1. x \in Seq(Id)
      BY <2>2
    <3>2. x \o <<i>> = Append(x, i) /\ Append(x, i) \in Seq(Id) /\ Append(x, i) # <<>>
          /\ Last(Append(x, i)) = i /\ ToSet(Append(x, i)) = ToSet(x) \cup {i}
      <4>1. i \in Id
        BY <1>2
      <4>2. ToSet(Append(x, i)) = ToSet(x) \cup {i}
        BY <3>1, <4>1, SetOfAppend
      <4>. QED BY <3>1, <4>1, <4>2, EndOfAppend
    <3>. QED BY <3>2
  <2>4. u \in Piece /\ u.text = both /\ u.mark = Mark(i) /\ u.id = i
    BY <1>2, <2>3 DEF Piece
  <2>5. Gather(all, i) = Append(d, u)
    <3>1. Gather(all, i) = d \o <<u>>
      BY <1>3, Zenon DEF Gather
    <3>. QED BY <2>1, <2>4, <3>1, EndOfAppend
  <2>6. p.mark = Mark(i)
    BY <1>3, <2>1, MarksAgree
  <2>. HIDE DEF d, p, both, u
  <2>. DEFINE r == Append(d, u)
  <2>7. /\ DOMAIN r = 1..(Len(d) + 1) /\ DOMAIN all = 1..(Len(d) + 1) /\ Len(d) \in Nat
        /\ all[Len(d) + 1] = p /\ r[Len(d) + 1] = u
        /\ \A j \in DOMAIN r : r[j] = all[j] \/ j = Len(d) + 1
        /\ \A j \in DOMAIN r : j # Len(d) + 1 => r[j] = all[j]
        /\ r # <<>> /\ Last(r) = u
    <3>1. /\ DOMAIN r = 1..(Len(d) + 1) /\ r[Len(d) + 1] = u /\ \A j \in DOMAIN d : r[j] = d[j]
          /\ r # <<>> /\ Last(r) = u /\ Len(d) \in Nat /\ DOMAIN d = 1..Len(d)
          /\ \A j \in DOMAIN r : j \in DOMAIN d \/ j = Len(d) + 1
      BY <2>1, <2>4, EndOfAppend
    <3>2. /\ DOMAIN all = 1..(Len(d) + 1) /\ all[Len(d) + 1] = p /\ \A j \in DOMAIN d : all[j] = d[j]
      BY <2>1, EndOfAppend
    <3>. HIDE DEF r
    <3>. QED BY <3>1, <3>2
  <2>8. r \in Seq(Piece) /\ FlattenSeq(Texts(r)) = more
    <3>1. /\ r \in Seq(Piece) /\ FlattenSeq(Texts(d)) \in Seq(Id)
          /\ FlattenSeq(Texts(r)) = FlattenSeq(Texts(d)) \o both
      BY <2>1, <2>4, TextsAppend
    <3>2. FlattenSeq(Texts(all)) = FlattenSeq(Texts(d)) \o p.text
      BY <2>1, TextsAppend
    <3>3. FlattenSeq(Texts(all)) = ids
      BY DEF Joined
    <3>. DEFINE a == FlattenSeq(Texts(d))
                b == p.text
    <3>4. (a \o b) \o <<i>> = a \o (b \o <<i>>)
      <4>1. a \in Seq(Id) /\ b \in Seq(Id) /\ <<i>> \in Seq(Id)
        BY <1>2, <2>2, <3>1
      <4>. HIDE DEF a, b
      <4>. QED BY <4>1, ConcatAssociative
    <3>. QED BY <1>1, <3>1, <3>2, <3>3, <3>4 DEF both
  <2>9. \A j \in DOMAIN r : Whole(r[j])
    <3>1. \A j \in DOMAIN all : Whole(all[j])
      BY DEF Joined
    <3>2. Whole(p)
      BY <2>7, <3>1
    <3>3. Whole(u)
      <4>1. \A x \in ToSet(both) : Mark(x) = Mark(i)
        BY <2>3, <2>6, <3>2 DEF Whole
      <4>. QED BY <2>3, <2>4, <4>1 DEF Whole
    <3>. HIDE DEF r
    <3>. QED BY <2>7, <3>1, <3>3
  <2>10. \A j \in DOMAIN r : j > 1 /\ r[j].mark.type \in MERGEABLE_TYPE => r[j].mark # r[j - 1].mark
    <3>. HIDE DEF r
    <3>1. \A j \in DOMAIN r : r[j].mark = all[j].mark
      BY <2>4, <2>6, <2>7
    <3>2. \A j \in DOMAIN r : j > 1 => j - 1 \in DOMAIN r
      BY <2>7
    <3>3. \A j \in DOMAIN all :
             j > 1 /\ all[j].mark.type \in MERGEABLE_TYPE => all[j].mark # all[j - 1].mark
      BY DEF Joined
    <3>. QED BY <2>7, <3>1, <3>2, <3>3
  <2>11. UNION {ToSet(r[j].text) : j \in DOMAIN r} = ToSet(more)
    <3>1. UNION {ToSet(r[j].text) : j \in DOMAIN r}
          = (UNION {ToSet(d[j].text) : j \in DOMAIN d}) \cup ToSet(both)
      BY <2>1, <2>4, TextsAppend
    <3>2. UNION {ToSet(all[j].text) : j \in DOMAIN all}
          = (UNION {ToSet(d[j].text) : j \in DOMAIN d}) \cup ToSet(p.text)
      <4>1. UNION {ToSet(Append(d, p)[j].text) : j \in DOMAIN Append(d, p)}
            = (UNION {ToSet(d[j].text) : j \in DOMAIN d}) \cup ToSet(p.text)
        BY <2>1, TextsAppend
      <4>. QED BY <2>1, <4>1, Zenon
    <3>3. UNION {ToSet(all[j].text) : j \in DOMAIN all} = ToSet(ids)
      BY DEF Joined
    <3>. QED BY <1>1, <2>3, <3>1, <3>2, <3>3
  <2>12. Last(r).id = Last(more)
    BY <1>1, <2>4, <2>7
  <2>. HIDE DEF r
  <2>13. Joined(r, more)
    BY <1>1, <2>7, <2>8, <2>9, <2>10, <2>11, <2>12 DEF Joined
  <2>. QED BY <2>5, <2>13 DEF r, more
<1>4. CASE ~(all # <<>> /\ _mergeable(Last(all), i))
  <2>. DEFINE u == [id |-> i, mark |-> Mark(i), text |-> <<i>>]
              r == Append(all, u)
  <2>1. u \in Piece /\ u.text = <<i>> /\ u.mark = Mark(i) /\ u.id = i
    BY <1>2 DEF Piece
  <2>2. Gather(all, i) = r
    BY <1>4, Zenon DEF Gather
  <2>3. all \in Seq(Piece)
    BY DEF Joined
  <2>4. <<i>> # <<>> /\ Last(<<i>>) = i /\ ToSet(<<i>>) = {i}
    BY DEF Last, ToSet
  <2>. HIDE DEF u
  <2>5. /\ DOMAIN r = 1..(Len(all) + 1) /\ DOMAIN all = 1..Len(all) /\ Len(all) \in Nat
        /\ r[Len(all) + 1] = u /\ r # <<>> /\ Last(r) = u
        /\ \A j \in DOMAIN all : r[j] = all[j]
        /\ \A j \in DOMAIN r : j \in DOMAIN all \/ j = Len(all) + 1
    BY <2>1, <2>3, EndOfAppend
  <2>6. /\ r \in Seq(Piece)
        /\ FlattenSeq(Texts(r)) = more
        /\ UNION {ToSet(r[j].text) : j \in DOMAIN r} = ToSet(more)
    <3>1. /\ r \in Seq(Piece) /\ FlattenSeq(Texts(r)) = FlattenSeq(Texts(all)) \o u.text
          /\ UNION {ToSet(r[j].text) : j \in DOMAIN r}
             = (UNION {ToSet(all[j].text) : j \in DOMAIN all}) \cup ToSet(u.text)
      BY <2>1, <2>3, TextsAppend
    <3>2. FlattenSeq(Texts(all)) = ids /\ UNION {ToSet(all[j].text) : j \in DOMAIN all} = ToSet(ids)
      BY DEF Joined
    <3>. HIDE DEF r
    <3>. QED BY <1>1, <2>1, <2>4, <3>1, <3>2
  <2>. HIDE DEF r
  <2>7. Whole(u)
    BY <2>1, <2>4 DEF Whole
  <2>8. \A j \in DOMAIN r : Whole(r[j])
    BY <2>5, <2>7 DEF Joined
  <2>9. ASSUME NEW j \in DOMAIN r, j > 1, r[j].mark.type \in MERGEABLE_TYPE
        PROVE  r[j].mark # r[j - 1].mark
    <3>1. j - 1 \in DOMAIN all /\ r[j - 1] = all[j - 1]
      BY <2>5, <2>9
    <3>2. CASE j \in DOMAIN all
      BY <2>5, <2>9, <3>1, <3>2 DEF Joined
    <3>3. CASE j = Len(all) + 1
      <4>1. all # <<>> /\ j - 1 = Len(all)
        BY <2>5, <2>9, <3>3
      <4>2. Mark(i).type \in MERGEABLE_TYPE => Last(all).mark # Mark(i)
        <5>1. Last(all) \in Piece
          BY <2>3, <4>1, SplitLast
        <5>. QED BY <1>4, <4>1, <5>1, MarksAgree
      <4>3. r[j] = u /\ r[j - 1] = Last(all)
        BY <2>5, <3>1, <3>3, <4>1 DEF Last
      <4>. QED BY <2>1, <2>9, <4>2, <4>3
    <3>. QED BY <2>5, <3>2, <3>3
  <2>10. Last(r).id = Last(more)
    BY <1>1, <2>1, <2>5
  <2>11. Joined(r, more)
    BY <1>1, <2>5, <2>6, <2>8, <2>9, <2>10 DEF Joined
  <2>. QED BY <2>2, <2>11 DEF more
<1>. QED BY <1>3, <1>4

Folding(it, ids) == [S \in SUBSET DOMAIN ids |->
    IF S = {} THEN <<>> ELSE Gather(it[S \ {Max(S)}], ids[Max(S)])]

LEMMA CollapseFolds ==
    ASSUME NEW ids
    PROVE  collapse(ids) = (CHOOSE it : it = Folding(it, ids))[DOMAIN ids]
BY DEF collapse, FoldLeft, MapThenFoldSet, Folding, Gather

LEMMA NothingJoined == Joined(<<>>, <<>>)
<1>1. <<>> \in Seq(Piece) /\ DOMAIN <<>> = {} /\ ToSet(<<>>) = {}
  BY DEF ToSet
<1>2. Texts(<<>>) = <<>>
  <2>1. Texts(<<>>) = [j \in {} |-> <<>>[j].text]
    BY <1>1 DEF Texts
  <2>2. <<>> = [j \in {} |-> <<>>[j].text]
    OBVIOUS
  <2>. QED BY <2>1, <2>2
<1>3. FlattenSeq(<<>>) = <<>>
  BY DEF FlattenSeq
<1>. QED BY <1>1, <1>2, <1>3 DEF Joined

LEMMA GatherKind ==
    ASSUME n \in 0..MaxEvent, NEW all \in Seq(Piece), NEW i \in 1..n
    PROVE  Gather(all, i) \in Seq(Piece)
<1>1. i \in Id /\ Mark(i) \in Marks /\ <<i>> \in Seq(Id)
  BY MarkIsMark
<1>2. CASE all # <<>> /\ _mergeable(Last(all), i)
  <2>. DEFINE d == Front(all)
              p == Last(all)
              u == [id |-> i, mark |-> Mark(i), text |-> p.text \o <<i>>]
  <2>1. d \in Seq(Piece) /\ p \in Piece
    BY <1>2, SplitLast
  <2>2. p.text \in Seq(Id)
    BY <2>1 DEF Piece
  <2>3. u \in Piece
    <3>. HIDE DEF p
    <3>1. p.text \o <<i>> \in Seq(Id)
      BY <1>1, <2>2
    <3>. QED BY <1>1, <3>1 DEF Piece
  <2>4. Gather(all, i) = d \o <<u>>
    BY <1>2, Zenon DEF Gather
  <2>. HIDE DEF d, u
  <2>. QED BY <2>1, <2>3, <2>4
<1>3. CASE ~(all # <<>> /\ _mergeable(Last(all), i))
  <2>. DEFINE u == [id |-> i, mark |-> Mark(i), text |-> <<i>>]
  <2>1. u \in Piece
    BY <1>1 DEF Piece
  <2>2. Gather(all, i) = Append(all, u)
    BY <1>3, Zenon DEF Gather
  <2>. HIDE DEF u
  <2>. QED BY <2>1, <2>2
<1>. QED BY <1>2, <1>3

\* collapse loses nothing, moves nothing and joins neighbouring pieces of one speaker's text only.
LEMMA CollapseJoins ==
    ASSUME n \in 0..MaxEvent, NEW ids \in Seq(1..n)
    PROVE  Joined(collapse(ids), ids)
<1>. DEFINE N == Len(ids)
            A == Seq(Piece)
            g == [x \in A \X (1..N) |-> Gather(x[1], ids[x[2]])]
<1>1. N \in Nat /\ DOMAIN ids = 1..N /\ \A i \in 1..N : ids[i] \in 1..n
  OBVIOUS
<1>. HIDE DEF N
<1>2. <<>> \in A /\ \A a \in A, i \in 1..N : Gather(a, ids[i]) \in A
  <2>1. <<>> \in A
    OBVIOUS
  <2>2. ASSUME NEW a \in A, NEW i \in 1..N PROVE Gather(a, ids[i]) \in A
    BY <1>1, GatherKind
  <2>. QED BY <2>1, <2>2
<1>. HIDE DEF A
<1>3. g \in [A \X (1..N) -> A] /\ \A a \in A, i \in 1..N : g[<<a, i>>] = Gather(a, ids[i])
  BY <1>2
<1>. HIDE DEF g
<1>4. PICK h : Folds(h, N, A, <<>>, g)
  BY <1>1, <1>2, <1>3, FoldExists
<1>5. h = Folding(h, ids)
  <2>1. ASSUME NEW S \in SUBSET (1..N)
        PROVE  h[S] = IF S = {} THEN <<>> ELSE Gather(h[S \ {Max(S)}], ids[Max(S)])
    <3>1. CASE S = {}
      BY <1>4, <3>1 DEF Folds
    <3>2. CASE S # {}
      <4>1. Max(S) \in 1..N
        BY <1>1, <3>2, MaxIsOne
      <4>2. h[S \ {Max(S)}] \in A
        BY <1>4 DEF Folds
      <4>3. h[S] = g[<<h[S \ {Max(S)}], Max(S)>>]
        BY <1>4, <3>2 DEF Folds
      <4>. QED BY <1>3, <3>2, <4>1, <4>2, <4>3
    <3>. QED BY <3>1, <3>2
  <2>2. h = [S \in SUBSET (1..N) |-> h[S]]
    BY <1>4 DEF Folds
  <2>3. Folding(h, ids) = [S \in SUBSET (1..N) |-> h[S]]
    BY <1>1, <2>1, Zenon DEF Folding
  <2>. QED BY <2>2, <2>3
<1>. DEFINE it == CHOOSE it : it = Folding(it, ids)
<1>6. it = Folding(it, ids)
  BY <1>5
<1>. HIDE DEF it
<1>7. \A S \in SUBSET (1..N) : it[S] = IF S = {} THEN <<>> ELSE Gather(it[S \ {Max(S)}], ids[Max(S)])
  <2>1. \A S \in SUBSET (1..N) : it[S] = Folding(it, ids)[S]
    BY <1>6
  <2>. QED BY <1>1, <2>1, Zenon DEF Folding
<1>. DEFINE Upto(k) == [i \in 1..k |-> ids[i]]
            P == {k \in Nat : k <= N => Joined(it[1..k], Upto(k))}
<1>8. 0 \in P
  <2>1. 1..0 = {} /\ {} \in SUBSET (1..N)
    OBVIOUS
  <2>2. it[1..0] = <<>>
    BY <1>7, <2>1
  <2>3. Upto(0) = <<>>
    BY <2>1
  <2>. HIDE DEF Upto
  <2>. QED BY <2>2, <2>3, NothingJoined
<1>9. ASSUME NEW k \in P PROVE k + 1 \in P
  <2>. SUFFICES ASSUME k + 1 <= N PROVE Joined(it[1..(k + 1)], Upto(k + 1))
    OBVIOUS
  <2>1. k \in Nat /\ k <= N /\ k + 1 \in 1..N
    BY <1>1
  <2>2. Joined(it[1..k], Upto(k))
    BY <2>1
  <2>. DEFINE S == 1..(k + 1)
  <2>3. S \in SUBSET (1..N) /\ S # {} /\ S \ {k + 1} = 1..k
    <3>. HIDE DEF P
    <3>1. \A i \in Int : i \in S <=> 1 <= i /\ i <= k + 1
      OBVIOUS
    <3>2. \A i \in Int : i \in 1..k <=> 1 <= i /\ i <= k
      OBVIOUS
    <3>3. \A i : (i \in S => i \in Int) /\ (i \in 1..k => i \in Int)
      OBVIOUS
    <3>. HIDE DEF S
    <3>4. \A i : i \in S \ {k + 1} <=> i \in 1..k
      BY <2>1, <3>1, <3>2, <3>3
    <3>5. \A i \in S : i \in 1..N
      BY <1>1, <2>1, <3>1, <3>3
    <3>6. k + 1 \in S
      BY <2>1, <3>1
    <3>. QED BY <3>4, <3>5, <3>6
  <2>4. Max(S) = k + 1
    <3>1. Max(S) \in S /\ \A y \in S : Max(S) >= y
      BY <1>1, <2>3, MaxIsOne
    <3>. QED BY <2>1, <3>1
  <2>5. it[S] = Gather(it[1..k], ids[k + 1])
    BY <1>7, <2>3, <2>4
  <2>6. Upto(k) \in Seq(1..n) /\ ids[k + 1] \in 1..n
    BY <1>1, <2>1
  <2>7. Upto(k + 1) = Append(Upto(k), ids[k + 1])
    <3>. HIDE DEF P
    <3>1. \A i \in 1..k : i \in 1..(k + 1)
      BY <2>1
    <3>2. /\ Upto(k + 1) \in Seq(1..n) /\ Len(Upto(k + 1)) = k + 1
          /\ Upto(k) \in Seq(1..n) /\ Len(Upto(k)) = k
          /\ \A i \in 1..(k + 1) : Upto(k + 1)[i] = ids[i]
          /\ \A i \in 1..k : Upto(k)[i] = ids[i]
      BY <1>1, <2>1
    <3>. HIDE DEF Upto
    <3>3. /\ Append(Upto(k), ids[k + 1]) \in Seq(1..n) /\ Len(Append(Upto(k), ids[k + 1])) = k + 1
          /\ Append(Upto(k), ids[k + 1])[k + 1] = ids[k + 1]
          /\ \A i \in 1..k : Append(Upto(k), ids[k + 1])[i] = Upto(k)[i]
      BY <2>1, <2>6, <3>2
    <3>4. ASSUME NEW i \in 1..(k + 1) PROVE Upto(k + 1)[i] = Append(Upto(k), ids[k + 1])[i]
      <4>1. CASE i = k + 1
        BY <3>2, <3>3, <4>1
      <4>2. CASE i # k + 1
        <5>1. i \in 1..k
          BY <2>1, <4>2
        <5>. QED BY <3>2, <3>3, <5>1
      <4>. QED BY <4>1, <4>2
    <3>. QED BY <3>2, <3>3, <3>4, SeqEqual
  <2>. HIDE DEF Upto, S
  <2>8. Joined(Gather(it[1..k], ids[k + 1]), Append(Upto(k), ids[k + 1]))
    BY <2>2, <2>6, GatherJoins
  <2>. QED BY <2>5, <2>7, <2>8 DEF S
<1>10. N \in P
  <2>1. P \subseteq Nat
    OBVIOUS
  <2>2. P = Nat
    <3>. HIDE DEF P
    <3>. QED BY <1>8, <1>9, <2>1, Induct
  <2>. QED BY <1>1, <2>2
<1>11. Joined(it[1..N], Upto(N))
  BY <1>1, <1>10
<1>12. Upto(N) = ids
  BY <1>1
<1>13. collapse(ids) = it[1..N]
  BY <1>1, CollapseFolds DEF it
<1>. QED BY <1>11, <1>12, <1>13

--------------------------------------------------------------------------------
(* Rising sequences. *)

\* q rises and is all beyond c.
Rising(q, c) ==
    /\ \A j \in DOMAIN q : q[j] > c
    /\ \A i, j \in DOMAIN q : i < j => q[i] < q[j]

LEMMA RisingBounds ==
    ASSUME NEW q \in Seq(Nat), q # <<>>, NEW c \in Nat, Rising(q, c)
    PROVE  /\ Head(q) \in ToSet(q) /\ Last(q) \in ToSet(q) /\ Head(q) \in Nat /\ Last(q) \in Nat
           /\ \A x \in ToSet(q) : x \in Nat /\ Head(q) <= x /\ x <= Last(q) /\ c < x
<1>1. /\ Len(q) \in Nat /\ 1 \in DOMAIN q /\ Len(q) \in DOMAIN q /\ DOMAIN q = 1..Len(q)
      /\ \A j \in DOMAIN q : q[j] \in Nat
  OBVIOUS
<1>2. Head(q) = q[1] /\ Last(q) = q[Len(q)]
  BY DEF Last
<1>3. ASSUME NEW j \in DOMAIN q PROVE q[1] <= q[j] /\ q[j] <= q[Len(q)] /\ c < q[j]
  <2>1. j \in Nat /\ 1 <= j /\ j <= Len(q)
    BY <1>1
  <2>2. q[1] <= q[j]
    <3>1. CASE j = 1
      BY <1>1, <3>1
    <3>2. CASE 1 < j
      BY <1>1, <3>2 DEF Rising
    <3>. QED BY <2>1, <3>1, <3>2
  <2>3. q[j] <= q[Len(q)]
    <3>1. CASE j = Len(q)
      BY <1>1, <3>1
    <3>2. CASE j < Len(q)
      BY <1>1, <3>2 DEF Rising
    <3>. QED BY <1>1, <2>1, <3>1, <3>2
  <2>4. c < q[j]
    BY <1>1 DEF Rising
  <2>. QED BY <2>2, <2>3, <2>4
<1>. QED BY <1>1, <1>2, <1>3 DEF ToSet

LEMMA RisingTail ==
    ASSUME NEW A, NEW q \in Seq(A), A \subseteq Nat, q # <<>>, NEW c \in Nat, Rising(q, c)
    PROVE  /\ Tail(q) \in Seq(A) /\ Rising(Tail(q), Head(q))
           /\ Tail(q) # <<>> => Last(Tail(q)) = Last(q)
           /\ Tail(q) = <<>> => Last(q) = Head(q)
           /\ ToSet(q) = ToSet(Tail(q)) \cup {Head(q)}
<1>1. /\ Len(q) \in Nat /\ Len(q) # 0 /\ DOMAIN q = 1..Len(q)
      /\ \A j \in DOMAIN q : q[j] \in A /\ q[j] \in Nat
  <2>1. Len(q) \in Nat /\ Len(q) # 0 /\ DOMAIN q = 1..Len(q)
    OBVIOUS
  <2>2. \A j \in DOMAIN q : q[j] \in A
    OBVIOUS
  <2>. QED BY <2>1, <2>2
<1>2. /\ Tail(q) \in Seq(A) /\ Len(Tail(q)) = Len(q) - 1 /\ DOMAIN Tail(q) = 1..(Len(q) - 1)
      /\ \A j \in 1..(Len(q) - 1) : Tail(q)[j] = q[j + 1]
  BY <1>1, HeadTailProperties
<1>3. Head(q) = q[1] /\ 1 \in DOMAIN q
  BY <1>1
<1>. PICK t : t = Tail(q)
  OBVIOUS
<1>4. Rising(t, Head(q))
  <2>1. \A j \in DOMAIN t : j + 1 \in DOMAIN q /\ 1 < j + 1 /\ t[j] = q[j + 1]
    BY <1>1, <1>2
  <2>2. \A j \in DOMAIN t : t[j] > Head(q)
    BY <1>1, <1>3, <2>1 DEF Rising
  <2>3. \A i, j \in DOMAIN t : i < j => i + 1 < j + 1
    BY <1>2
  <2>4. \A i, j \in DOMAIN t : i < j => t[i] < t[j]
    BY <2>1, <2>3 DEF Rising
  <2>. QED BY <2>2, <2>4 DEF Rising
<1>5. t # <<>> => Last(t) = Last(q)
  <2>. SUFFICES ASSUME t # <<>> PROVE Last(t) = Last(q)
    OBVIOUS
  <2>1. Len(t) # 0 /\ Len(t) = Len(q) - 1 /\ t \in Seq(A)
    BY <1>2
  <2>2. Len(t) \in 1..(Len(q) - 1) /\ Len(t) + 1 = Len(q)
    BY <1>1, <2>1
  <2>3. t[Len(t)] = q[Len(q)]
    BY <1>2, <2>2
  <2>. QED BY <2>3 DEF Last
<1>6. t = <<>> => Last(q) = Head(q)
  <2>. SUFFICES ASSUME t = <<>> PROVE Last(q) = Head(q)
    OBVIOUS
  <2>1. Len(t) = 0 /\ Len(t) = Len(q) - 1
    BY <1>2
  <2>2. Len(q) = 1
    BY <1>1, <2>1
  <2>. QED BY <1>3, <2>2 DEF Last
<1>7. ToSet(q) = ToSet(t) \cup {Head(q)}
  <2>1. \A j \in DOMAIN t : j + 1 \in DOMAIN q /\ t[j] = q[j + 1]
    BY <1>1, <1>2
  <2>2. \A j \in DOMAIN q : j = 1 \/ (j - 1 \in DOMAIN t /\ t[j - 1] = q[j])
    <3>. TAKE j \in DOMAIN q
    <3>1. CASE j # 1
      <4>1. j - 1 \in 1..(Len(q) - 1) /\ (j - 1) + 1 = j
        BY <1>1, <3>1
      <4>. QED BY <1>2, <4>1
    <3>. QED BY <3>1
  <2>3. \A x \in ToSet(q) : x \in ToSet(t) \cup {Head(q)}
    <3>. TAKE x \in ToSet(q)
    <3>1. PICK j \in DOMAIN q : x = q[j]
      BY DEF ToSet
    <3>2. j = 1 \/ x \in ToSet(t)
      BY <2>2, <3>1 DEF ToSet
    <3>. QED BY <1>3, <3>1, <3>2
  <2>4. \A x \in ToSet(t) : x \in ToSet(q)
    BY <2>1 DEF ToSet
  <2>5. Head(q) \in ToSet(q)
    BY <1>3 DEF ToSet
  <2>. QED BY <2>3, <2>4, <2>5
<1>. QED BY <1>2, <1>4, <1>5, <1>6, <1>7

LEMMA RisingConcat ==
    ASSUME NEW e \in Seq(Id), NEW q \in Seq(Id), NEW c \in Nat,
           Rising(e, c), Rising(q, c), \A x \in ToSet(e), y \in ToSet(q) : x < y
    PROVE  /\ e \o q \in Seq(Id) /\ Rising(e \o q, c) /\ ToSet(e \o q) = ToSet(e) \cup ToSet(q)
           /\ q # <<>> => e \o q # <<>> /\ Last(e \o q) = Last(q)
           /\ q = <<>> => e \o q = e
<1>. PICK r : r = e \o q
  OBVIOUS
<1>0. \A j \in Id : j \in Int
  BY DEF Id
<1>1. /\ Len(e) \in Nat /\ Len(q) \in Nat /\ DOMAIN e = 1..Len(e) /\ DOMAIN q = 1..Len(q)
      /\ r \in Seq(Id) /\ Len(r) = Len(e) + Len(q) /\ DOMAIN r = 1..(Len(e) + Len(q))
      /\ \A j \in 1..(Len(e) + Len(q)) : r[j] = IF j <= Len(e) THEN e[j] ELSE q[j - Len(e)]
  BY ConcatProperties
<1>2. \A j \in DOMAIN e : j \in DOMAIN r /\ r[j] = e[j]
  BY <1>1
<1>3. \A j \in DOMAIN q : j + Len(e) \in DOMAIN r /\ r[j + Len(e)] = q[j]
  <2>. TAKE j \in DOMAIN q
  <2>1. j \in Nat /\ 1 <= j /\ j <= Len(q)
    BY <1>1
  <2>2. j + Len(e) \in 1..(Len(e) + Len(q)) /\ ~(j + Len(e) <= Len(e)) /\ (j + Len(e)) - Len(e) = j
    BY <1>1, <2>1
  <2>. QED BY <1>1, <2>2
<1>4. \A j \in DOMAIN r : \/ j \in DOMAIN e /\ r[j] = e[j] /\ j <= Len(e)
                          \/ j - Len(e) \in DOMAIN q /\ r[j] = q[j - Len(e)] /\ Len(e) < j
  <2>. TAKE j \in DOMAIN r
  <2>1. j \in Nat /\ 1 <= j /\ j <= Len(e) + Len(q)
    BY <1>1
  <2>2. CASE j <= Len(e)
    BY <1>1, <2>1, <2>2
  <2>3. CASE ~(j <= Len(e))
    <3>1. j - Len(e) \in 1..Len(q) /\ Len(e) < j
      BY <1>1, <2>1, <2>3
    <3>. QED BY <1>1, <2>3, <3>1
  <2>. QED BY <2>2, <2>3
<1>5. ToSet(r) = ToSet(e) \cup ToSet(q)
  <2>1. \A x \in ToSet(r) : x \in ToSet(e) \cup ToSet(q)
    BY <1>4 DEF ToSet
  <2>2. \A x \in ToSet(e) \cup ToSet(q) : x \in ToSet(r)
    BY <1>2, <1>3 DEF ToSet
  <2>. QED BY <2>1, <2>2
<1>6. Rising(r, c)
  <2>1. \A j \in DOMAIN r : r[j] > c
    BY <1>4 DEF Rising
  <2>2. ASSUME NEW i \in DOMAIN r, NEW j \in DOMAIN r, i < j PROVE r[i] < r[j]
    <3>0. i \in Nat /\ j \in Nat
      BY <1>1
    <3>1. CASE j <= Len(e)
      <4>1. i <= Len(e) /\ ~(Len(e) < i) /\ ~(Len(e) < j)
        BY <1>1, <2>2, <3>0, <3>1
      <4>2. i \in DOMAIN e /\ j \in DOMAIN e /\ r[i] = e[i] /\ r[j] = e[j]
        BY <1>4, <4>1
      <4>. QED BY <2>2, <4>2 DEF Rising
    <3>2. CASE Len(e) < i
      <4>1. Len(e) < j /\ ~(i <= Len(e)) /\ ~(j <= Len(e)) /\ i - Len(e) < j - Len(e)
        BY <1>1, <2>2, <3>0, <3>2
      <4>2. i - Len(e) \in DOMAIN q /\ j - Len(e) \in DOMAIN q
            /\ r[i] = q[i - Len(e)] /\ r[j] = q[j - Len(e)]
        BY <1>4, <4>1
      <4>. QED BY <4>1, <4>2 DEF Rising
    <3>3. CASE ~(j <= Len(e)) /\ ~(Len(e) < i)
      <4>1. i \in DOMAIN e /\ r[i] = e[i] /\ j - Len(e) \in DOMAIN q /\ r[j] = q[j - Len(e)]
        BY <1>4, <3>3
      <4>2. r[i] \in ToSet(e) /\ r[j] \in ToSet(q)
        BY <4>1 DEF ToSet
      <4>. QED BY <4>2
    <3>. QED BY <3>1, <3>2, <3>3
  <2>. QED BY <2>1, <2>2 DEF Rising
<1>7. q # <<>> => r # <<>> /\ Last(r) = Last(q)
  <2>. SUFFICES ASSUME q # <<>> PROVE r # <<>> /\ Last(r) = Last(q)
    OBVIOUS
  <2>1. Len(q) \in DOMAIN q /\ Len(r) = Len(q) + Len(e) /\ Len(r) # 0
    BY <1>1
  <2>2. r[Len(r)] = q[Len(q)]
    BY <1>3, <2>1
  <2>. QED BY <2>1, <2>2 DEF Last
<1>8. q = <<>> => r = e
  BY ConcatEmptySeq
<1>. QED BY <1>1, <1>5, <1>6, <1>7, <1>8

--------------------------------------------------------------------------------
(* The inductive invariant. *)

\* What each reader went past, or will: it left the Stream ahead of it or was overtaken.
passed == [f \in Reader |-> overrun[f] \cup slipped[f]]

\* What is known to be skipped.
Known(f) == gone \cup passed[f]

MissedTyped == overrun \in [Reader -> SUBSET (1..n)] /\ slipped \in [Reader -> SUBSET (1..n)]

FeedTyped ==
    /\ finished \in BOOLEAN /\ n \in 0..MaxEvent /\ endAt \in 0..n /\ first \in 1..n + 1
    /\ table \subseteq 1..n /\ writing \subseteq 1..n /\ faults \in 0..MaxFault /\ gone \subseteq 1..n
    /\ place \in [Reader -> Place] /\ cursor \in [Reader -> Nat] /\ sure \in [Reader -> BOOLEAN]
    /\ todo \in [Reader -> Seq(Id)] /\ seen \in [Reader -> SUBSET Id]
    /\ MissedTyped
    /\ \A f \in Reader :
          cursor[f] <= n /\ ToSet(todo[f]) \subseteq 1..n /\ seen[f] \subseteq 1..n

\* What has left the Stream is in the archive, was purged or is lost.
Kept == 1..(first - 1) \subseteq table \cup gone

Quiet == {"away", "read", "once", "check", "ask", "wait"}
Reads == {"archive", "once archive"}

(* What a reader has read has no gap but the known ones: once it has read a   *)
(* Stream that is not empty, while it sends and while it follows.             *)
Settled(f) ==
    /\ Rising(todo[f], cursor[f])
    /\ place[f] \in Quiet => todo[f] = <<>>
    /\ place[f] = "yield" => todo[f] # <<>>
    /\ place[f] \in Reads /\ todo[f] # <<>> =>
          \A i \in (cursor[f] + 1)..Last(todo[f]) :
             i \in ToSet(todo[f]) \/ (i < Head(todo[f]) /\ i \in table \cup gone)
    /\ place[f] = "yield" => (cursor[f] + 1)..Last(todo[f]) \subseteq ToSet(todo[f]) \cup Known(f)
    /\ Following(f) => (Reached(f) + 1)..(first - 1) \subseteq Known(f)
    /\ 1..cursor[f] \subseteq seen[f] \cup Known(f)

FeedIInv == FeedTyped /\ Kept /\ \A f \in Reader : Settled(f)

LEMMA PassedIs ==
    ASSUME MissedTyped
    PROVE  /\ passed \in [Reader -> SUBSET (1..n)]
           /\ \A f \in Reader : passed[f] = overrun[f] \cup slipped[f]
BY DEF passed, MissedTyped

LEMMA PassedSame ==
    ASSUME MissedTyped, UNCHANGED missed, n' = n
    PROVE  passed' = passed /\ MissedTyped'
BY DEF missed, passed, MissedTyped

LEMMA PassedSets ==
    ASSUME MissedTyped, NEW f \in Reader, n' = n,
           NEW v \in SUBSET (1..n), overrun' = [overrun EXCEPT ![f] = v],
           NEW w \in SUBSET (1..n), slipped' = [slipped EXCEPT ![f] = w]
    PROVE  passed' = [passed EXCEPT ![f] = v \cup w] /\ MissedTyped'
<1>1. overrun' \in [Reader -> SUBSET (1..n)] /\ slipped' \in [Reader -> SUBSET (1..n)]
  BY DEF MissedTyped
<1>2. passed' = [g \in Reader |-> overrun'[g] \cup slipped'[g]]
  BY DEF passed
<1>3. ASSUME NEW g \in Reader
      PROVE  overrun'[g] \cup slipped'[g] = [passed EXCEPT ![f] = v \cup w][g]
  <2>1. g # f => overrun'[g] = overrun[g] /\ slipped'[g] = slipped[g]
    BY DEF MissedTyped
  <2>2. overrun'[f] = v /\ slipped'[f] = w
    BY DEF MissedTyped
  <2>. QED BY <2>1, <2>2, PassedIs
<1>4. [passed EXCEPT ![f] = v \cup w] = [g \in Reader |-> [passed EXCEPT ![f] = v \cup w][g]]
  BY PassedIs
<1>. QED BY <1>1, <1>2, <1>3, <1>4 DEF MissedTyped

LEMMA Counts == MaxEvent \in Nat /\ MaxLength \in Nat /\ MaxLength # 0 /\ Id \subseteq Nat
<1>1. Len(Script) \in Nat /\ MaxLength \in Nat /\ MaxLength # 0
  BY FeedAssumption
<1>. QED BY <1>1 DEF MaxEvent, Id

\* An empty sequence, and a state in which nothing has happened.
LEMMA NothingRises == ASSUME NEW c PROVE Rising(<<>>, c) /\ ToSet(<<>>) = {} /\ <<>> \in Seq(Id)
BY DEF Rising, ToSet

LEMMA FeedStarts == FeedInit => FeedIInv
<1>. SUFFICES ASSUME FeedInit PROVE FeedIInv
  OBVIOUS
<1>1. FeedTyped
  <2>1. n \in 0..MaxEvent /\ endAt \in 0..n /\ first \in 1..(n + 1) /\ faults \in 0..MaxFault
    BY FeedAssumption, Counts DEF FeedInit
  <2>2. todo \in [Reader -> Seq(Id)] /\ \A f \in Reader : ToSet(todo[f]) \subseteq 1..n
    BY NothingRises DEF FeedInit
  <2>3. /\ cursor \in [Reader -> Nat] /\ sure \in [Reader -> BOOLEAN] /\ seen \in [Reader -> SUBSET Id]
        /\ MissedTyped /\ place \in [Reader -> Place]
    BY DEF FeedInit, Place, MissedTyped
  <2>4. \A f \in Reader : cursor[f] <= n /\ seen[f] \subseteq 1..n
    BY DEF FeedInit
  <2>5. finished \in BOOLEAN /\ table \subseteq 1..n /\ writing \subseteq 1..n /\ gone \subseteq 1..n
    BY DEF FeedInit
  <2>. QED BY <2>1, <2>2, <2>3, <2>4, <2>5 DEF FeedTyped
<1>2. Kept
  BY DEF FeedInit, Kept
<1>3. ASSUME NEW f \in Reader PROVE Settled(f)
  <2>1. /\ place[f] = "away" /\ cursor[f] = 0 /\ todo[f] = <<>>
    BY DEF FeedInit
  <2>2. ~Unbounded(f) /\ ~Following(f)
    BY <2>1 DEF Unbounded, Following
  <2>. QED BY <2>1, <2>2, NothingRises DEF Settled, Reads
<1>. QED BY <1>1, <1>2, <1>3 DEF FeedIInv

LEMMA Between ==
    ASSUME NEW a \in Nat, NEW b \in Nat, NEW k \in Nat,
           NEW i \in (k + 1)..(b - 1), i \notin (k + 1)..(a - 1)
    PROVE  i \in a..(b - 1) /\ i > k
OBVIOUS

\* The log goes on: no reader moves.
LEMMA LogSettles ==
    ASSUME FeedIInv, UNCHANGED readerVars, FeedTyped', NEW f \in Reader,
           n' >= n, first' >= first, gone \subseteq gone', table \cup gone \subseteq table' \cup gone',
           passed[f] \subseteq passed'[f],
           Following(f) => \A i \in first..(first' - 1) : i > Reached(f) => i \in gone' \cup passed'[f]
    PROVE  Settled(f)'
<1>1. /\ place' = place /\ cursor' = cursor /\ todo' = todo /\ seen' = seen
  BY DEF readerVars
<1>2. Settled(f) /\ cursor[f] \in Nat /\ todo[f] \in Seq(Nat) /\ n \in Nat /\ n' \in Nat
      /\ first \in Nat /\ first' \in Nat
  <2>1. todo[f] \in Seq(Id) /\ Id \subseteq Nat
    BY Counts DEF FeedIInv, FeedTyped
  <2>2. todo[f] \in Seq(Nat)
    BY <2>1, SeqMonotonic
  <2>. QED BY <2>2, Counts DEF FeedIInv, FeedTyped
<1>3. Unbounded(f)' = Unbounded(f) /\ Following(f)' = Following(f) /\ Reached(f)' = Reached(f)
  BY <1>1 DEF Unbounded, Following, Reached
<1>4. Reached(f) \in Nat
  BY <1>2, RisingBounds DEF Reached, Settled
<1>6. Following(f) => (Reached(f) + 1)..(first' - 1) \subseteq gone' \cup passed'[f]
  <2>. SUFFICES ASSUME Following(f), NEW i \in (Reached(f) + 1)..(first' - 1)
                PROVE  i \in gone' \cup passed'[f]
    OBVIOUS
  <2>1. CASE i \in (Reached(f) + 1)..(first - 1)
    BY <1>2, <2>1 DEF Settled, Known
  <2>2. CASE i \notin (Reached(f) + 1)..(first - 1)
    <3>. PICK k \in Nat : k = Reached(f)
      BY <1>4
    <3>. PICK a \in Nat, b \in Nat : a = first /\ b = first'
      BY <1>2
    <3>1. i \in (k + 1)..(b - 1) /\ i \notin (k + 1)..(a - 1)
      BY <2>2
    <3>2. i \in a..(b - 1) /\ i > k
      BY <3>1, Between
    <3>. QED BY <3>2
  <2>. QED BY <2>1, <2>2
<1>7. place[f] = "yield" =>
        (cursor[f] + 1)..Last(todo[f]) \subseteq ToSet(todo[f]) \cup gone' \cup passed'[f]
  BY <1>2 DEF Settled, Known
<1>8. 1..cursor[f] \subseteq seen[f] \cup gone' \cup passed'[f]
  BY <1>2 DEF Settled, Known
<1>9. place[f] \in Reads /\ todo[f] # <<>> =>
          \A i \in (cursor[f] + 1)..Last(todo[f]) :
             i \in ToSet(todo[f]) \/ (i < Head(todo[f]) /\ i \in table' \cup gone')
  BY <1>2 DEF Settled
<1>10. Rising(todo[f], cursor[f]) /\ (place[f] \in Quiet => todo[f] = <<>>)
       /\ (place[f] = "yield" => todo[f] # <<>>)
  BY <1>2 DEF Settled
<1>. QED BY <1>1, <1>3, <1>6, <1>7, <1>8, <1>9, <1>10 DEF Settled, Known, Quiet, Reads

--------------------------------------------------------------------------------
(* The writers keep it. *)

LEMMA MaxOfTwo ==
    ASSUME NEW a \in Int, NEW b \in Int
    PROVE  Max({a, b}) \in {a, b} /\ Max({a, b}) >= a /\ Max({a, b}) >= b
<1>1. \E x \in {a, b} : \A y \in {a, b} : x >= y
  OBVIOUS
<1>. QED BY <1>1 DEF Max

\* What Leave does, and whom it concerns.
LEMMA LeaveKinds ==
    ASSUME FeedTyped, NEW ids, ids \subseteq 1..n, Leave(ids), n' \in Nat, n <= n'
    PROVE  /\ gone \subseteq gone' /\ gone' \subseteq 1..n /\ ids \subseteq table \cup gone'
           /\ MissedTyped'
           /\ \A f \in Reader :
                 /\ passed[f] \subseteq passed'[f]
                 /\ Following(f) => \A i \in ids : i > Reached(f) => i \in passed'[f]
<1>1. 1..n \subseteq 1..n' /\ MissedTyped
  BY DEF FeedTyped
<1>. DEFINE o(f) == overrun[f] \cup {i \in ids : Following(f) /\ i > Reached(f)}
<1>2. overrun' = [f \in Reader |-> o(f)] /\ slipped' = slipped
  BY Zenon DEF Leave
<1>3. \A f \in Reader : o(f) \in SUBSET (1..n')
  BY <1>1 DEF MissedTyped
<1>4. \A f \in Reader : overrun[f] \subseteq o(f) /\ \A i \in ids : Following(f) /\ i > Reached(f) => i \in o(f)
  OBVIOUS
<1>. HIDE DEF o
<1>5. MissedTyped'
  BY <1>1, <1>2, <1>3 DEF MissedTyped
<1>6. passed' = [f \in Reader |-> o(f) \cup slipped[f]]
  BY <1>2 DEF passed
<1>7. gone \subseteq gone' /\ gone' \subseteq 1..n /\ ids \subseteq table \cup gone'
  BY DEF Leave, FeedTyped
<1>. QED BY <1>1, <1>4, <1>5, <1>6, <1>7, PassedIs

\* The shape of an unmoved reader's part.
LEMMA ReadersTyped ==
    ASSUME FeedTyped, UNCHANGED readerVars, n' \in Nat, n <= n'
    PROVE  (/\ place \in [Reader -> Place] /\ cursor \in [Reader -> Nat] /\ sure \in [Reader -> BOOLEAN]
            /\ todo \in [Reader -> Seq(Id)] /\ seen \in [Reader -> SUBSET Id]
            /\ \A f \in Reader : cursor[f] <= n /\ ToSet(todo[f]) \subseteq 1..n
                                 /\ seen[f] \subseteq 1..n)'
<1>1. n \in Nat /\ 1..n \subseteq 1..n'
  BY DEF FeedTyped
<1>2. place' = place /\ cursor' = cursor /\ sure' = sure /\ todo' = todo /\ seen' = seen
  BY DEF readerVars
<1>3. \A f \in Reader : cursor[f] \in Nat /\ cursor[f] <= n' /\ ToSet(todo[f]) \subseteq 1..n'
                        /\ seen[f] \subseteq 1..n'
  BY <1>1 DEF FeedTyped
<1>. QED BY <1>2, <1>3 DEF FeedTyped

LEMMA FinalizeKeeps == FeedIInv /\ Finalize => FeedIInv'
<1>. SUFFICES ASSUME FeedIInv, Finalize PROVE FeedIInv'
  OBVIOUS
<1>0. /\ finished' = TRUE /\ UNCHANGED <<n, endAt, first, table, writing, faults, gone, missed>>
      /\ UNCHANGED readerVars
  BY DEF Finalize
<1>1. passed' = passed /\ MissedTyped'
  BY <1>0, PassedSame DEF FeedIInv, FeedTyped
<1>2. FeedTyped'
  BY <1>0, <1>1 DEF FeedIInv, FeedTyped, readerVars
<1>3. Kept'
  BY <1>0 DEF FeedIInv, Kept
<1>4. ASSUME NEW f \in Reader PROVE Settled(f)'
  <2>1. n \in Int /\ first \in Int
    BY DEF FeedIInv, FeedTyped
  <2>. QED BY <1>0, <1>1, <1>2, <2>1, LogSettles
<1>. QED BY <1>2, <1>3, <1>4 DEF FeedIInv

LEMMA RecordKeeps == ASSUME FeedIInv, NEW i \in writing, record(i) PROVE FeedIInv'
<1>0. /\ writing' = writing \ {i} /\ UNCHANGED <<finished, n, endAt, first, gone, missed>>
      /\ UNCHANGED readerVars
      /\ table \subseteq table' /\ table' \subseteq table \cup {i} /\ faults' \in 0..MaxFault
  BY FeedAssumption DEF record, FeedIInv, FeedTyped
<1>1. passed' = passed /\ MissedTyped'
  BY <1>0, PassedSame DEF FeedIInv, FeedTyped
<1>2. FeedTyped'
  <2>1. writing' \subseteq 1..n /\ table' \subseteq 1..n
    BY <1>0 DEF FeedIInv, FeedTyped
  <2>. QED BY <1>0, <1>1, <2>1 DEF FeedIInv, FeedTyped, readerVars
<1>3. Kept'
  BY <1>0 DEF FeedIInv, Kept
<1>4. ASSUME NEW f \in Reader PROVE Settled(f)'
  <2>1. n \in Int /\ first \in Int
    BY DEF FeedIInv, FeedTyped
  <2>. QED BY <1>0, <1>1, <1>2, <2>1, LogSettles
<1>. QED BY <1>2, <1>3, <1>4 DEF FeedIInv

LEMMA ExpireKeeps == FeedIInv /\ Expire => FeedIInv'
<1>. SUFFICES ASSUME FeedIInv, Expire PROVE FeedIInv'
  OBVIOUS
<1>1. /\ first' = n + 1 /\ n' = n /\ Leave(Stream)
      /\ UNCHANGED <<finished, endAt, table, writing, faults>> /\ UNCHANGED readerVars
  BY DEF Expire
<1>2. /\ n \in Nat /\ n <= MaxEvent /\ first \in Nat /\ first' \in Nat /\ first' >= first
      /\ Stream \subseteq 1..n /\ FeedTyped
  BY <1>1 DEF FeedIInv, FeedTyped, Stream
<1>3. /\ gone \subseteq gone' /\ gone' \subseteq 1..n /\ Stream \subseteq table \cup gone'
      /\ MissedTyped'
      /\ \A f \in Reader :
            /\ passed[f] \subseteq passed'[f]
            /\ Following(f) => \A i \in Stream : i > Reached(f) => i \in passed'[f]
  <2>1. n' \in Nat /\ n <= n'
    BY <1>1, <1>2
  <2>2. FeedTyped /\ Stream \subseteq 1..n /\ Leave(Stream)
    BY <1>1, <1>2
  <2>. PICK ids : ids = Stream
    OBVIOUS
  <2>3. ids \subseteq 1..n /\ Leave(ids)
    BY <2>2
  <2>. QED BY <2>1, <2>2, <2>3, LeaveKinds
<1>4. FeedTyped'
  <2>1. finished' \in BOOLEAN /\ n' \in 0..MaxEvent /\ endAt' \in 0..n' /\ first' \in 1..(n' + 1)
        /\ table' \subseteq 1..n' /\ writing' \subseteq 1..n' /\ faults' \in 0..MaxFault /\ gone' \subseteq 1..n'
    BY <1>1, <1>2, <1>3 DEF FeedTyped
  <2>. QED BY <1>1, <1>2, <1>3, <2>1, ReadersTyped DEF FeedTyped
<1>5. Kept'
  <2>1. \A i \in 1..(first' - 1) : i \in 1..(first - 1) \/ i \in Stream
    BY <1>1, <1>2 DEF Stream
  <2>2. 1..(first - 1) \subseteq table \cup gone
    BY DEF FeedIInv, Kept
  <2>3. \A i \in 1..(first' - 1) : i \in table \cup gone'
    BY <1>3, <2>1, <2>2
  <2>. QED BY <1>1, <2>3 DEF Kept
<1>6. ASSUME NEW f \in Reader PROVE Settled(f)'
  <2>1. \A i \in first..(first' - 1) : i \in Stream
    BY <1>1, <1>2 DEF Stream
  <2>2. Following(f) => \A i \in first..(first' - 1) : i > Reached(f) => i \in gone' \cup passed'[f]
    BY <1>3, <2>1
  <2>. QED BY <1>1, <1>2, <1>3, <1>4, <2>2, LogSettles
<1>. QED BY <1>4, <1>5, <1>6 DEF FeedIInv

LEMMA PurgeKeeps == FeedIInv /\ purge_event => FeedIInv'
<1>. SUFFICES ASSUME FeedIInv, purge_event PROVE FeedIInv'
  OBVIOUS
<1>1. PICK batch \in SUBSET table : table' = table \ batch /\ gone' = gone \cup batch
  BY DEF purge_event
<1>2. /\ UNCHANGED <<finished, n, endAt, first, writing, faults, missed>> /\ UNCHANGED readerVars
      /\ FeedTyped /\ n \in Nat /\ first \in Nat
      /\ passed' = passed /\ MissedTyped'
  BY PassedSame DEF purge_event, FeedIInv, FeedTyped
<1>3. table \cup gone \subseteq table' \cup gone' /\ gone \subseteq gone'
      /\ table' \subseteq 1..n /\ gone' \subseteq 1..n
  BY <1>1, <1>2 DEF FeedTyped
<1>4. FeedTyped'
  BY <1>2, <1>3 DEF FeedTyped, readerVars
<1>5. Kept'
  BY <1>2, <1>3 DEF FeedIInv, Kept
<1>6. ASSUME NEW f \in Reader PROVE Settled(f)'
  BY <1>2, <1>3, <1>4, LogSettles
<1>. QED BY <1>4, <1>5, <1>6 DEF FeedIInv

LEMMA Stretches ==
    ASSUME NEW m \in Nat, NEW a \in 1..(m + 1), NEW b \in 1..(m + 1)
    PROVE  a..(b - 1) \subseteq 1..m /\ \A i \in 1..(b - 1) : i \in 1..(a - 1) \/ i \in a..(b - 1)
OBVIOUS

LEMMA AppendKeeps == FeedIInv /\ append => FeedIInv'
<1>. SUFFICES ASSUME FeedIInv, append PROVE FeedIInv'
  OBVIOUS
<1>1. /\ n < MaxEvent /\ n' = n + 1 /\ endAt' \in {endAt, n + 1}
      /\ first' = Max({first, n + 2 - MaxLength})
      /\ writing' = writing \cup {n + 1} /\ Leave(first..(first' - 1))
      /\ UNCHANGED <<finished, table, faults>> /\ UNCHANGED readerVars
  BY DEF append
<1>2. /\ FeedTyped /\ n \in Nat /\ first \in 1..(n + 1) /\ n' \in Nat /\ n <= n' /\ n' \in 0..MaxEvent
  BY <1>1, Counts DEF FeedIInv, FeedTyped
<1>3. first' \in 1..(n + 1) /\ first' >= first
  <2>1. first \in Int /\ n + 2 - MaxLength \in Int /\ n + 2 - MaxLength <= n + 1
    BY <1>2, Counts
  <2>2. first' \in {first, n + 2 - MaxLength} /\ first' >= first
    BY <1>1, <2>1, MaxOfTwo
  <2>. QED BY <1>2, <2>1, <2>2
<1>4. /\ first..(first' - 1) \subseteq 1..n
      /\ \A i \in 1..(first' - 1) : i \in 1..(first - 1) \/ i \in first..(first' - 1)
  <2>. PICK m \in Nat : m = n
    BY <1>2
  <2>. PICK a \in 1..(m + 1), b \in 1..(m + 1) : a = first /\ b = first'
    BY <1>2, <1>3
  <2>1. a..(b - 1) \subseteq 1..m /\ \A i \in 1..(b - 1) : i \in 1..(a - 1) \/ i \in a..(b - 1)
    BY Stretches
  <2>. QED BY <2>1
<1>5. /\ gone \subseteq gone' /\ gone' \subseteq 1..n /\ first..(first' - 1) \subseteq table \cup gone'
      /\ MissedTyped'
      /\ \A f \in Reader :
            /\ passed[f] \subseteq passed'[f]
            /\ Following(f) => \A i \in first..(first' - 1) : i > Reached(f) => i \in passed'[f]
  BY <1>1, <1>2, <1>4, LeaveKinds
<1>6. FeedTyped'
  <2>1. finished' \in BOOLEAN /\ n' \in 0..MaxEvent /\ endAt' \in 0..n' /\ first' \in 1..(n' + 1)
        /\ table' \subseteq 1..n' /\ writing' \subseteq 1..n' /\ faults' \in 0..MaxFault /\ gone' \subseteq 1..n'
    <3>1. 1..n \subseteq 1..n' /\ n + 1 \in 1..n' /\ 0..n \subseteq 0..n' /\ n + 1 \in 0..n'
      BY <1>1, <1>2
    <3>2. first' \in 1..(n' + 1)
      BY <1>1, <1>2, <1>3
    <3>. QED BY <1>1, <1>2, <1>5, <3>1, <3>2 DEF FeedTyped
  <2>2. (/\ place \in [Reader -> Place] /\ cursor \in [Reader -> Nat] /\ sure \in [Reader -> BOOLEAN]
         /\ todo \in [Reader -> Seq(Id)] /\ seen \in [Reader -> SUBSET Id]
         /\ \A f \in Reader : cursor[f] <= n /\ ToSet(todo[f]) \subseteq 1..n
                              /\ seen[f] \subseteq 1..n)'
    BY <1>1, <1>2, ReadersTyped
  <2>. QED BY <1>5, <2>1, <2>2 DEF FeedTyped
<1>7. Kept'
  <2>1. \A i \in 1..(first' - 1) : i \in 1..(first - 1) \/ i \in first..(first' - 1)
    BY <1>4
  <2>2. 1..(first - 1) \subseteq table \cup gone
    BY DEF FeedIInv, Kept
  <2>3. \A i \in 1..(first' - 1) : i \in table \cup gone'
    BY <1>5, <2>1, <2>2
  <2>. QED BY <1>1, <2>3 DEF Kept
<1>8. ASSUME NEW f \in Reader PROVE Settled(f)'
  <2>1. Following(f) => \A i \in first..(first' - 1) : i > Reached(f) => i \in gone' \cup passed'[f]
    BY <1>5
  <2>. QED BY <1>1, <1>2, <1>3, <1>5, <1>6, <2>1, LogSettles
<1>. QED BY <1>6, <1>7, <1>8 DEF FeedIInv

--------------------------------------------------------------------------------
(* The readers keep it. *)

\* Settled, of a reader at p with the cursor c that has q to send, has seen s and missed o,
\* where T are archived, G are gone and the Stream starts at b.
Fine(p, c, q, s, o, T, G, b) ==
    /\ Rising(q, c)
    /\ p \in Quiet => q = <<>>
    /\ p = "yield" => q # <<>>
    /\ p \in Reads /\ q # <<>> =>
          \A i \in (c + 1)..Last(q) : i \in ToSet(q) \/ (i < Head(q) /\ i \in T \cup G)
    /\ p = "yield" => (c + 1)..Last(q) \subseteq ToSet(q) \cup G \cup o
    /\ p \in {"yield", "check", "ask", "wait"} \/ (p = "archive" /\ q # <<>>) =>
          ((IF q = <<>> THEN c ELSE Last(q)) + 1)..(b - 1) \subseteq G \cup o
    /\ 1..c \subseteq s \cup G \cup o

LEMMA SettledIsFine ==
    ASSUME NEW f
    PROVE  Settled(f) <=> Fine(place[f], cursor[f], todo[f], seen[f], passed[f], table, gone, first)
<1>1. Unbounded(f) <=> place[f] \in Reads /\ todo[f] = <<>>
  BY DEF Unbounded, Reads
<1>2. Following(f) <=> \/ place[f] \in {"yield", "check", "ask", "wait"}
                       \/ place[f] = "archive" /\ todo[f] # <<>>
  BY DEF Following, Unbounded
<1>. QED BY <1>1, <1>2 DEF Settled, Fine, Known, Reached

LEMMA SettledIsFineNext ==
    ASSUME NEW f
    PROVE  Settled(f)' <=> Fine(place'[f], cursor'[f], todo'[f], seen'[f], passed'[f],
                               table', gone', first')
<1>1. Unbounded(f)' <=> place'[f] \in Reads /\ todo'[f] = <<>>
  BY DEF Unbounded, Reads
<1>2. Following(f)' <=> \/ place'[f] \in {"yield", "check", "ask", "wait"}
                        \/ place'[f] = "archive" /\ todo'[f] # <<>>
  BY DEF Following, Unbounded
<1>. QED BY <1>1, <1>2 DEF Settled, Fine, Known, Reached

LEMMA OneReader ==
    ASSUME FeedIInv, NEW f \in Reader, UNCHANGED <<logVars, gone>>,
           NEW p \in Place, NEW c \in Nat, NEW q \in Seq(Id), NEW s \in SUBSET (1..n), NEW o \in SUBSET (1..n),
           place' = [place EXCEPT ![f] = p], cursor' = [cursor EXCEPT ![f] = c],
           todo' = [todo EXCEPT ![f] = q], seen' = [seen EXCEPT ![f] = s],
           passed' = [passed EXCEPT ![f] = o], MissedTyped', sure' \in [Reader -> BOOLEAN],
           c <= n, ToSet(q) \subseteq 1..n, Fine(p, c, q, s, o, table, gone, first)
    PROVE  FeedIInv'
<1>1. /\ finished' = finished /\ n' = n /\ endAt' = endAt /\ first' = first /\ table' = table
      /\ writing' = writing /\ faults' = faults /\ gone' = gone
  BY DEF logVars
<1>2. /\ place'[f] = p /\ cursor'[f] = c /\ todo'[f] = q /\ seen'[f] = s /\ passed'[f] = o
      /\ \A g \in Reader : g # f => /\ place'[g] = place[g] /\ cursor'[g] = cursor[g] /\ todo'[g] = todo[g]
                                    /\ seen'[g] = seen[g] /\ passed'[g] = passed[g]
  BY PassedIs DEF FeedIInv, FeedTyped
<1>3. 1..n \subseteq Id
  BY Counts DEF FeedIInv, FeedTyped, Id
<1>4. FeedTyped'
  <2>1. /\ place' \in [Reader -> Place] /\ cursor' \in [Reader -> Nat]
        /\ todo' \in [Reader -> Seq(Id)]
    BY DEF FeedIInv, FeedTyped
  <2>2. seen' \in [Reader -> SUBSET Id]
    BY <1>3 DEF FeedIInv, FeedTyped
  <2>3. \A g \in Reader : cursor'[g] <= n /\ ToSet(todo'[g]) \subseteq 1..n
                          /\ seen'[g] \subseteq 1..n
    BY <1>2 DEF FeedIInv, FeedTyped
  <2>4. /\ finished \in BOOLEAN /\ n \in 0..MaxEvent /\ endAt \in 0..n /\ first \in 1..n + 1
        /\ table \subseteq 1..n /\ writing \subseteq 1..n /\ faults \in 0..MaxFault /\ gone \subseteq 1..n
    BY DEF FeedIInv, FeedTyped
  <2>. QED BY <1>1, <2>1, <2>2, <2>3, <2>4 DEF FeedTyped
<1>5. Kept'
  BY <1>1 DEF FeedIInv, Kept
<1>6. ASSUME NEW g \in Reader PROVE Settled(g)'
  <2>1. Settled(g)' <=> Fine(place'[g], cursor'[g], todo'[g], seen'[g], passed'[g], table, gone, first)
    BY <1>1, SettledIsFineNext
  <2>2. CASE g = f
    BY <1>2, <2>1, <2>2
  <2>3. CASE g # f
    <3>1. Fine(place[g], cursor[g], todo[g], seen[g], passed[g], table, gone, first)
      BY SettledIsFine DEF FeedIInv
    <3>. QED BY <1>2, <2>1, <2>3, <3>1
  <2>. QED BY <2>2, <2>3
<1>. QED BY <1>4, <1>5, <1>6 DEF FeedIInv

LEMMA ReaderKinds ==
    ASSUME FeedIInv, NEW f \in Reader
    PROVE  /\ n \in Nat /\ n \in 0..MaxEvent /\ first \in 1..(n + 1) /\ cursor[f] \in Nat /\ cursor[f] <= n
           /\ todo[f] \in Seq(Id) /\ todo[f] \in Seq(Nat) /\ ToSet(todo[f]) \subseteq 1..n
           /\ seen[f] \in SUBSET (1..n) /\ passed[f] \in SUBSET (1..n) /\ 1..n \subseteq Id
           /\ gone \subseteq 1..n /\ table \subseteq 1..n
           /\ sure \in [Reader -> BOOLEAN] /\ place[f] \in Place
           /\ 1..(first - 1) \subseteq table \cup gone
           /\ Fine(place[f], cursor[f], todo[f], seen[f], passed[f], table, gone, first)
           /\ place = [place EXCEPT ![f] = place[f]] /\ cursor = [cursor EXCEPT ![f] = cursor[f]]
           /\ todo = [todo EXCEPT ![f] = todo[f]] /\ seen = [seen EXCEPT ![f] = seen[f]]
           /\ passed = [passed EXCEPT ![f] = passed[f]] /\ MissedTyped
<1>1. /\ n \in Nat /\ n \in 0..MaxEvent /\ first \in 1..(n + 1) /\ cursor[f] \in Nat /\ cursor[f] <= n
      /\ todo[f] \in Seq(Id) /\ ToSet(todo[f]) \subseteq 1..n
      /\ seen[f] \in SUBSET (1..n) /\ passed[f] \in SUBSET (1..n)
      /\ gone \subseteq 1..n /\ table \subseteq 1..n
      /\ sure \in [Reader -> BOOLEAN] /\ place[f] \in Place /\ MissedTyped
  BY Counts, PassedIs DEF FeedIInv, FeedTyped
<1>2. todo[f] \in Seq(Nat)
  BY <1>1, Counts, SeqMonotonic
<1>3. 1..n \subseteq Id
  BY <1>1, Counts DEF Id
<1>4. 1..(first - 1) \subseteq table \cup gone
  BY DEF FeedIInv, Kept
<1>5. Fine(place[f], cursor[f], todo[f], seen[f], passed[f], table, gone, first)
  BY SettledIsFine DEF FeedIInv
<1>6. /\ place = [place EXCEPT ![f] = place[f]] /\ cursor = [cursor EXCEPT ![f] = cursor[f]]
      /\ todo = [todo EXCEPT ![f] = todo[f]] /\ seen = [seen EXCEPT ![f] = seen[f]]
      /\ passed = [passed EXCEPT ![f] = passed[f]]
  BY PassedIs DEF FeedIInv, FeedTyped
<1>. QED BY <1>1, <1>2, <1>3, <1>4, <1>5, <1>6

LEMMA WithinSet ==
    ASSUME NEW A, NEW q \in Seq(A), NEW B, ToSet(q) \subseteq B
    PROVE  q \in Seq(B)
<1>1. \A j \in 1..Len(q) : q[j] \in B
  BY DEF ToSet
<1>. QED BY <1>1

\* A set of ids listed in order is one a reader can send.
LEMMA ListedRises ==
    ASSUME n \in 0..MaxEvent, NEW S, NEW c, \A i \in S : i > c
    PROVE  /\ InOrder(S) \in Seq(Id) /\ InOrder(S) \in Seq(Nat) /\ Rising(InOrder(S), c)
           /\ ToSet(InOrder(S)) = S \cap (1..n)
<1>1. n \in Nat /\ 1..n \subseteq Id /\ 1..n \subseteq Nat
  BY Counts DEF Id
<1>2. /\ InOrder(S) \in Seq(1..n) /\ ToSet(InOrder(S)) = S \cap (1..n)
      /\ \A i, j \in DOMAIN InOrder(S) : i < j => InOrder(S)[i] < InOrder(S)[j]
  BY <1>1, InOrderSorted
<1>3. InOrder(S) \in Seq(Id) /\ InOrder(S) \in Seq(Nat)
  BY <1>1, <1>2, SeqMonotonic
<1>4. \A j \in DOMAIN InOrder(S) : InOrder(S)[j] > c
  BY <1>2 DEF ToSet
<1>. QED BY <1>2, <1>3, <1>4 DEF Rising

LEMMA MissedSame ==
    ASSUME FeedIInv, UNCHANGED <<logVars, missed>>
    PROVE  passed' = passed /\ MissedTyped'
BY PassedSame DEF FeedIInv, FeedTyped, logVars

\* A request comes, or the page starts again.
LEMMA StreamKeeps == ASSUME FeedIInv, NEW f \in Reader, stream_events(f) PROVE FeedIInv'
<1>1. /\ place[f] = "away" /\ place' = [place EXCEPT ![f] = "read"]
      /\ sure' = [sure EXCEPT ![f] = finished] /\ UNCHANGED <<logVars, gone>>
      /\ cursor' = cursor /\ todo' = todo /\ seen' = seen /\ passed' = passed /\ MissedTyped'
  BY MissedSame DEF stream_events, Go, Connected
<1>2. sure' \in [Reader -> BOOLEAN]
  BY <1>1 DEF FeedIInv, FeedTyped
<1>3. todo[f] = <<>> /\ Fine("read", cursor[f], todo[f], seen[f], passed[f], table, gone, first)
  BY <1>1, ReaderKinds DEF Fine, Quiet, Reads
<1>4. "read" \in Place
  BY DEF Place
<1>5. /\ cursor' = [cursor EXCEPT ![f] = cursor[f]] /\ todo' = [todo EXCEPT ![f] = todo[f]]
      /\ seen' = [seen EXCEPT ![f] = seen[f]] /\ passed' = [passed EXCEPT ![f] = passed[f]]
  BY <1>1, ReaderKinds
<1>6. /\ cursor[f] \in Nat /\ cursor[f] <= n /\ todo[f] \in Seq(Id) /\ ToSet(todo[f]) \subseteq 1..n
      /\ seen[f] \in SUBSET (1..n) /\ passed[f] \in SUBSET (1..n)
  BY ReaderKinds
<1>7. PICK c \in Nat, q \in Seq(Id), s \in SUBSET (1..n), o \in SUBSET (1..n) :
        c = cursor[f] /\ q = todo[f] /\ s = seen[f] /\ o = passed[f]
  BY <1>6
<1>8. /\ cursor' = [cursor EXCEPT ![f] = c] /\ todo' = [todo EXCEPT ![f] = q]
      /\ seen' = [seen EXCEPT ![f] = s] /\ passed' = [passed EXCEPT ![f] = o]
      /\ c <= n /\ ToSet(q) \subseteq 1..n /\ UNCHANGED <<logVars, gone>>
      /\ Fine("read", c, q, s, o, table, gone, first)
  BY <1>1, <1>6, <1>7, <1>3, <1>5
<1>. QED BY <1>1, <1>2, <1>4, <1>8, OneReader

LEMMA AfreshKeeps ==
    ASSUME FeedIInv, NEW f \in Reader, NEW p \in {"read", "once"}, Afresh(f, p)
    PROVE  FeedIInv'
<1>1. /\ place[f] = "away" /\ place' = [place EXCEPT ![f] = p]
      /\ sure' = [sure EXCEPT ![f] = finished] /\ UNCHANGED <<logVars, gone>>
      /\ cursor' = [cursor EXCEPT ![f] = 0] /\ todo' = todo /\ seen' = [seen EXCEPT ![f] = {}]
      /\ overrun' = [overrun EXCEPT ![f] = {}] /\ slipped' = [slipped EXCEPT ![f] = {}]
  BY DEF Afresh, Go, Connected
<1>0. passed' = [passed EXCEPT ![f] = {}] /\ MissedTyped'
  <2>1. {} \in SUBSET (1..n) /\ n' = n /\ MissedTyped /\ {} \cup {} = {}
    BY <1>1, ReaderKinds DEF logVars
  <2>2. passed' = [passed EXCEPT ![f] = {} \cup {}] /\ MissedTyped'
    BY <1>1, <2>1, PassedSets
  <2>. QED BY <2>1, <2>2
<1>2. sure' \in [Reader -> BOOLEAN]
  BY <1>1 DEF FeedIInv, FeedTyped
<1>3. todo[f] = <<>>
  BY <1>1, ReaderKinds DEF Fine, Quiet
<1>4. Fine(p, 0, <<>>, {}, {}, table, gone, first)
  <2>1. p = "read" \/ p = "once"
    OBVIOUS
  <2>2. p \notin Reads /\ p \notin {"yield", "check", "ask", "wait", "archive"}
    BY <2>1 DEF Reads
  <2>3. 1..0 = {}
    OBVIOUS
  <2>. QED BY <2>2, <2>3, NothingRises DEF Fine
<1>5. p \in Place /\ 0 \in Nat /\ 0 <= n /\ {} \in SUBSET (1..n)
  <2>1. n \in Nat
    BY ReaderKinds
  <2>2. p = "read" \/ p = "once"
    OBVIOUS
  <2>3. p \in Place
    BY <2>2 DEF Place
  <2>4. 0 \in Nat /\ 0 <= n
    BY <2>1
  <2>. QED BY <2>3, <2>4
<1>6. todo' = [todo EXCEPT ![f] = <<>>] /\ <<>> \in Seq(Id) /\ ToSet(<<>>) \subseteq 1..n
  BY <1>1, <1>3, ReaderKinds, NothingRises
<1>. QED BY <1>0, <1>1, <1>2, <1>4, <1>5, <1>6, OneReader

\* A request that ends with the cursor at c.
LEMMA ClosingKeeps ==
    ASSUME FeedIInv, NEW f \in Reader, UNCHANGED <<logVars, gone>>, NEW late, Close(f, late),
           NEW c \in Nat, c <= n, cursor' = [cursor EXCEPT ![f] = c],
           NEW s \in SUBSET (1..n), seen' = [seen EXCEPT ![f] = s],
           1..c \subseteq s \cup gone \cup passed[f] \cup late
    PROVE  FeedIInv'
<1>. DEFINE v == overrun[f] \cap 1..c
            w == (slipped[f] \cup late) \cap 1..c
            o == v \cup w
<1>1. cursor'[f] = c
  BY DEF FeedIInv, FeedTyped
<1>2. /\ place' = [place EXCEPT ![f] = "away"] /\ sure' = [sure EXCEPT ![f] = FALSE]
      /\ todo' = [todo EXCEPT ![f] = <<>>]
      /\ overrun' = [overrun EXCEPT ![f] = v] /\ slipped' = [slipped EXCEPT ![f] = w]
  BY <1>1 DEF Close, Go
<1>3. sure' \in [Reader -> BOOLEAN]
  BY <1>2 DEF FeedIInv, FeedTyped
<1>4. v \in SUBSET (1..n) /\ w \in SUBSET (1..n) /\ 1..c \subseteq s \cup gone \cup o
  <2>1. n \in Nat /\ 1..c \subseteq 1..n
    BY ReaderKinds
  <2>2. passed[f] = overrun[f] \cup slipped[f]
    BY ReaderKinds, PassedIs
  <2>. QED BY <2>1, <2>2
<1>. HIDE DEF v, w
<1>7. passed' = [passed EXCEPT ![f] = o] /\ MissedTyped' /\ o \in SUBSET (1..n)
  <2>1. n' = n /\ MissedTyped
    BY ReaderKinds DEF logVars
  <2>. QED BY <1>2, <1>4, <2>1, PassedSets
<1>. HIDE DEF o
<1>5. Fine("away", c, <<>>, s, o, table, gone, first)
  BY <1>4, NothingRises DEF Fine, Reads
<1>6. "away" \in Place /\ <<>> \in Seq(Id) /\ ToSet(<<>>) \subseteq 1..n
  BY NothingRises DEF Place
<1>. QED BY <1>2, <1>3, <1>4, <1>5, <1>6, <1>7, OneReader

\* A request that moves on with nothing to send.
LEMMA MovingKeeps ==
    ASSUME FeedIInv, NEW f \in Reader, UNCHANGED <<logVars, cursor, seen, gone>>,
           place[f] \in {"check", "ask", "wait"}, NEW p \in {"check", "ask", "wait"}, Move(f, p)
    PROVE  FeedIInv'
<1>1. /\ place' = [place EXCEPT ![f] = p] /\ sure' = sure /\ todo' = todo /\ passed' = passed
      /\ cursor' = cursor /\ seen' = seen /\ MissedTyped'
  BY MissedSame DEF Move, Go
<1>2. Fine(p, cursor[f], todo[f], seen[f], passed[f], table, gone, first)
  BY ReaderKinds DEF Fine, Quiet, Reads
<1>3. p \in Place
  BY DEF Place
<1>4. /\ cursor' = [cursor EXCEPT ![f] = cursor[f]] /\ todo' = [todo EXCEPT ![f] = todo[f]]
      /\ seen' = [seen EXCEPT ![f] = seen[f]] /\ passed' = [passed EXCEPT ![f] = passed[f]]
  BY <1>1, ReaderKinds
<1>5. /\ cursor[f] \in Nat /\ cursor[f] <= n /\ todo[f] \in Seq(Id) /\ ToSet(todo[f]) \subseteq 1..n
      /\ seen[f] \in SUBSET (1..n) /\ passed[f] \in SUBSET (1..n) /\ sure' \in [Reader -> BOOLEAN]
  BY <1>1, ReaderKinds
<1>6. PICK c \in Nat, q \in Seq(Id), s \in SUBSET (1..n), o \in SUBSET (1..n) :
        c = cursor[f] /\ q = todo[f] /\ s = seen[f] /\ o = passed[f]
  BY <1>5
<1>7. /\ cursor' = [cursor EXCEPT ![f] = c] /\ todo' = [todo EXCEPT ![f] = q]
      /\ seen' = [seen EXCEPT ![f] = s] /\ passed' = [passed EXCEPT ![f] = o]
      /\ c <= n /\ ToSet(q) \subseteq 1..n /\ UNCHANGED <<logVars, gone>>
      /\ Fine(p, c, q, s, o, table, gone, first)
  BY <1>1, <1>5, <1>6, <1>2, <1>4
<1>. QED BY <1>1, <1>3, <1>5, <1>7, OneReader

\* The connection breaks, or the stream is closed, where the page stands.
LEMMA LeavingKeeps ==
    ASSUME FeedIInv, NEW f \in Reader, UNCHANGED <<logVars, cursor, seen, gone>>, Close(f, {})
    PROVE  FeedIInv'
<1>1. 1..cursor[f] \subseteq seen[f] \cup gone \cup passed[f] \cup {}
  BY ReaderKinds DEF Fine
<1>2. /\ cursor[f] \in Nat /\ cursor[f] <= n /\ cursor' = [cursor EXCEPT ![f] = cursor[f]]
      /\ seen[f] \in SUBSET (1..n) /\ seen' = [seen EXCEPT ![f] = seen[f]]
  BY ReaderKinds
<1>. PICK c \in Nat, s \in SUBSET (1..n) : c = cursor[f] /\ s = seen[f]
  BY <1>2
<1>4. PICK late : late = {}
  OBVIOUS
<1>3. /\ c <= n /\ cursor' = [cursor EXCEPT ![f] = c] /\ seen' = [seen EXCEPT ![f] = s]
      /\ 1..c \subseteq s \cup gone \cup passed[f] \cup late /\ Close(f, late)
      /\ UNCHANGED <<logVars, gone>>
  BY <1>1, <1>2, <1>4
<1>. QED BY <1>3, ClosingKeeps

LEMMA EndedKeeps == ASSUME FeedIInv, NEW f \in Reader, _ended(f) PROVE FeedIInv'
<1>1. place[f] = "check" /\ UNCHANGED <<logVars, cursor, seen, gone>>
      /\ (Move(f, "ask") \/ Close(f, {}) \/ Move(f, "wait"))
  BY DEF _ended
<1>. QED BY <1>1, MovingKeeps, LeavingKeeps

LEMMA LastKeeps == ASSUME FeedIInv, NEW f \in Reader, last(f) PROVE FeedIInv'
<1>1. place[f] = "ask" /\ UNCHANGED <<logVars, cursor, seen, gone>> /\ (Close(f, {}) \/ Move(f, "wait"))
  BY DEF last
<1>. QED BY <1>1, MovingKeeps, LeavingKeeps

\* What the Stream has beyond the cursor, in order.
LEMMA StreamListed ==
    ASSUME FeedIInv, NEW f \in Reader, NEW q, q = InOrder(Beyond(Stream, f))
    PROVE  /\ q \in Seq(Id) /\ q \in Seq(Nat) /\ Rising(q, cursor[f]) /\ ToSet(q) \subseteq 1..n
           /\ \A i \in (cursor[f] + 1)..n : i \in ToSet(q) \/ i \in 1..(first - 1)
           /\ q = <<>> => ToSet(q) = {}
           /\ q # <<>> => /\ first <= Head(q) /\ first <= Last(q) /\ Head(q) \in Nat
                          /\ Last(q) \in Nat /\ Last(q) <= n
<1>. PICK c \in Nat, b \in Nat, m \in Nat :
        c = cursor[f] /\ b = first /\ m = n /\ m \in 0..MaxEvent /\ 1 <= b
  BY ReaderKinds
<1>. DEFINE S == Beyond(Stream, f)
<1>1. \A i : i \in S <=> i \in b..m /\ i > c
  BY DEF Beyond, Stream
<1>. HIDE DEF S
<1>2. q \in Seq(Id) /\ q \in Seq(Nat) /\ Rising(q, c) /\ ToSet(q) = S \cap (1..m)
  BY <1>1, ListedRises DEF S
<1>3. \A i \in (c + 1)..m : i \in ToSet(q) \/ i \in 1..(b - 1)
  <2>. TAKE i \in (c + 1)..m
  <2>1. i \in b..m \/ i \in 1..(b - 1)
    OBVIOUS
  <2>2. i > c /\ i \in 1..m
    OBVIOUS
  <2>. QED BY <1>1, <1>2, <2>1, <2>2
<1>4. q = <<>> => ToSet(q) = {}
  BY NothingRises
<1>5. ASSUME q # <<>>
      PROVE  b <= Head(q) /\ b <= Last(q) /\ Head(q) \in Nat /\ Last(q) \in Nat /\ Last(q) <= m
  <2>1. Head(q) \in ToSet(q) /\ Last(q) \in ToSet(q) /\ Head(q) \in Nat /\ Last(q) \in Nat
    BY <1>2, <1>5, RisingBounds
  <2>2. \A x \in ToSet(q) : x \in b..m
    BY <1>1, <1>2
  <2>. QED BY <2>1, <2>2
<1>. QED BY <1>2, <1>3, <1>4, <1>5

LEMMA ReadKeeps == ASSUME FeedIInv, NEW f \in Reader, read(f) PROVE FeedIInv'
<1>. DEFINE p == IF place[f] = "read" THEN "archive" ELSE "once archive"
<1>1. PICK q : /\ q = InOrder(Beyond(Stream, f)) /\ todo' = [todo EXCEPT ![f] = q]
               /\ place' = [place EXCEPT ![f] = p]
               /\ UNCHANGED <<logVars, gone>> /\ cursor' = cursor /\ sure' = sure
               /\ seen' = seen /\ passed' = passed /\ MissedTyped'
  BY MissedSame DEF read, Go
<1>2. /\ q \in Seq(Id) /\ q \in Seq(Nat) /\ Rising(q, cursor[f]) /\ ToSet(q) \subseteq 1..n
      /\ \A i \in (cursor[f] + 1)..n : i \in ToSet(q) \/ i \in 1..(first - 1)
      /\ q = <<>> => ToSet(q) = {}
      /\ q # <<>> => /\ first <= Head(q) /\ first <= Last(q) /\ Head(q) \in Nat
                     /\ Last(q) \in Nat /\ Last(q) <= n
  BY <1>1, StreamListed
<1>3. p \in Reads /\ p \in Place /\ p \notin Quiet /\ p # "yield"
      /\ p \notin {"yield", "check", "ask", "wait"}
  BY DEF Reads, Place, Quiet
<1>. HIDE DEF p
<1>. PICK c \in Nat, s \in SUBSET (1..n), o \in SUBSET (1..n) :
        c = cursor[f] /\ s = seen[f] /\ o = passed[f] /\ c <= n
  BY ReaderKinds
<1>4. 1..(first - 1) \subseteq table \cup gone /\ first \in Nat /\ n \in Nat
  BY ReaderKinds
<1>6. ASSUME q # <<>>, NEW i \in (c + 1)..Last(q)
      PROVE  i \in ToSet(q) \/ (i < Head(q) /\ i \in table \cup gone)
  <2>1. i \in (c + 1)..n
    BY <1>2, <1>4, <1>6
  <2>2. i \in 1..(first - 1) => i < Head(q)
    BY <1>2, <1>4, <1>6
  <2>. QED BY <1>2, <1>4, <2>1, <2>2
<1>7. q # <<>> => (Last(q) + 1)..(first - 1) = {}
  BY <1>2, <1>4
<1>8. 1..c \subseteq s \cup gone \cup o
  BY ReaderKinds DEF Fine
<1>9. Fine(p, c, q, s, o, table, gone, first)
  BY <1>2, <1>3, <1>6, <1>7, <1>8 DEF Fine
<1>10. /\ cursor' = [cursor EXCEPT ![f] = c] /\ seen' = [seen EXCEPT ![f] = s]
       /\ passed' = [passed EXCEPT ![f] = o] /\ sure' \in [Reader -> BOOLEAN]
  BY <1>1, ReaderKinds
<1>. QED BY <1>1, <1>2, <1>3, <1>9, <1>10, OneReader

LEMMA FollowKeeps == ASSUME FeedIInv, NEW f \in Reader, follow(f) PROVE FeedIInv'
<1>1. PICK q : /\ q = InOrder(Beyond(Stream, f)) /\ todo' = [todo EXCEPT ![f] = q]
               /\ place[f] = "wait"
               /\ place' = [place EXCEPT ![f] = IF q = <<>> THEN "check" ELSE "yield"]
               /\ UNCHANGED <<logVars, gone>> /\ cursor' = cursor /\ sure' = sure
               /\ seen' = seen /\ passed' = passed /\ MissedTyped'
  BY MissedSame DEF follow, Go
<1>. PICK p : p = IF q = <<>> THEN "check" ELSE "yield"
  OBVIOUS
<1>2. /\ q \in Seq(Id) /\ q \in Seq(Nat) /\ Rising(q, cursor[f]) /\ ToSet(q) \subseteq 1..n
      /\ \A i \in (cursor[f] + 1)..n : i \in ToSet(q) \/ i \in 1..(first - 1)
      /\ q # <<>> => /\ first <= Last(q) /\ Last(q) \in Nat /\ Last(q) <= n
  BY <1>1, StreamListed
<1>3. /\ p \in Place /\ p \notin Reads /\ (p \in Quiet <=> q = <<>>) /\ (p = "yield" <=> q # <<>>)
      /\ p # "archive"
  BY DEF Reads, Place, Quiet
<1>. PICK c \in Nat, s \in SUBSET (1..n), o \in SUBSET (1..n) :
        c = cursor[f] /\ s = seen[f] /\ o = passed[f] /\ c <= n
  BY ReaderKinds
<1>4. first \in Nat /\ n \in Nat /\ 1..c \subseteq s \cup gone \cup o
      /\ (c + 1)..(first - 1) \subseteq gone \cup o
  <2>1. todo[f] = <<>>
    BY <1>1, ReaderKinds DEF Fine, Quiet
  <2>. QED BY <1>1, <2>1, ReaderKinds DEF Fine
<1>5. ASSUME q # <<>>, NEW i \in (c + 1)..Last(q) PROVE i \in ToSet(q) \cup gone \cup o
  <2>1. i \in (c + 1)..n
    BY <1>2, <1>4, <1>5
  <2>2. i \in 1..(first - 1) => i \in (c + 1)..(first - 1)
    BY <1>4
  <2>. QED BY <1>2, <1>4, <2>1, <2>2
<1>6. q # <<>> => (Last(q) + 1)..(first - 1) = {}
  BY <1>2, <1>4
<1>7. Fine(p, c, q, s, o, table, gone, first)
  BY <1>2, <1>3, <1>4, <1>5, <1>6 DEF Fine
<1>8. /\ cursor' = [cursor EXCEPT ![f] = c] /\ seen' = [seen EXCEPT ![f] = s]
      /\ passed' = [passed EXCEPT ![f] = o] /\ sure' \in [Reader -> BOOLEAN]
  BY <1>1, ReaderKinds
<1>. QED BY <1>1, <1>2, <1>3, <1>7, <1>8, OneReader

\* The archive's part in front of the Stream's.
LEMMA ArchiveListed ==
    ASSUME FeedIInv, NEW f \in Reader, place[f] \in Reads,
           NEW all, all = InOrder(Earlier(f)) \o todo[f]
    PROVE  /\ all \in Seq(Id) /\ all \in Seq(Nat) /\ Rising(all, cursor[f]) /\ ToSet(all) \subseteq 1..n
           /\ all # <<>> => (cursor[f] + 1)..Last(all)
                               \subseteq ToSet(all) \cup gone \cup passed[f] \cup Overtaken(f)
           /\ place[f] = "archive" =>
                ((IF all = <<>> THEN cursor[f] ELSE Last(all)) + 1)..(first - 1) \subseteq gone \cup passed[f]
<1>. PICK c \in Nat, q \in Seq(Nat), o \in SUBSET (1..n), m \in Nat, b \in Nat :
        /\ c = cursor[f] /\ q = todo[f] /\ o = passed[f] /\ m = n /\ b = first
        /\ b <= m + 1 /\ q \in Seq(Id) /\ m \in 0..MaxEvent
  BY ReaderKinds
<1>. DEFINE S == Earlier(f)
            e == InOrder(S)
            h == Overtaken(f)
<1>0. q = <<>> => \A i \in b..m, k \in table : i > c /\ i < k /\ i \notin table => i \in h
  BY DEF Overtaken, Beyond, Stream
<1>. HIDE DEF h
<1>1. \A i : i \in S <=> i \in table /\ i > c /\ (q # <<>> => i < Head(q))
  BY DEF Earlier, Beyond
<1>. HIDE DEF S
<1>2. e \in Seq(Id) /\ e \in Seq(Nat) /\ Rising(e, c) /\ ToSet(e) = S /\ S \subseteq 1..m
  <2>1. \A i \in S : i > c /\ i \in 1..m
    BY <1>1, ReaderKinds
  <2>2. e \in Seq(Id) /\ e \in Seq(Nat) /\ Rising(e, c) /\ ToSet(e) = S \cap (1..m)
    BY <2>1, ListedRises
  <2>. QED BY <2>1, <2>2
<1>. HIDE DEF e
<1>3. all = e \o q
  BY DEF e, S
<1>4. /\ Rising(q, c) /\ ToSet(q) \subseteq 1..m
      /\ q # <<>> =>
          \A i \in (c + 1)..Last(q) : i \in ToSet(q) \/ (i < Head(q) /\ i \in table \cup gone)
      /\ place[f] = "archive" /\ q # <<>> => (Last(q) + 1)..(b - 1) \subseteq gone \cup o
      /\ 1..(b - 1) \subseteq table \cup gone
  BY ReaderKinds DEF Fine
<1>5. Id \subseteq Nat
  BY Counts
<1>6. CASE q = <<>>
  <2>1. all = e
    BY <1>2, <1>3, <1>6, ConcatEmptySeq
  <2>2. ASSUME all # <<>>
        PROVE  Last(all) \in 1..m /\ \A x \in ToSet(all) : x <= Last(all)
    BY <1>2, <2>1, <2>2, RisingBounds
  <2>3. ToSet(all) = {i \in table : i > c}
    BY <1>1, <1>2, <1>6, <2>1
  <2>4. all # <<>> => (c + 1)..Last(all) \subseteq ToSet(all) \cup gone \cup o \cup h
    <3>. SUFFICES ASSUME all # <<>>, NEW i \in (c + 1)..Last(all)
                  PROVE  i \in ToSet(all) \cup gone \cup o \cup h
      OBVIOUS
    <3>. PICK l \in 1..m : l = Last(all) /\ l \in table
      BY <1>2, <2>1, <2>2, <2>3, RisingBounds
    <3>1. i \in (c + 1)..l /\ i > c /\ (i = l \/ i < l) /\ (i \in 1..(b - 1) \/ i \in b..m)
      OBVIOUS
    <3>2. CASE i \in table
      BY <2>3, <3>1, <3>2
    <3>3. CASE i \notin table /\ i \in 1..(b - 1)
      BY <1>4, <3>3
    <3>4. CASE i \notin table /\ i \in b..m
      BY <1>0, <1>6, <3>1, <3>4
    <3>. QED BY <3>1, <3>2, <3>3, <3>4
  <2>5. ((IF all = <<>> THEN c ELSE Last(all)) + 1)..(b - 1) \subseteq gone \cup o
    <3>1. CASE all = <<>>
      <4>1. ToSet(all) = {}
        BY <3>1, NothingRises
      <4>2. \A i \in (c + 1)..(b - 1) : i \in 1..(b - 1) /\ i > c
        OBVIOUS
      <4>. QED BY <1>4, <2>3, <3>1, <4>1, <4>2
    <3>2. CASE all # <<>>
      <4>. PICK l \in Nat : l = Last(all) /\ l \in ToSet(all) /\ c < l
        BY <1>2, <2>1, <3>2, RisingBounds
      <4>1. \A i \in (l + 1)..(b - 1) : i \in 1..(b - 1) /\ i > c /\ ~(i <= l)
        OBVIOUS
      <4>. QED BY <1>4, <2>2, <2>3, <3>2, <4>1
    <3>. QED BY <3>1, <3>2
  <2>6. h = Overtaken(f)
    BY DEF h
  <2>. QED BY <1>2, <2>1, <2>4, <2>5, <2>6
<1>7. CASE q # <<>>
  <2>1. \A x \in ToSet(e), y \in ToSet(q) : x < y
    <3>1. Head(q) \in Nat /\ \A y \in ToSet(q) : y \in Nat /\ Head(q) <= y
      BY <1>4, <1>7, RisingBounds
    <3>2. \A x \in ToSet(e) : x < Head(q)
      BY <1>1, <1>2, <1>7
    <3>3. \A x \in ToSet(e) : x \in Nat
      <4>1. \A x \in 1..m : x \in Nat
        OBVIOUS
      <4>. QED BY <1>2, <4>1, Zenon
    <3>. QED BY <3>1, <3>2, <3>3
  <2>2. /\ all \in Seq(Id) /\ Rising(all, c) /\ ToSet(all) = S \cup ToSet(q)
        /\ all # <<>> /\ Last(all) = Last(q)
    <3>1. /\ e \o q \in Seq(Id) /\ Rising(e \o q, c) /\ ToSet(e \o q) = ToSet(e) \cup ToSet(q)
          /\ e \o q # <<>> /\ Last(e \o q) = Last(q)
      <4>1. e \in Seq(Id) /\ q \in Seq(Id) /\ Rising(e, c) /\ Rising(q, c) /\ c \in Nat /\ q # <<>>
        BY <1>2, <1>4, <1>7
      <4>2. /\ e \o q \in Seq(Id) /\ Rising(e \o q, c) /\ ToSet(e \o q) = ToSet(e) \cup ToSet(q)
            /\ q # <<>> => e \o q # <<>> /\ Last(e \o q) = Last(q)
        BY <2>1, <4>1, RisingConcat
      <4>. QED BY <4>1, <4>2
    <3>. QED BY <1>2, <1>3, <3>1, Zenon
  <2>3. all \in Seq(Nat)
    BY <1>5, <2>2, SeqMonotonic
  <2>4. ASSUME NEW i \in (c + 1)..Last(q) PROVE i \in ToSet(all) \cup gone \cup o
    <3>1. i > c
      BY <1>4, <1>7, RisingBounds
    <3>. QED BY <1>1, <1>4, <1>7, <2>2, <3>1
  <2>. QED BY <1>2, <1>4, <1>7, <2>2, <2>3, <2>4
<1>. QED BY <1>6, <1>7

LEMMA ReadArchiveKeeps == ASSUME FeedIInv, NEW f \in Reader, ReadArchive(f) PROVE FeedIInv'
<1>1. PICK q : /\ q = InOrder(Earlier(f)) \o todo[f] /\ todo' = [todo EXCEPT ![f] = q]
               /\ place[f] = "archive"
               /\ place' = [place EXCEPT ![f] = IF q = <<>> THEN "check" ELSE "yield"]
               /\ UNCHANGED <<logVars, gone>> /\ cursor' = cursor /\ sure' = sure
               /\ seen' = seen /\ overrun' = overrun
               /\ slipped' = [slipped EXCEPT ![f] = slipped[f] \cup Overtaken(f)]
  BY DEF ReadArchive, Go
<1>. PICK p : p = IF q = <<>> THEN "check" ELSE "yield"
  OBVIOUS
<1>2. /\ q \in Seq(Id) /\ q \in Seq(Nat) /\ Rising(q, cursor[f]) /\ ToSet(q) \subseteq 1..n
      /\ q # <<>> => (cursor[f] + 1)..Last(q)
                        \subseteq ToSet(q) \cup gone \cup passed[f] \cup Overtaken(f)
      /\ ((IF q = <<>> THEN cursor[f] ELSE Last(q)) + 1)..(first - 1) \subseteq gone \cup passed[f]
  BY <1>1, ArchiveListed DEF Reads
<1>3. /\ p \in Place /\ p \notin Reads /\ (p \in Quiet <=> q = <<>>) /\ (p = "yield" <=> q # <<>>)
      /\ p # "archive"
  BY DEF Reads, Place, Quiet
<1>7. Overtaken(f) \in SUBSET (1..n)
  <2>1. first \in 1..(n + 1) /\ n \in Nat
    BY ReaderKinds
  <2>2. first..n \subseteq 1..n
    BY <2>1
  <2>. QED BY <2>2 DEF Overtaken, Beyond, Stream
<1>9. cursor[f] \in Nat /\ seen[f] \in SUBSET (1..n) /\ passed[f] \in SUBSET (1..n) /\ cursor[f] <= n
  BY ReaderKinds
<1>10. passed[f] \cup Overtaken(f) \in SUBSET (1..n)
  BY <1>7, <1>9
<1>. PICK c \in Nat, s \in SUBSET (1..n), o \in SUBSET (1..n) :
        c = cursor[f] /\ s = seen[f] /\ o = passed[f] \cup Overtaken(f) /\ c <= n
  BY <1>9, <1>10
<1>8. passed' = [passed EXCEPT ![f] = o] /\ MissedTyped'
  <2>1. /\ overrun[f] \in SUBSET (1..n) /\ slipped[f] \in SUBSET (1..n) /\ n' = n /\ MissedTyped
        /\ overrun' = [overrun EXCEPT ![f] = overrun[f]] /\ passed[f] = overrun[f] \cup slipped[f]
    BY <1>1, ReaderKinds, PassedIs DEF MissedTyped, logVars
  <2>4. PICK v \in SUBSET (1..n), w \in SUBSET (1..n) :
          v = overrun[f] /\ w = slipped[f] \cup Overtaken(f)
    BY <1>7, <2>1
  <2>2. o = v \cup w /\ overrun' = [overrun EXCEPT ![f] = v] /\ slipped' = [slipped EXCEPT ![f] = w]
    BY <1>1, <2>1, <2>4
  <2>3. passed' = [passed EXCEPT ![f] = v \cup w] /\ MissedTyped'
    <3>1. MissedTyped /\ n' = n
      BY <2>1
    <3>2. passed' = [passed EXCEPT ![f] = v \cup w]
      BY <3>1, <2>2, PassedSets
    <3>. QED BY <3>1, <3>2, <2>2, PassedSets
  <2>. QED BY <2>2, <2>3
<1>4. 1..c \subseteq s \cup gone \cup o
  BY ReaderKinds DEF Fine
<1>5. Fine(p, c, q, s, o, table, gone, first)
  BY <1>2, <1>3, <1>4 DEF Fine
<1>6. /\ cursor' = [cursor EXCEPT ![f] = c] /\ seen' = [seen EXCEPT ![f] = s]
      /\ sure' \in [Reader -> BOOLEAN]
  BY <1>1, ReaderKinds
<1>. QED BY <1>1, <1>2, <1>3, <1>5, <1>6, <1>8, OneReader

\* One event is sent.
LEMMA YieldKeeps == ASSUME FeedIInv, NEW f \in Reader, Yield(f) PROVE FeedIInv'
<1>. PICK c \in Nat, q \in Seq(Nat), s \in SUBSET (1..n), o \in SUBSET (1..n), m \in Nat, b \in Nat :
        /\ c = cursor[f] /\ q = todo[f] /\ s = seen[f] /\ o = passed[f] /\ m = n /\ b = first
        /\ q \in Seq(Id) /\ ToSet(q) \subseteq 1..m
  BY ReaderKinds
<1>. PICK i, rest : i = Head(q) /\ rest = Tail(q)
  OBVIOUS
<1>1. /\ place[f] = "yield" /\ cursor' = [cursor EXCEPT ![f] = i] /\ seen' = [seen EXCEPT ![f] = s \cup {i}]
      /\ UNCHANGED <<logVars, gone>>
      /\ \/ Close(f, {})
         \/ /\ place' = [place EXCEPT ![f] = IF rest = <<>> THEN "check" ELSE "yield"]
            /\ todo' = [todo EXCEPT ![f] = rest] /\ sure' = sure
            /\ passed' = passed /\ MissedTyped'
  BY MissedSame DEF Yield, Go
<1>2. /\ Rising(q, c) /\ q # <<>> /\ 1..c \subseteq s \cup gone \cup o
      /\ (c + 1)..Last(q) \subseteq ToSet(q) \cup gone \cup o
      /\ (Last(q) + 1)..(b - 1) \subseteq gone \cup o
  BY <1>1, ReaderKinds DEF Fine
<1>3. /\ i \in ToSet(q) /\ i \in Nat /\ Last(q) \in Nat
      /\ \A x \in ToSet(q) : x \in Nat /\ i <= x /\ x <= Last(q) /\ c < x
  BY <1>2, RisingBounds
<1>4. Id \subseteq Nat
  BY Counts
<1>5. /\ rest \in Seq(Id) /\ Rising(rest, i) /\ (rest # <<>> => Last(rest) = Last(q))
      /\ (rest = <<>> => Last(q) = i) /\ ToSet(q) = ToSet(rest) \cup {i}
  BY <1>2, <1>4, RisingTail
<1>6. i \in 1..m /\ i <= m /\ c < i /\ i <= Last(q) /\ s \cup {i} \in SUBSET (1..n)
  BY <1>3
<1>7. ASSUME NEW j \in 1..i PROVE j \in (s \cup {i}) \cup gone \cup o
  <2>1. CASE j <= c
    <3>1. j \in 1..c
      BY <2>1
    <3>. QED BY <1>2, <3>1
  <2>2. CASE j = i
    BY <2>2
  <2>3. CASE ~(j <= c) /\ j # i
    <3>1. j \in (c + 1)..Last(q) /\ ~(i <= j)
      BY <1>3, <1>6, <2>3
    <3>. QED BY <1>2, <1>3, <3>1
  <2>. QED BY <2>1, <2>2, <2>3
<1>8. CASE Close(f, {})
  <2>1. 1..i \subseteq (s \cup {i}) \cup gone \cup passed[f] \cup {}
    BY <1>7
  <2>2. i \in Nat /\ i <= n /\ s \cup {i} \in SUBSET (1..n)
    BY <1>3, <1>6
  <2>. QED BY <1>1, <1>8, <2>1, <2>2, ClosingKeeps
<1>9. CASE /\ place' = [place EXCEPT ![f] = IF rest = <<>> THEN "check" ELSE "yield"]
           /\ todo' = [todo EXCEPT ![f] = rest] /\ sure' = sure
           /\ passed' = passed /\ MissedTyped'
  <2>. PICK p : p = IF rest = <<>> THEN "check" ELSE "yield"
    OBVIOUS
  <2>1. /\ p \in Place /\ p \notin Reads /\ (p \in Quiet <=> rest = <<>>) /\ (p = "yield" <=> rest # <<>>)
        /\ p # "archive"
    BY DEF Reads, Place, Quiet
  <2>2. ASSUME rest # <<>>, NEW j \in (i + 1)..Last(rest) PROVE j \in ToSet(rest) \cup gone \cup o
    <3>. PICK l \in Nat : l = Last(q) /\ l = Last(rest)
      BY <1>3, <1>5, <2>2
    <3>0. i \in Nat /\ c < i /\ j \in (i + 1)..l
      BY <1>3, <1>6
    <3>1. j \in (c + 1)..Last(q) /\ j # i
      BY <3>0
    <3>. QED BY <1>2, <1>5, <3>1
  <2>3. ((IF rest = <<>> THEN i ELSE Last(rest)) + 1)..(b - 1) \subseteq gone \cup o
    BY <1>2, <1>5
  <2>4. Fine(p, i, rest, s \cup {i}, o, table, gone, first)
    BY <1>5, <1>7, <2>1, <2>2, <2>3 DEF Fine
  <2>5. rest \in Seq(Nat)
    BY <1>4, <1>5, SeqMonotonic
  <2>6. /\ passed' = [passed EXCEPT ![f] = o] /\ sure' \in [Reader -> BOOLEAN]
        /\ ToSet(rest) \subseteq 1..n
    BY <1>5, <1>9, ReaderKinds
  <2>. QED BY <1>1, <1>3, <1>5, <1>6, <1>9, <2>1, <2>4, <2>6, OneReader
<1>. QED BY <1>1, <1>8, <1>9

\* The replay answers with everything, its neighbouring pieces joined.
LEMMA ReplayKeeps == ASSUME FeedIInv, NEW f \in Reader, ReplayAll(f) PROVE FeedIInv'
<1>. PICK q : q = InOrder(Earlier(f)) \o todo[f]
  OBVIOUS
<1>. PICK all : all = collapse(q)
  OBVIOUS
<1>. PICK c \in Nat, s \in SUBSET (1..n), o \in SUBSET (1..n) :
        /\ c = cursor[f] /\ s = seen[f] /\ o = passed[f] /\ c <= n
        /\ 1..c \subseteq s \cup gone \cup o /\ n \in 0..MaxEvent /\ n \in Nat
  BY ReaderKinds DEF Fine
<1>. PICK late : late = Overtaken(f)
  OBVIOUS
<1>. DEFINE d == IF all = <<>> THEN c ELSE Last(all).id
            t == s \cup UNION {ToSet(all[j].text) : j \in DOMAIN all}
<1>1. /\ place[f] = "once archive" /\ cursor' = [cursor EXCEPT ![f] = d] /\ seen' = [seen EXCEPT ![f] = t]
      /\ Close(f, late) /\ UNCHANGED <<logVars, gone>>
  BY DEF ReplayAll
<1>2. /\ q \in Seq(Id) /\ q \in Seq(Nat) /\ Rising(q, c) /\ ToSet(q) \subseteq 1..n
      /\ q # <<>> => (c + 1)..Last(q) \subseteq ToSet(q) \cup gone \cup o \cup late
  BY <1>1, ArchiveListed DEF Reads
<1>3. q \in Seq(1..n)
  <2>3. PICK B : B = 1..n
    OBVIOUS
  <2>1. q \in Seq(Id) /\ ToSet(q) \subseteq B
    BY <1>2, <2>3
  <2>2. q \in Seq(B)
    <3>2. PICK A : A = Id
      OBVIOUS
    <3>1. q \in Seq(A)
      BY <2>1, <3>2
    <3>. QED BY <2>1, <3>1, WithinSet
  <2>. QED BY <2>2, <2>3
<1>4. Joined(all, q)
  BY <1>3, CollapseJoins
<1>5. t = s \cup ToSet(q) /\ d = IF q = <<>> THEN c ELSE Last(q)
  BY <1>4 DEF Joined
<1>. HIDE DEF d, t
<1>6. d \in Nat /\ d <= n /\ t \in SUBSET (1..n) /\ 1..d \subseteq t \cup gone \cup o \cup late
  <2>1. CASE q = <<>>
    BY <1>2, <1>5, <2>1
  <2>2. CASE q # <<>>
    <3>1. d = Last(q) /\ d \in 1..n
      BY <1>2, <1>5, <2>2, RisingBounds
    <3>2. ASSUME NEW j \in 1..d PROVE j \in t \cup gone \cup o \cup late
      <4>1. j \in 1..c \/ j \in (c + 1)..d
        BY <3>1
      <4>. QED BY <1>2, <1>5, <2>2, <3>1, <4>1
    <3>. QED BY <1>2, <1>5, <3>1, <3>2
  <2>. QED BY <2>1, <2>2
<1>. PICK c2 \in Nat, s2 \in SUBSET (1..n) : c2 = d /\ s2 = t
  BY <1>6
<1>7. /\ c2 <= n /\ cursor' = [cursor EXCEPT ![f] = c2] /\ seen' = [seen EXCEPT ![f] = s2]
      /\ 1..c2 \subseteq s2 \cup gone \cup passed[f] \cup late /\ Close(f, late)
      /\ UNCHANGED <<logVars, gone>>
  BY <1>1, <1>6
<1>. QED BY <1>7, ClosingKeeps

LEMMA DisconnectKeeps == ASSUME FeedIInv, NEW f \in Reader, Disconnect(f) PROVE FeedIInv'
BY LeavingKeeps DEF Disconnect

LEMMA FeedIdles == FeedIInv /\ UNCHANGED vars => FeedIInv'
<1>. SUFFICES ASSUME FeedIInv, UNCHANGED vars PROVE FeedIInv'
  OBVIOUS
<1>1. /\ n' = n /\ first' = first /\ gone' = gone /\ table' = table
      /\ UNCHANGED readerVars /\ UNCHANGED logVars /\ passed' = passed /\ MissedTyped'
  BY MissedSame DEF vars, logVars
<1>2. FeedTyped'
  BY <1>1 DEF FeedIInv, FeedTyped, logVars, readerVars
<1>3. Kept'
  BY <1>1 DEF FeedIInv, Kept
<1>4. ASSUME NEW f \in Reader PROVE Settled(f)'
  BY <1>1, SettledIsFine, SettledIsFineNext DEF FeedIInv, readerVars
<1>. QED BY <1>2, <1>3, <1>4 DEF FeedIInv

LEMMA FeedSteps == FeedIInv /\ [FeedNext]_vars => FeedIInv'
<1>. SUFFICES ASSUME FeedIInv, [FeedNext]_vars PROVE FeedIInv'
  OBVIOUS
<1>1. CASE Finalize
  BY <1>1, FinalizeKeeps
<1>2. CASE append
  BY <1>2, AppendKeeps
<1>3. CASE Expire
  BY <1>3, ExpireKeeps
<1>4. CASE purge_event
  BY <1>4, PurgeKeeps
<1>5. ASSUME NEW i \in writing, record(i) PROVE FeedIInv'
  BY <1>5, RecordKeeps
<1>6. ASSUME NEW f \in Reader,
             stream_events(f) \/ Reload(f) \/ replay_run(f) \/ Serve(f) \/ Disconnect(f)
      PROVE  FeedIInv'
  <2>1. CASE stream_events(f)
    BY <2>1, StreamKeeps
  <2>2. CASE Reload(f) \/ replay_run(f)
    <3>1. Afresh(f, "read") \/ Afresh(f, "once")
      BY <2>2 DEF Reload, replay_run
    <3>. QED BY <3>1, AfreshKeeps
  <2>3. CASE Serve(f)
    <3>1. CASE read(f)
      BY <3>1, ReadKeeps
    <3>2. CASE ReadArchive(f)
      BY <3>2, ReadArchiveKeeps
    <3>3. CASE ReplayAll(f)
      BY <3>3, ReplayKeeps
    <3>4. CASE Yield(f)
      BY <3>4, YieldKeeps
    <3>5. CASE _ended(f)
      BY <3>5, EndedKeeps
    <3>6. CASE last(f)
      BY <3>6, LastKeeps
    <3>7. CASE follow(f)
      BY <3>7, FollowKeeps
    <3>. QED BY <2>3, <3>1, <3>2, <3>3, <3>4, <3>5, <3>6, <3>7 DEF Serve
  <2>4. CASE Disconnect(f)
    BY <2>4, DisconnectKeeps
  <2>. QED BY <1>6, <2>1, <2>2, <2>3, <2>4
<1>7. CASE UNCHANGED vars
  BY <1>7, FeedIdles
<1>. QED BY <1>1, <1>2, <1>3, <1>4, <1>5, <1>6, <1>7 DEF FeedNext

LEMMA FeedHolds == FeedSpec => []FeedIInv
BY FeedStarts, FeedSteps, PTL DEF FeedSpec

\* The invariant says what the properties say.
LEMMA SettledSendsOnce == FeedIInv => SentOnce
<1>. SUFFICES ASSUME FeedIInv, NEW f \in Reader, NEW j \in DOMAIN todo[f]
              PROVE  todo[f][j] > (IF j = 1 THEN cursor[f] ELSE todo[f][j - 1])
  BY DEF SentOnce
<1>1. Rising(todo[f], cursor[f]) /\ todo[f] \in Seq(Nat)
  BY ReaderKinds DEF Fine
<1>. PICK q \in Seq(Nat) : q = todo[f]
  BY <1>1
<1>2. CASE j = 1
  BY <1>1, <1>2 DEF Rising
<1>3. CASE j # 1
  <2>1. j \in DOMAIN q /\ j - 1 \in DOMAIN q /\ j - 1 < j
    BY <1>3
  <2>2. q[j - 1] < q[j] /\ q[j] \in Nat /\ q[j - 1] \in Nat
    BY <1>1, <2>1 DEF Rising
  <2>. QED BY <1>3, <2>2
<1>. QED BY <1>2, <1>3

LEMMA TypedCollapses == FeedIInv => CollapseKeepsText
<1>. SUFFICES ASSUME FeedIInv, NEW f \in Reader
              PROVE  LET all == collapse(todo[f]) IN
                     /\ FlattenSeq([j \in DOMAIN all |-> all[j].text]) = todo[f]
                     /\ \A j \in DOMAIN all :
                         /\ all[j].id = Last(all[j].text)
                         /\ \A i \in ToSet(all[j].text) : Mark(i) = all[j].mark
                         /\ j > 1 /\ all[j].mark.type \in MERGEABLE_TYPE => all[j].mark # all[j - 1].mark
  BY DEF CollapseKeepsText
<1>. PICK q : q = todo[f]
  OBVIOUS
<1>1. q \in Seq(1..n) /\ n \in 0..MaxEvent
  BY ReaderKinds, WithinSet
<1>. PICK all : all = collapse(q)
  OBVIOUS
<1>2. Joined(all, q)
  BY <1>1, CollapseJoins
<1>. QED BY <1>2 DEF Joined, Texts, Whole

LEMMA TypedIsTypeOK == FeedIInv => FeedTypeOK
<1>. SUFFICES ASSUME FeedIInv PROVE FeedTypeOK
  OBVIOUS
<1>1. cursor \in [Reader -> 0..n]
  <2>1. \A f \in Reader : cursor[f] \in 0..n
    BY ReaderKinds
  <2>. QED BY <2>1 DEF FeedIInv, FeedTyped
<1>2. \A f \in Reader : /\ ToSet(todo[f]) \cup seen[f] \cup gone \subseteq 1..n
                         /\ overrun[f] \cup slipped[f] \subseteq 1..n
  BY DEF FeedIInv, FeedTyped, MissedTyped
<1>. QED BY <1>1, <1>2 DEF FeedIInv, FeedTyped, FeedTypeOK

(* For all pages, scripts, lengths of the Stream, writers and faults: the      *)
(* stream and the replay send each event once, in order, and the collapsed     *)
(* replay is the same text, the neighbouring pieces of one speaker joined and  *)
(* no others (EventLog.read and follow, EventArchive.replay, collapse).        *)
THEOREM FeedSendsOnce == FeedSpec => []FeedInv
<1>1. FeedIInv => FeedInv
  BY SettledSendsOnce, TypedCollapses, TypedIsTypeOK DEF FeedInv
<1>. QED BY <1>1, FeedHolds, PTL

(* A page that is past an event has seen it, or the event had left the Stream  *)
(* unarchived, was purged, left the Stream ahead of a slow page, or came into  *)
(* the empty Stream a page had just read and was overtaken in the archive:     *)
(* nothing else is lost, whatever the trim, the expiry, the purge and the      *)
(* reconnections do in between (EventLog.read and follow).                     *)
THEOREM PagesMissNothing == FeedSpec => []SkippedIsExplained
<1>1. FeedIInv => SkippedIsExplained
  <2>. SUFFICES ASSUME FeedIInv, NEW f \in Reader
                PROVE  1..cursor[f] \subseteq seen[f] \cup gone \cup overrun[f] \cup slipped[f]
    BY DEF SkippedIsExplained
  <2>1. passed[f] = overrun[f] \cup slipped[f]
    BY ReaderKinds, PassedIs
  <2>. QED BY <2>1, ReaderKinds DEF Fine
<1>. QED BY <1>1, FeedHolds, PTL

================================================================================
