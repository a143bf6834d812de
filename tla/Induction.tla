------------------------------ MODULE Induction -----------------------------
(*****************************************************************************)
(* What the proofs about handlers that go over a list share: induction over  *)
(* the natural numbers, that a recursive function over 0..n exists and       *)
(* satisfies its equations, and that a set of numbers has a greatest.        *)
(*****************************************************************************)
EXTENDS Integers, FiniteSetTheorems, WellFoundedInduction, TLAPS

-----------------------------------------------------------------------------
(* Induction and recursive functions                                         *)

\* Induction, over a set instead of a predicate: the set of counterexamples
\* would have a least element.
LEMMA SetInduction ==
  ASSUME NEW P, 0 \in P, \A n \in Nat : n \in P => n + 1 \in P
  PROVE  Nat \subseteq P
<1> SUFFICES ASSUME NEW m \in Nat, m \notin P PROVE FALSE
  OBVIOUS
<1> DEFINE T == {1..n : n \in Nat \ P}
           R == StrictSubsetOrdering(Nat)
<1>1. T \subseteq FiniteSubsetsOf(Nat)
  <2> SUFFICES ASSUME NEW n \in Nat PROVE 1..n \in FiniteSubsetsOf(Nat)
    OBVIOUS
  <2>1. IsFiniteSet(1..n) /\ 1..n \subseteq Nat
    BY FS_Interval
  <2>2. QED
    BY <2>1 DEF FiniteSubsetsOf
<1>2. IsWellFoundedOn(R, FiniteSubsetsOf(Nat))
  BY FS_StrictSubsetOrderingWellFounded
<1>3. T # {}
  OBVIOUS
<1>4. PICK x \in T : \A y \in T : <<y, x>> \notin R
  <2> HIDE DEF T, R
  <2>1. QED
    BY <1>1, <1>2, <1>3, WFMin
<1>5. PICK n \in Nat \ P : x = 1..n
  OBVIOUS
<1>6. n - 1 \in Nat \ P
  BY <1>5
<1>7. 1..n - 1 \in T
  BY <1>6
<1>8. 1..n - 1 \subseteq 1..n /\ n \in 1..n /\ n \notin 1..n - 1 /\ 1..n \subseteq Nat /\ 1..n - 1 \subseteq Nat
  BY <1>6
<1>9. <<1..n - 1, x>> \in R
  BY <1>5, <1>8 DEF StrictSubsetOrdering
<1>10. QED
  BY <1>4, <1>7, <1>9

\* A recursive function on 0..n: its data, and what it satisfies.
RecursionData(S, base, n, G) == base \in S /\ n \in Nat /\ G \in [S \X (1..n) -> S]
Recursion(S, base, n, G, f) ==
  f \in [0..n -> S] /\ f[0] = base /\ \A i \in 1..n : f[i] = G[<<f[i - 1], i>>]

\* A recursive function over 0..n exists: the definitions of a handler's loop
\* denote one.
LEMMA RecursionExists ==
  ASSUME NEW S, NEW base, NEW n, NEW G, RecursionData(S, base, n, G)
  PROVE  \E f : Recursion(S, base, n, G, f)
<1>0. base \in S /\ n \in Nat /\ G \in [S \X (1..n) -> S]
  BY DEF RecursionData
<1> DEFINE Upto(k, f) == f[0] = base /\ \A i \in 1..k : f[i] = G[<<f[i - 1], i>>]
           P == {k \in Nat : k <= n => \E f \in [0..k -> S] : Upto(k, f)}
<1>1. 0 \in P
  <2> DEFINE f == [i \in 0..0 |-> base]
  <2>1. f \in [0..0 -> S] /\ Upto(0, f)
    BY <1>0
  <2>2. QED
    BY <2>1
<1>2. ASSUME NEW k \in Nat, k \in P PROVE k + 1 \in P
  <2> SUFFICES ASSUME k + 1 <= n PROVE \E f \in [0..k + 1 -> S] : Upto(k + 1, f)
    OBVIOUS
  <2>1. PICK f \in [0..k -> S] : Upto(k, f)
    BY <1>0, <1>2
  <2> DEFINE last == G[<<f[k], k + 1>>]
             g == [i \in 0..k + 1 |-> IF i = k + 1 THEN last ELSE f[i]]
  <2>2. last \in S
    BY <1>0, <2>1
  <2>3. g \in [0..k + 1 -> S]
    BY <2>1, <2>2
  <2>4. \A i \in 0..k : g[i] = f[i]
    OBVIOUS
  <2>5. g[k + 1] = last
    OBVIOUS
  <2> HIDE DEF g
  <2>6. ASSUME NEW i \in 1..k + 1 PROVE g[i] = G[<<g[i - 1], i>>]
    <3>1. i - 1 \in 0..k /\ (i \in 1..k \/ i = k + 1)
      OBVIOUS
    <3>2. CASE i = k + 1
      BY <2>4, <2>5, <3>2
    <3>3. CASE i \in 1..k
      <4>1. i \in 0..k
        BY <3>3
      <4>2. QED
        BY <2>1, <2>4, <3>1, <3>3, <4>1
    <3>4. QED
      BY <3>1, <3>2, <3>3
  <2>7. Upto(k + 1, g)
    BY <2>1, <2>4, <2>6
  <2>8. QED
    BY <2>3, <2>7
<1> HIDE DEF P
<1>3. n \in P
  BY <1>0, <1>1, <1>2, SetInduction
<1>4. QED
  BY <1>3 DEF P, Recursion


\* Induction over 0..n.
LEMMA UpToInduction ==
  ASSUME NEW n \in Nat, NEW P, 0 \in P, \A i \in 1..n : i - 1 \in P => i \in P
  PROVE  0..n \subseteq P
<1> DEFINE Q == {k \in Nat : k <= n => k \in P}
<1>1. 0 \in Q
  OBVIOUS
<1>2. ASSUME NEW k \in Nat, k \in Q PROVE k + 1 \in Q
  <2>1. CASE k + 1 <= n
    <3>1. k \in P /\ k + 1 \in 1..n /\ (k + 1) - 1 = k
      BY <1>2, <2>1
    <3>2. k + 1 \in P
      BY <3>1
    <3>3. QED
      BY <3>2
  <2>2. QED
    BY <2>1
<1> HIDE DEF Q
<1>3. Nat \subseteq Q
  BY <1>1, <1>2, SetInduction
<1>4. QED
  BY <1>3 DEF Q

\* A set of numbers up to n has a greatest.
LEMMA GreatestExists ==
  ASSUME NEW n \in Nat, NEW S \in SUBSET (0..n), S # {}
  PROVE  \E m \in S : \A k \in S : k <= m
<1> DEFINE P == {i \in 0..n : \A T \in SUBSET (0..i) : T # {} => \E m \in T : \A k \in T : k <= m}
<1>1. 0 \in P
  <2>1. ASSUME NEW T \in SUBSET (0..0), T # {} PROVE \E m \in T : \A k \in T : k <= m
    <3>1. \A k \in T : k = 0
      BY <2>1
    <3>2. 0 \in T
      BY <2>1, <3>1
    <3>3. QED
      BY <3>1, <3>2
  <2>2. QED
    BY <2>1
<1>2. ASSUME NEW i \in 1..n, i - 1 \in P PROVE i \in P
  <2>1. ASSUME NEW T \in SUBSET (0..i), T # {} PROVE \E m \in T : \A k \in T : k <= m
    <3>1. CASE i \in T
      BY <3>1
    <3>2. CASE i \notin T
      <4>1. T \in SUBSET (0..i - 1)
        BY <3>2
      <4>2. QED
        BY <1>2, <2>1, <4>1
    <3>3. QED
      BY <3>1, <3>2
  <2>2. i \in 0..n
    OBVIOUS
  <2>3. QED
    BY <2>1, <2>2
<1> HIDE DEF P
<1>3. n \in P
  <2>1. 0..n \subseteq P
    BY <1>1, <1>2, UpToInduction
  <2>2. QED
    BY <2>1
<1>4. QED
  BY <1>3 DEF P

=============================================================================
