---------------------------- MODULE DataInduction ----------------------------
(***************************************************************************)
(* Induction over natural numbers and over the positions of a sequence, as *)
(* facts about sets, and what they say of a sequence that is purged of     *)
(* some of its elements in one pass.                                       *)
(*                                                                         *)
(* Every set of natural numbers has a least element because the intervals  *)
(* 1..n are finite sets, which inclusion orders well.                      *)
(***************************************************************************)
EXTENDS Integers, Sequences, FiniteSets, FiniteSetTheorems,
        WellFoundedInduction, TLAPS

(***************************************************************************)
(* A set of natural numbers that is not empty has a least element.         *)
(***************************************************************************)
LEMMA LeastNumber ==
    ASSUME NEW T \in SUBSET Nat, T # {}
    PROVE  \E n \in T : \A m \in T : n <= m
<1> DEFINE U == {1..n : n \in T}
<1>1. U \subseteq FiniteSubsetsOf(Nat)
  <2> SUFFICES ASSUME NEW n \in T
               PROVE  1..n \in FiniteSubsetsOf(Nat)
    OBVIOUS
  <2>1. IsFiniteSet(1..n)
    BY FS_Interval
  <2>2. 1..n \subseteq Nat
    OBVIOUS
  <2>3. QED
    BY <2>1, <2>2 DEF FiniteSubsetsOf
<1>2. U # {}
  OBVIOUS
<1>3. IsWellFoundedOn(StrictSubsetOrdering(Nat), FiniteSubsetsOf(Nat))
  BY FS_StrictSubsetOrderingWellFounded
<1>4. PICK u \in U : \A v \in U : <<v, u>> \notin StrictSubsetOrdering(Nat)
  <2> HIDE DEF U
  <2>1. QED
    BY <1>1, <1>2, <1>3, WFMin
<1>5. PICK n \in T : u = 1..n
  OBVIOUS
<1>6. ASSUME NEW m \in T
      PROVE  n <= m
  <2> SUFFICES ASSUME m < n
               PROVE  FALSE
    OBVIOUS
  <2>1. /\ 1..m \subseteq 1..n /\ n \in 1..n /\ n \notin 1..m
        /\ 1..m \subseteq Nat /\ 1..n \subseteq Nat
    OBVIOUS
  <2>2. <<1..m, 1..n>> \in StrictSubsetOrdering(Nat)
    BY <2>1 DEF StrictSubsetOrdering
  <2>3. QED
    BY <1>4, <1>5, <2>2
<1>7. QED
  BY <1>6

(***************************************************************************)
(* Induction up to a bound: a set that holds 0 and, with every number      *)
(* below the bound, the next one, holds all of 0..bound.                   *)
(***************************************************************************)
LEMMA NumberInduction ==
    ASSUME NEW bound \in Nat, NEW S, 0 \in S,
           \A n \in 1..bound : n - 1 \in S => n \in S
    PROVE  0..bound \subseteq S
<1> SUFFICES ASSUME (0..bound) \ S # {}
             PROVE  FALSE
  OBVIOUS
<1>1. PICK n \in (0..bound) \ S : \A m \in (0..bound) \ S : n <= m
  <2> DEFINE T == (0..bound) \ S
  <2>1. T \in SUBSET Nat /\ T # {}
    OBVIOUS
  <2> HIDE DEF T
  <2>2. \E n \in T : \A m \in T : n <= m
    BY <2>1, LeastNumber
  <2>3. QED
    BY <2>2 DEF T
<1>2. n \in 1..bound /\ n - 1 \in 0..bound /\ ~(n <= n - 1)
  OBVIOUS
<1>3. n - 1 \in S
  BY <1>1, <1>2
<1>4. QED
  BY <1>2, <1>3

-----------------------------------------------------------------------------
(***************************************************************************)
(* kept[n] is what a purge keeps of the first n elements of s.             *)
(***************************************************************************)
Purge(kept, s, Stale) ==
    kept = [n \in 0..Len(s) |->
               IF n = 0 THEN <<>>
               ELSE IF s[n] \in Stale THEN kept[n - 1]
               ELSE Append(kept[n - 1], s[n])]

(***************************************************************************)
(* r is the first n elements of s without the stale ones: pos says where   *)
(* each element of r was.                                                  *)
(***************************************************************************)
Sifted(r, pos, s, n, Stale) ==
    /\ r = [i \in 1..Len(r) |-> s[pos[i]]]
    /\ pos \in [1..Len(r) -> 1..n]
    /\ \A i, j \in 1..Len(r) : i < j => pos[i] < pos[j]
    /\ \A i \in 1..Len(r) : s[pos[i]] \notin Stale
    /\ \A k \in 1..n : s[k] \notin Stale => \E i \in 1..Len(r) : pos[i] = k

(***************************************************************************)
(* One more position of the purge.                                         *)
(***************************************************************************)
LEMMA SiftNext ==
    ASSUME NEW A, NEW s \in Seq(A), NEW Stale, NEW n \in 1..Len(s),
           NEW r \in Seq(A), NEW pos, Sifted(r, pos, s, n - 1, Stale),
           Len(r) <= n - 1
    PROVE  LET next == IF s[n] \in Stale THEN r ELSE Append(r, s[n])
           IN  /\ next \in Seq(A) /\ Len(next) <= n
               /\ \E q : Sifted(next, q, s, n, Stale)
<1>1. CASE s[n] \in Stale
  <2>1. Sifted(r, pos, s, n, Stale)
    BY <1>1 DEF Sifted
  <2>2. QED
    BY <1>1, <2>1
<1>2. CASE s[n] \notin Stale
  <2> DEFINE next == Append(r, s[n])
             m == Len(r) + 1
             q == [i \in 1..m |-> IF i = m THEN n ELSE pos[i]]
  <2>1. /\ next \in Seq(A) /\ Len(next) = m /\ m \in Nat /\ Len(r) \in Nat
        /\ next[m] = s[n]
        /\ \A i \in 1..Len(r) : next[i] = r[i]
    OBVIOUS
  <2>2. next = [i \in 1..m |-> next[i]]
    BY <2>1
  <2>3. \A i \in 1..m : i = m \/ i \in 1..Len(r)
    BY <2>1
  <2>4. \A i \in 1..Len(r) : q[i] = pos[i] /\ pos[i] \in 1..(n - 1)
    BY <2>1 DEF Sifted
  <2>5. q[m] = n
    BY <2>1
  <2>6. q \in [1..m -> 1..n]
    <3>1. \A i \in 1..m : (IF i = m THEN n ELSE pos[i]) \in 1..n
      <4> HIDE DEF m
      <4>1. \A i \in 1..m : i # m => pos[i] \in 1..(n - 1)
        BY <2>3 DEF Sifted
      <4>2. QED
        BY <4>1
    <3> HIDE DEF m
    <3>2. QED
      BY <3>1
  <2>7. \A i \in 1..m : next[i] = s[q[i]]
    <3>1. \A i \in 1..Len(r) : r[i] = s[pos[i]]
      BY DEF Sifted
    <3> HIDE DEF next, q, m
    <3>2. QED
      BY <2>1, <2>3, <2>4, <2>5, <3>1
  <2>8. \A i, j \in 1..m : i < j => q[i] < q[j]
    <3> SUFFICES ASSUME NEW i \in 1..m, NEW j \in 1..m, i < j
                 PROVE  q[i] < q[j]
      OBVIOUS
    <3> HIDE DEF next, q
    <3>1. i \in 1..Len(r)
      BY <2>1
    <3>2. CASE j = m
      BY <2>4, <2>5, <3>1, <3>2
    <3>3. CASE j \in 1..Len(r)
      <4>1. pos[i] < pos[j]
        BY <3>1, <3>3 DEF Sifted
      <4>2. QED
        BY <2>4, <3>1, <3>3, <4>1
    <3>4. QED
      BY <2>3, <3>2, <3>3
  <2>9. \A i \in 1..m : s[q[i]] \notin Stale
    <3> HIDE DEF next, q, m
    <3>1. QED
      BY <1>2, <2>3, <2>4, <2>5 DEF Sifted
  <2>10. ASSUME NEW k \in 1..n, s[k] \notin Stale
         PROVE  \E i \in 1..m : q[i] = k
    <3>1. CASE k = n
      BY <2>1, <2>5, <3>1
    <3>2. CASE k # n
      <4>1. k \in 1..(n - 1)
        BY <3>2
      <4>2. PICK i \in 1..Len(r) : pos[i] = k
        BY <2>10, <4>1 DEF Sifted
      <4>3. q[i] = k /\ i \in 1..m
        BY <2>1, <2>4, <4>2
      <4>4. QED
        BY <4>3
    <3>3. QED
      BY <3>1, <3>2
  <2>11. Sifted(next, q, s, n, Stale)
    <3> HIDE DEF next, q, m
    <3>1. next = [i \in 1..m |-> s[q[i]]]
      BY <2>2, <2>7
    <3>2. QED
      BY <2>1, <2>6, <2>8, <2>9, <2>10, <3>1 DEF Sifted
  <2>12. QED
    BY <1>2, <2>1, <2>11
<1>3. QED
  BY <1>1, <1>2

(***************************************************************************)
(* The recursion of a purge has a solution.                                *)
(***************************************************************************)
LEMMA PurgeExists ==
    ASSUME NEW A, NEW s \in Seq(A), NEW Stale
    PROVE  \E kept : Purge(kept, s, Stale)
<1> DEFINE Step(f, n) == IF n = 0 THEN <<>>
                         ELSE IF s[n] \in Stale THEN f[n - 1]
                         ELSE Append(f[n - 1], s[n])
           UpTo(f, m) == /\ DOMAIN f = 0..m
                         /\ \A n \in 0..m : f[n] = Step(f, n)
           S == {m \in 0..Len(s) : \E f : UpTo(f, m)}
<1>1. Len(s) \in Nat
  OBVIOUS
<1>2. 0 \in S
  <2> DEFINE f == [n \in 0..0 |-> <<>>]
  <2>1. UpTo(f, 0)
    OBVIOUS
  <2>2. 0 \in 0..Len(s)
    BY <1>1
  <2> HIDE DEF f, UpTo
  <2>3. QED
    BY <2>1, <2>2
<1>3. ASSUME NEW m \in 1..Len(s), m - 1 \in S
      PROVE  m \in S
  <2>1. PICK f : UpTo(f, m - 1)
    BY <1>3
  <2> DEFINE g == [n \in 0..m |-> IF n = m THEN Step(f, m) ELSE f[n]]
  <2>2. DOMAIN g = 0..m
    OBVIOUS
  <2>3. ASSUME NEW n \in 0..m
        PROVE  g[n] = Step(g, n)
    <3>1. n = 0 \/ n - 1 \in 0..(m - 1)
      OBVIOUS
    <3>2. n # 0 => g[n - 1] = f[n - 1]
      BY <3>1
    <3>3. Step(g, n) = Step(f, n)
      BY <3>2
    <3>4. CASE n = m
      BY <3>3, <3>4
    <3>5. CASE n # m
      <4>1. n \in 0..(m - 1)
        BY <3>5
      <4>2. f[n] = Step(f, n) /\ g[n] = f[n]
        BY <2>1, <3>5, <4>1
      <4>3. QED
        BY <3>3, <4>2
    <3>6. QED
      BY <3>4, <3>5
  <2> HIDE DEF g, Step
  <2>4. UpTo(g, m)
    BY <2>2, <2>3
  <2>5. QED
    BY <1>1, <2>4
<1> HIDE DEF UpTo
<1>4. 0..Len(s) \subseteq S
  <2> HIDE DEF S
  <2>1. QED
    BY <1>1, <1>2, <1>3, NumberInduction
<1>5. PICK f : UpTo(f, Len(s))
  BY <1>1, <1>4
<1>6. Purge([n \in 0..Len(s) |-> f[n]], s, Stale)
  <2> DEFINE kept == [n \in 0..Len(s) |-> f[n]]
  <2>1. ASSUME NEW n \in 0..Len(s)
        PROVE  f[n] = Step(kept, n)
    <3>1. f[n] = Step(f, n)
      BY <1>5 DEF UpTo
    <3>2. n # 0 => n - 1 \in 0..Len(s)
      BY <1>1
    <3>3. QED
      BY <3>1, <3>2
  <2>2. kept = [n \in 0..Len(s) |-> Step(kept, n)]
    BY <2>1
  <2>3. QED
    BY <2>2 DEF Purge
<1>7. QED
  BY <1>6

(***************************************************************************)
(* A purge keeps what is not stale, in its order.                          *)
(***************************************************************************)
LEMMA PurgeSifts ==
    ASSUME NEW A, NEW s \in Seq(A), NEW Stale,
           NEW kept, Purge(kept, s, Stale)
    PROVE  LET r == kept[Len(s)]
           IN  /\ r \in Seq(A) /\ Len(r) <= Len(s)
               /\ \E pos : Sifted(r, pos, s, Len(s), Stale)
<1> DEFINE Good(n) == /\ kept[n] \in Seq(A) /\ Len(kept[n]) <= n
                      /\ \E pos : Sifted(kept[n], pos, s, n, Stale)
           S == {n \in 0..Len(s) : Good(n)}
<1>1. Len(s) \in Nat
  OBVIOUS
<1>2. 0 \in S
  <2>1. kept[0] = <<>>
    BY <1>1 DEF Purge
  <2>2. Sifted(<<>>, <<>>, s, 0, Stale)
    BY DEF Sifted
  <2>3. Good(0)
    BY <2>1, <2>2
  <2>4. 0 \in 0..Len(s)
    BY <1>1
  <2> HIDE DEF Good
  <2>5. QED
    BY <2>3, <2>4
<1>3. ASSUME NEW n \in 1..Len(s), n - 1 \in S
      PROVE  n \in S
  <2>1. kept[n] = IF s[n] \in Stale THEN kept[n - 1]
                  ELSE Append(kept[n - 1], s[n])
    <3>1. \A k \in 0..Len(s) :
             kept[k] = IF k = 0 THEN <<>>
                       ELSE IF s[k] \in Stale THEN kept[k - 1]
                       ELSE Append(kept[k - 1], s[k])
      BY DEF Purge
    <3>2. n \in 0..Len(s) /\ n # 0
      BY <1>1
    <3>3. QED
      BY <3>1, <3>2
  <2>2. PICK pos : Sifted(kept[n - 1], pos, s, n - 1, Stale)
    BY <1>3
  <2>3. kept[n - 1] \in Seq(A) /\ Len(kept[n - 1]) <= n - 1
    BY <1>3
  <2>4. Good(n)
    BY <2>1, <2>2, <2>3, SiftNext
  <2>5. QED
    BY <1>1, <2>4
<1>4. 0..Len(s) \subseteq S
  <2> HIDE DEF S
  <2>1. QED
    BY <1>1, <1>2, <1>3, NumberInduction
<1>5. Good(Len(s))
  BY <1>1, <1>4
<1>6. QED
  BY <1>5

(***************************************************************************)
(* A sequence without repetitions has as many elements as it is long.      *)
(***************************************************************************)
LEMMA DistinctElements ==
    ASSUME NEW m \in Nat, NEW n \in Nat, NEW s, NEW S, IsFiniteSet(S),
           \A i \in m..n : s[i] \in S,
           \A i, j \in m..n : s[i] = s[j] => i = j
    PROVE  n - m + 1 <= Cardinality(S)
<1> DEFINE f == [i \in m..n |-> s[i]]
<1>1. f \in Injection(m..n, S)
  BY DEF Injection, IsInjective
<1>2. CASE m <= n
  <2>1. IsFiniteSet(m..n) /\ Cardinality(m..n) = n - m + 1
    BY <1>2, FS_Interval
  <2>2. Cardinality(m..n) <= Cardinality(S)
    BY <1>1, FS_Injection
  <2>3. QED
    BY <2>1, <2>2
<1>3. CASE ~(m <= n)
  BY <1>3, FS_CardinalityType
<1>4. QED
  BY <1>2, <1>3
=============================================================================
