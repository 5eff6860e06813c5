------------------------- MODULE SubsequenceLemmas --------------------------
(***************************************************************************)
(* What the operators of Subsequences return, for sequences of any length. *)
(***************************************************************************)
EXTENDS Subsequences, FiniteSetTheorems, WellFoundedInduction, TLAPS

(* A set of numbers has a least element: all induction over positions in   *)
(* these proofs goes through this.                                         *)
LEMMA Least ==
  ASSUME NEW T, T \subseteq Nat, T # {}
  PROVE  \E x \in T : \A y \in T : x <= y
<1> DEFINE R == OpToRel(<, Nat)
<1>1. \E x \in T : \A y \in T : ~ (<<y, x>> \in R)
  BY NatLessThanWellFounded, WFMin, Zenon
<1>2. \A x, y \in Nat : y < x => <<y, x>> \in R
  BY Zenon DEF OpToRel
<1>3. \E x \in T : \A y \in T : ~ (y < x)
  BY <1>1, <1>2, Zenon
<1>4. \A x, y \in Nat : ~ (y < x) => x <= y
  OBVIOUS
<1> QED
  BY <1>3, <1>4, Zenon

(* R orders the elements of S one after the other.                         *)
Orders(R, S) ==
  /\ \A x \in S : <<x, x>> \in R
  /\ \A x, y \in S : <<x, y>> \in R \/ <<y, x>> \in R
  /\ \A x, y \in S : <<x, y>> \in R /\ <<y, x>> \in R => x = y
  /\ \A x, y, z \in S : <<x, y>> \in R /\ <<y, z>> \in R => <<x, z>> \in R

(* The ranks of the elements of S are numbers from 1 on, and grow.         *)
LEMMA RankProperties ==
  ASSUME NEW S, IsFiniteSet(S), NEW R, Orders(R, S)
  PROVE  /\ Cardinality(S) \in Nat
         /\ \A x \in S : Rank(S, R, x) \in 1 .. Cardinality(S)
         /\ \A x, y \in S : <<x, y>> \in R /\ x # y => Rank(S, R, x) < Rank(S, R, y)
<1> DEFINE Upto(x) == {y \in S : <<y, x>> \in R}
<1>1. Cardinality(S) \in Nat
  BY FS_CardinalityType, Zenon
<1>2. ASSUME NEW x \in S
      PROVE  /\ Upto(x) \in SUBSET S /\ x \in Upto(x)
             /\ IsFiniteSet(Upto(x)) /\ Cardinality(Upto(x)) \in Nat
             /\ Cardinality(Upto(x)) # 0 /\ Cardinality(Upto(x)) <= Cardinality(S)
  <2>1. Upto(x) \in SUBSET S /\ x \in Upto(x)
    BY Zenon DEF Orders
  <2> HIDE DEF Upto
  <2>2. IsFiniteSet(Upto(x)) /\ Cardinality(Upto(x)) <= Cardinality(S)
    BY <2>1, FS_Subset, Zenon
  <2>3. Cardinality(Upto(x)) \in Nat /\ Cardinality(Upto(x)) # 0
    BY <2>1, <2>2, FS_CardinalityType, FS_EmptySet, Zenon
  <2> QED
    BY <2>1, <2>2, <2>3, Zenon
<1>3. \A x \in S : Rank(S, R, x) = Cardinality(Upto(x))
  BY Zenon DEF Rank
<1> HIDE DEF Upto
<1>4. ASSUME NEW x \in S PROVE Rank(S, R, x) \in 1 .. Cardinality(S)
  <2>1. \A a, b \in Nat : a # 0 /\ a <= b => a \in 1 .. b
    OBVIOUS
  <2> QED
    BY <1>1, <1>2, <1>3, <2>1, Zenon
<1>5. ASSUME NEW x \in S, NEW y \in S, <<x, y>> \in R, x # y
      PROVE  Rank(S, R, x) < Rank(S, R, y)
  <2>1. Upto(x) \in SUBSET Upto(y) /\ y \in Upto(y) /\ y \notin Upto(x)
    <3>1. <<y, x>> \notin R
      BY <1>5, Zenon DEF Orders
    <3>2. \A z \in S : <<z, x>> \in R => <<z, y>> \in R
      BY <1>5, Zenon DEF Orders
    <3> QED
      BY <1>2, <3>1, <3>2, Zenon DEF Upto
  <2>2. Cardinality(Upto(x)) <= Cardinality(Upto(y)) /\ Cardinality(Upto(x)) # Cardinality(Upto(y))
    BY <1>2, <2>1, FS_Subset
  <2>3. \A a, b \in Nat : a <= b /\ a # b => a < b
    OBVIOUS
  <2> QED
    BY <1>2, <1>3, <2>2, <2>3, Zenon
<1> QED
  BY <1>1, <1>4, <1>5, Zenon

(* Ranked enumerates S without a gap and in order.                         *)
LEMMA RankedProperties ==
  ASSUME NEW S, IsFiniteSet(S), NEW R, Orders(R, S)
  PROVE  /\ Cardinality(S) \in Nat
         /\ \A k \in 1 .. Cardinality(S) : Ranked(S, R, k) \in S
         /\ \A k, l \in 1 .. Cardinality(S) : k < l =>
              <<Ranked(S, R, k), Ranked(S, R, l)>> \in R /\ Ranked(S, R, k) # Ranked(S, R, l)
         /\ \A x \in S : \E k \in 1 .. Cardinality(S) : Ranked(S, R, k) = x
<1> DEFINE N == Cardinality(S)
           rank == [x \in S |-> Rank(S, R, x)]
<1>1. /\ N \in Nat
      /\ \A x \in S : Rank(S, R, x) \in 1 .. N
      /\ \A x, y \in S : <<x, y>> \in R /\ x # y => Rank(S, R, x) < Rank(S, R, y)
  BY RankProperties, Zenon
<1>2. \A x, y \in S : Rank(S, R, x) = Rank(S, R, y) => x = y
  <2>1. \A x, y \in S : x # y => Rank(S, R, x) < Rank(S, R, y) \/ Rank(S, R, y) < Rank(S, R, x)
    BY <1>1, Zenon DEF Orders
  <2>2. \A a, b \in 1 .. N : a < b => a # b
    BY <1>1
  <2> QED
    BY <1>1, <2>1, <2>2, ZenonT(40)
<1> HIDE DEF N
<1>3. rank \in Injection(S, 1 .. N)
  BY <1>1, <1>2, ZenonT(40) DEF Injection, IsInjective
<1>4. IsFiniteSet(1 .. N) /\ Cardinality(1 .. N) = N
  BY <1>1, FS_Interval
<1>5. rank \in Surjection(S, 1 .. N)
  <2> HIDE DEF rank
  <2>1. Cardinality(S) = Cardinality(1 .. N)
    BY <1>4, Zenon DEF N
  <2> QED
    BY <1>3, <1>4, <2>1, FS_Injection, ZenonT(40)
<1>6. \A k \in 1 .. N : \E x \in S : Rank(S, R, x) = k
  BY <1>5, Zenon DEF Surjection
<1>7. \A k \in 1 .. N : Ranked(S, R, k) \in S /\ Rank(S, R, Ranked(S, R, k)) = k
  BY <1>6, Zenon DEF Ranked
<1>8. ASSUME NEW k \in 1 .. N, NEW l \in 1 .. N, k < l
      PROVE  <<Ranked(S, R, k), Ranked(S, R, l)>> \in R /\ Ranked(S, R, k) # Ranked(S, R, l)
  <2>1. PICK a \in S : a = Ranked(S, R, k) /\ Rank(S, R, a) = k
    BY <1>7, Zenon
  <2>2. PICK b \in S : b = Ranked(S, R, l) /\ Rank(S, R, b) = l
    BY <1>7, ZenonT(40)
  <2>3. ~ (l < k) /\ l # k
    BY <1>1, <1>8
  <2>4. a # b
    BY <2>1, <2>2, <2>3, ZenonT(40)
  <2>5. <<a, b>> \in R
    <3>1. Rank(S, R, b) < Rank(S, R, a) => l < k
      BY ONLY <2>1, <2>2, ZenonT(40)
    <3>2. ~ (<<b, a>> \in R)
      BY <1>1, <2>3, <2>4, <3>1, ZenonT(40)
    <3> QED
      BY <3>2, ZenonT(40) DEF Orders
  <2> QED
    BY <2>1, <2>2, <2>4, <2>5, ZenonT(40)
<1>9. \A x \in S : \E k \in 1 .. N : Ranked(S, R, k) = x
  BY <1>1, <1>2, <1>7, ZenonT(40)
<1> QED
  BY <1>1, <1>7, <1>8, <1>9, ZenonT(40) DEF N

(* Nth enumerates I without a gap and in increasing order.                 *)
LEMMA NthProperties ==
  ASSUME NEW n \in Nat, NEW I \in SUBSET (1 .. n)
  PROVE  /\ Cardinality(I) \in Nat
         /\ \A k \in 1 .. Cardinality(I) : Nth(I, k) \in I
         /\ \A k, l \in 1 .. Cardinality(I) : k < l => Nth(I, k) < Nth(I, l)
         /\ \A i \in I : \E k \in 1 .. Cardinality(I) : Nth(I, k) = i
<1>1. IsFiniteSet(I)
  <2>1. IsFiniteSet(1 .. n)
    BY FS_Interval
  <2> QED
    BY <2>1, FS_Subset, Zenon
<1>2. \A i, j \in I : <<i, j>> \in Ascending(I) <=> i <= j
  BY DEF Ascending
<1>3. Orders(Ascending(I), I)
  <2>1. /\ \A i, j \in I : i <= i /\ (i <= j \/ j <= i) /\ (i <= j /\ j <= i => i = j)
        /\ \A i, j, k \in I : i <= j /\ j <= k => i <= k
    OBVIOUS
  <2> QED
    BY <1>2, <2>1, Zenon DEF Orders
<1>4. /\ Cardinality(I) \in Nat
      /\ \A k \in 1 .. Cardinality(I) : Nth(I, k) \in I
      /\ \A k, l \in 1 .. Cardinality(I) : k < l =>
           <<Nth(I, k), Nth(I, l)>> \in Ascending(I) /\ Nth(I, k) # Nth(I, l)
      /\ \A i \in I : \E k \in 1 .. Cardinality(I) : Nth(I, k) = i
  BY <1>1, <1>3, RankedProperties, ZenonT(40) DEF Nth
<1>5. \A i, j \in I : i <= j /\ i # j => i < j
  OBVIOUS
<1>6. \A k, l \in 1 .. Cardinality(I) : k < l => Nth(I, k) < Nth(I, l)
  BY <1>2, <1>4, <1>5, ZenonT(40)
<1> QED
  BY <1>4, <1>6, Zenon

(* Pick has the elements of s at the positions I, all of them, in order.   *)
LEMMA PickProperties ==
  ASSUME NEW s, NEW n \in Nat, NEW I \in SUBSET (1 .. n)
  PROVE  /\ Cardinality(I) \in Nat
         /\ DOMAIN Pick(s, I) = 1 .. Cardinality(I)
         /\ Len(Pick(s, I)) = Cardinality(I)
         /\ \A k \in 1 .. Cardinality(I) : Nth(I, k) \in I /\ Pick(s, I)[k] = s[Nth(I, k)]
         /\ \A i \in I : \E k \in 1 .. Cardinality(I) : Nth(I, k) = i /\ Pick(s, I)[k] = s[i]
<1>1. /\ Cardinality(I) \in Nat
      /\ \A k \in 1 .. Cardinality(I) : Nth(I, k) \in I
      /\ \A i \in I : \E k \in 1 .. Cardinality(I) : Nth(I, k) = i
  BY NthProperties, ZenonT(40)
<1>2. DOMAIN Pick(s, I) = 1 .. Cardinality(I)
  BY Zenon DEF Pick
<1>3. Len(Pick(s, I)) = Cardinality(I)
  BY <1>1 DEF Pick
<1>4. \A k \in 1 .. Cardinality(I) : Pick(s, I)[k] = s[Nth(I, k)]
  BY Zenon DEF Pick
<1> QED
  BY <1>1, <1>2, <1>3, <1>4, Zenon

(* The part of it that speaks of the positions of the subsequence.         *)
LEMMA PickElements ==
  ASSUME NEW s, NEW n \in Nat, NEW I \in SUBSET (1 .. n)
  PROVE  /\ Len(Pick(s, I)) = Cardinality(I)
         /\ \A k \in 1 .. Cardinality(I) : Nth(I, k) \in I /\ Pick(s, I)[k] = s[Nth(I, k)]
  BY PickProperties, ZenonT(40)
=============================================================================
