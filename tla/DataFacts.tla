----------------------------- MODULE DataFacts -----------------------------
(***************************************************************************)
(* Facts about sets and sequences that several proofs need: greatest and   *)
(* least members of sets of naturals, by which the plan indices and the    *)
(* checkpoint keys of the precise loop are chosen; induction; a sequence   *)
(* with an element removed; a finite set in some order.                    *)
(***************************************************************************)
EXTENDS Integers, SequencesExt, SequenceTheorems, FiniteSetTheorems, WellFoundedInduction, TLAPS

(* The well-founded order of the naturals, as a fact about sets.           *)
LEMMA LeastNatural ==
  ASSUME NEW S \in SUBSET Nat, S # {}
  PROVE  \E m \in S : \A k \in S : m <= k
<1>1. \E m \in S : \A k \in S : <<k, m>> \notin OpToRel(<, Nat)
  BY NatLessThanWellFounded, WFMin
<1>2. \A k, m \in S : <<k, m>> \notin OpToRel(<, Nat) => m <= k
  BY DEF OpToRel
<1> QED
  BY <1>1, <1>2

(* min(S) of a non-empty set.                                              *)
LEMMA LeastMember ==
  ASSUME NEW S \in SUBSET Nat, S # {}
  PROVE  Min(S) \in S /\ \A k \in S : Min(S) <= k
BY LeastNatural DEF Min

(* max(S) of a non-empty bounded set: the least distance from the bound.   *)
LEMMA GreatestMember ==
  ASSUME NEW S \in SUBSET Nat, S # {}, NEW b \in Nat, \A k \in S : k <= b
  PROVE  Max(S) \in S /\ \A k \in S : k <= Max(S)
<1> DEFINE R == {b - k : k \in S}
<1>1. R \in SUBSET Nat
  OBVIOUS
<1>2. R # {}
  <2>1. PICK k \in S : TRUE
    OBVIOUS
  <2>2. b - k \in R
    BY <2>1
  <2> QED
    BY <2>2
<1>3. PICK m \in R : \A k \in R : m <= k
  BY <1>1, <1>2, LeastNatural
<1>4. PICK g \in S : m = b - g
  BY <1>3
<1>5. \A k \in S : b - g <= b - k
  BY <1>3, <1>4
<1>6. \A k \in S : k <= g
  BY <1>5
<1> QED
  BY <1>6 DEF Max

(* Natural induction over a set of naturals.                               *)
LEMMA SetInduction ==
  ASSUME NEW S \in SUBSET Nat, 0 \in S, \A n \in S : n + 1 \in S
  PROVE  S = Nat
<1> SUFFICES ASSUME Nat \ S # {} PROVE FALSE
  OBVIOUS
<1>1. PICK m \in Nat \ S : \A k \in Nat \ S : m <= k
  BY LeastNatural
<1>2. m - 1 \in S
  BY <1>1
<1> QED
  BY <1>1, <1>2

(* A sequence without its i-th element: those behind it move up.           *)
LEMMA RemoveAtElements ==
  ASSUME NEW S, NEW s \in Seq(S), NEW i \in 1..Len(s)
  PROVE  /\ RemoveAt(s, i) \in Seq(S)
         /\ Len(RemoveAt(s, i)) = Len(s) - 1
         /\ \A j \in 1..(Len(s) - 1) : RemoveAt(s, i)[j] = IF j < i THEN s[j] ELSE s[j + 1]
<1>1. Len(s) \in Nat /\ \A j \in 1..Len(s) : s[j] \in S
  OBVIOUS
<1> DEFINE below == SubSeq(s, 1, i - 1)
           above == SubSeq(s, i + 1, Len(s))
<1>2. below \in Seq(S) /\ Len(below) = i - 1 /\ \A j \in 1..(i - 1) : below[j] = s[j]
  BY <1>1, SubSeqProperties
<1>3. above \in Seq(S) /\ Len(above) = Len(s) - i /\ \A j \in 1..(Len(s) - i) : above[j] = s[j + i]
  BY <1>1, SubSeqProperties
<1>4. RemoveAt(s, i) = below \o above
  BY DEF RemoveAt
<1> HIDE DEF below, above
<1>5. /\ below \o above \in Seq(S)
      /\ Len(below \o above) = Len(below) + Len(above)
      /\ \A j \in 1..(Len(below) + Len(above)) :
           (below \o above)[j] = IF j <= Len(below) THEN below[j] ELSE above[j - Len(below)]
  BY <1>2, <1>3, ConcatProperties
<1>6. ASSUME NEW j \in 1..(Len(s) - 1)
      PROVE  RemoveAt(s, i)[j] = IF j < i THEN s[j] ELSE s[j + 1]
  <2>1. CASE j < i
    BY <1>1, <1>2, <1>3, <1>4, <1>5, <2>1
  <2>2. CASE ~(j < i)
    <3>1. j - (i - 1) \in 1..(Len(s) - i) /\ (j - (i - 1)) + i = j + 1
      BY <1>1, <2>2
    <3>2. above[j - (i - 1)] = s[j + 1]
      BY <1>3, <3>1
    <3>3. (below \o above)[j] = above[j - (i - 1)]
      BY <1>1, <1>2, <1>3, <1>5, <2>2
    <3> QED
      BY <1>4, <2>2, <3>2, <3>3
  <2> QED
    BY <2>1, <2>2
<1> QED
  BY <1>1, <1>2, <1>3, <1>4, <1>5, <1>6

(* The elements of a finite set in some order: each of them once.          *)
LEMMA SetInOrder ==
  ASSUME NEW S, IsFiniteSet(S)
  PROVE  /\ SetToSeq(S) \in Seq(S)
         /\ \A i, j \in DOMAIN SetToSeq(S) : SetToSeq(S)[i] = SetToSeq(S)[j] => i = j
         /\ \A x \in S : \E i \in DOMAIN SetToSeq(S) : SetToSeq(S)[i] = x
<1> DEFINE n == Cardinality(S)
<1>1. n \in Nat /\ ExistsBijection(1..n, S)
  BY FS_CardinalityType
<1>2. PICK g \in [1..n -> S] : IsInjective(g)
  BY <1>1 DEF ExistsBijection, Bijection, Injection
<1>3. SetToSeq(S) \in [1..n -> S] /\ IsInjective(SetToSeq(S))
  BY <1>2 DEF SetToSeq
<1>4. SetToSeq(S) \in Injection(1..n, S)
  BY <1>3 DEF Injection
<1>5. IsFiniteSet(1..n) /\ Cardinality(1..n) = n
  BY <1>1, FS_Interval
<1>6. SetToSeq(S) \in Surjection(1..n, S)
  BY <1>4, <1>5, FS_Injection
<1> HIDE DEF n
<1>7. SetToSeq(S) \in Seq(S)
  BY <1>1, <1>3
<1> QED
  BY <1>3, <1>6, <1>7 DEF IsInjective, Surjection
=============================================================================
