------------------------------- MODULE Basics -------------------------------
(***************************************************************************)
(* What the proofs of several modules rest on: induction over the natural  *)
(* numbers, stated with sets in place of predicates (a predicate is given  *)
(* as the set of numbers of which it holds), and parts of sequences.       *)
(***************************************************************************)
EXTENDS Integers, Sequences, SequenceTheorems, TLAPS
LOCAL INSTANCE WellFoundedInduction

(* Every set of natural numbers but the empty one has a least element.     *)
LEMMA LeastElement ==
  ASSUME NEW T \in SUBSET Nat, T # {}
  PROVE  \E x \in T : \A y \in T : x <= y
<1>1. PICK x \in T : \A y \in T : ~(<<y, x>> \in OpToRel(<, Nat))
  BY NatLessThanWellFounded, WFMin
<1>2. \A y \in T : <<y, x>> \in Nat \X Nat /\ (y < x => <<y, x>> \in OpToRel(<, Nat))
  BY DEF OpToRel
<1>3. \A y \in T : ~(y < x)
  BY <1>1, <1>2, Zenon
<1>4. \A y \in T : x <= y
  BY <1>3
<1>. QED  BY <1>4

(* A set that holds a number and with each number the next holds them all. *)
LEMMA InductionFrom ==
  ASSUME NEW S, NEW m \in Nat, NEW n \in Nat, m \in S,
         \A k \in m..(n - 1) : k \in S => k + 1 \in S
  PROVE  m..n \subseteq S
<1>. DEFINE T == {k \in m..n : k \notin S}
<1>1. ASSUME T # {} PROVE FALSE
  <2>. T \in SUBSET Nat
    OBVIOUS
  <2>. HIDE DEF T
  <2>1. PICK x \in T : \A y \in T : x <= y
    BY <1>1, LeastElement
  <2>. USE DEF T
  <2>2. x # m /\ x - 1 \in m..(n - 1) /\ x - 1 \notin T
    BY <2>1
  <2>3. x - 1 \in S
    BY <2>2
  <2>4. x - 1 + 1 \in S
    BY <2>2, <2>3
  <2>. QED  BY <2>1, <2>4
<1>. QED  BY <1>1

(* The first n elements of a sequence.                                     *)
LEMMA Beginning ==
  ASSUME NEW S, NEW s \in Seq(S), NEW n \in 0..Len(s)
  PROVE  /\ SubSeq(s, 1, n) \in Seq(S) /\ Len(SubSeq(s, 1, n)) = n
         /\ \A k \in 1..n : SubSeq(s, 1, n)[k] = s[k]
<1>1. Len(s) \in Nat /\ n \in Int /\ 1 \in Int
  BY LenProperties
<1>2. \A k \in 1..n : s[k] \in S
  BY ElementOfSeq, <1>1
<1>. QED  BY <1>1, <1>2, SubSeqProperties
=============================================================================
