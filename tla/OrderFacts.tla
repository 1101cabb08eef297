------------------------------ MODULE OrderFacts ------------------------------
(***************************************************************************)
(* Facts about the order of the natural numbers that the proofs share: a    *)
(* set of indices has a smallest element, which is how an operator that     *)
(* chooses the first of some turns, Attempts or leases is reasoned about,   *)
(* and induction over a length without an operator as a parameter.          *)
(***************************************************************************)
EXTENDS Naturals, Sequences, WellFoundedInduction, TLAPS

\* A set of natural numbers that is not empty has a smallest element.
LEMMA SmallestElement ==
    ASSUME NEW S \in SUBSET Nat, S # {}
    PROVE  \E i \in S : \A j \in S : i <= j
<1> DEFINE Less == {ss \in Nat \X Nat : ss[1] < ss[2]}
<1>1. IsWellFoundedOn(Less, Nat)
  BY NatLessThanWellFounded DEF OpToRel
<1> HIDE DEF Less
<1>2. PICK i \in S : \A j \in S : <<j, i>> \notin Less
  BY <1>1, WFMin
<1>3. \A j \in S : ~ (j < i)
  BY <1>2 DEF Less
<1> QED
  BY <1>3

\* A set of numbers that has 0 and, below the bound, each successor of its
\* elements, has all numbers up to the bound.
LEMMA UpTo ==
    ASSUME NEW S, NEW n \in Nat, 0 \in S,
           \A k \in 0 .. n - 1 : k \in S => k + 1 \in S
    PROVE  \A k \in 0 .. n : k \in S
<1> DEFINE Missing == {k \in 0 .. n : k \notin S}
<1> SUFFICES ASSUME Missing # {} PROVE FALSE
  OBVIOUS
<1>1. PICK k \in Missing : \A j \in Missing : k <= j
  <2>1. Missing \in SUBSET Nat
    OBVIOUS
  <2> QED
    BY <2>1, SmallestElement
<1>2. k # 0 /\ k - 1 \in 0 .. n - 1 /\ k - 1 \notin Missing
  BY <1>1
<1>3. k - 1 \in S
  BY <1>2
<1>4. k - 1 + 1 \in S
  BY <1>2, <1>3
<1> QED
  BY <1>1, <1>4
=============================================================================
