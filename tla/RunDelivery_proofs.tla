------------------------- MODULE RunDelivery_proofs -------------------------
(***************************************************************************)
(* What RunDelivery promises follows from its steps: the consequence that   *)
(* RunControl, which implements it, inherits for its permits.               *)
(***************************************************************************)
EXTENDS RunDelivery, TLAPS

\* The slot is taken into account because Deliver adds the latest generation:
\* freshness of a pending one needs it to be above every delivered one.
DeliveryInv ==
    /\ slot \in Slots /\ granted \in Nat
    /\ delivered \subseteq 1 .. granted
    /\ slot = "pending" => granted # 0 /\ granted \notin delivered

\* No generation is delivered a second time: the one that waits has not been
\* delivered, and every delivered one was granted.
THEOREM GenerationsAreFresh == Spec => []PendingIsFresh
<1>1. Init => DeliveryInv
  BY DEF Init, DeliveryInv, Slots
<1>2. DeliveryInv /\ [Next]_vars => DeliveryInv'
  <2> SUFFICES ASSUME DeliveryInv, [Next]_vars PROVE DeliveryInv'
    OBVIOUS
  <2> USE DEF DeliveryInv, Slots
  <2>1. CASE Grant
    <3>1. 1 .. granted \subseteq 1 .. (granted + 1) /\ granted + 1 \notin 1 .. granted
      OBVIOUS
    <3> QED
      BY <2>1, <3>1 DEF Grant
  <2>2. CASE Withdraw
    BY <2>2 DEF Withdraw
  <2>3. CASE Deliver
    BY <2>3 DEF Deliver
  <2>4. CASE Release \/ Crash
    BY <2>4 DEF Release, Crash
  <2>5. CASE UNCHANGED vars
    BY <2>5 DEF vars
  <2> QED
    BY <2>1, <2>2, <2>3, <2>4, <2>5 DEF Next
<1>3. DeliveryInv => PendingIsFresh
  BY DEF DeliveryInv, PendingIsFresh
<1> QED
  BY <1>1, <1>2, <1>3, PTL DEF Spec
=============================================================================
