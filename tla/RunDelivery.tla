----------------------------- MODULE RunDelivery -----------------------------
(***************************************************************************)
(* What the Runtime Permits of one Run promise, whatever commands, runtimes *)
(* and crashes do: the authority to drive the Run is granted one generation *)
(* at a time, every generation is delivered at most once, nobody takes the  *)
(* Run away from the runtime that is driving it, and a Run whose runtime    *)
(* died is driven again only under a new generation.                        *)
(***************************************************************************)
EXTENDS Naturals

VARIABLES
    slot,       \* who may drive the Run now
    granted,    \* generations granted so far
    delivered   \* generations a runtime has taken

vars == <<slot, granted, delivered>>

Slots == {"none", "pending", "running", "orphaned"}

Init == slot = "none" /\ granted = 0 /\ delivered = {}

Grant ==
    /\ slot \in {"none", "orphaned"}
    /\ slot' = "pending" /\ granted' = granted + 1
    /\ UNCHANGED delivered

Withdraw ==
    /\ slot = "pending" /\ slot' = "none"
    /\ UNCHANGED <<granted, delivered>>

Deliver ==
    /\ slot = "pending" /\ slot' = "running"
    /\ delivered' = delivered \cup {granted}
    /\ UNCHANGED granted

Release ==
    /\ slot = "running" /\ slot' = "none"
    /\ UNCHANGED <<granted, delivered>>

Crash ==
    /\ slot = "running" /\ slot' = "orphaned"
    /\ UNCHANGED <<granted, delivered>>

Next == Grant \/ Withdraw \/ Deliver \/ Release \/ Crash

Spec == Init /\ [][Next]_vars

\* A pending generation has not been delivered yet: no generation is ever
\* delivered a second time.
PendingIsFresh ==
    /\ delivered \subseteq 1 .. granted
    /\ slot = "pending" => granted \notin delivered

\* The promise from any moment on, for a Run whose first steps are in the past.
Rest == slot \in Slots /\ granted \in Nat /\ PendingIsFresh /\ [][Next]_vars
=============================================================================
