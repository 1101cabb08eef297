--------------------------- MODULE ApprovedActions ---------------------------
(***************************************************************************)
(* What approval promises of a risky action, and nothing about how: it waits *)
(* for a human, happens at most once and only while it is approved, and an  *)
(* action whose outcome nobody knows is never tried again.                  *)
(***************************************************************************)
EXTENDS Naturals

CONSTANT Actions

VARIABLES
    phase,  \* where the approval of an action stands
    done    \* how often the action happened

vars == <<phase, done>>

Phases == {"none", "waiting", "approved", "dead", "settled", "uncertain"}

Init ==
    /\ phase = [a \in Actions |-> "none"]
    /\ done = [a \in Actions |-> 0]

Move(a, from, to) ==
    /\ phase[a] = from
    /\ phase' = [phase EXCEPT ![a] = to]
    /\ UNCHANGED done

Propose(a) == Move(a, "none", "waiting")

Approve(a) == Move(a, "waiting", "approved")

Lapse(a) == Move(a, "waiting", "dead")

Perform(a) ==
    /\ phase[a] = "approved" /\ done[a] = 0
    /\ done' = [done EXCEPT ![a] = 1]
    /\ UNCHANGED phase

Settle(a) == Move(a, "approved", "settled")

GiveUp(a) == Move(a, "approved", "uncertain")

Next == \E a \in Actions :
            \/ Propose(a) \/ Approve(a) \/ Lapse(a)
            \/ Perform(a) \/ Settle(a) \/ GiveUp(a)

Spec == Init /\ [][Next]_vars

=============================================================================
