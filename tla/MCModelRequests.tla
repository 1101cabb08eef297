--------------------------- MODULE MCModelRequests ---------------------------
(***************************************************************************)
(* Instances of ModelRequests for TLC.  Three calls reach the ceiling of    *)
(* b1 and two reservations its warning exactly; b2 is higher in calls and  *)
(* tokens and lower in planning requests, so each can replace the other as *)
(* the lower one.                                                          *)
(***************************************************************************)
EXTENDS ModelRequests

CONSTANTS b1, b2

MCPlanningCeiling == [b \in Budgets |-> IF b = b1 THEN 2 ELSE 1]
MCCallCeiling     == [b \in Budgets |-> IF b = b1 THEN 3 ELSE 5]
MCUnitCeiling     == [b \in Budgets |-> IF b = b1 THEN 5 ELSE 8]
=============================================================================
