-------------------------- MODULE MCTaskScheduling --------------------------
(***************************************************************************)
(* Plans of two Tasks for TLC: independent, one after the other, one that   *)
(* reads what the other writes, and one whose Tasks write the same path     *)
(* under different patterns, which must not be accepted.                    *)
(***************************************************************************)
EXTENDS TaskScheduling

Lib == <<"lib", "**">>
App == <<"app", "**">>
Flat == <<"lib", "*">>

Contract(after, reads, writes) ==
    [after |-> after, reads |-> reads, depends |-> {}, writes |-> writes,
     checks |-> {reads}]

MCTasks == <<"t1", "t2">>
MCOrder == <<"t1", "t2">>
MCPaths == {<<"lib", "a">>, <<"app", "a">>}

PlanOf(first, second) == [k \in {"t1", "t2"} |-> IF k = "t1" THEN first ELSE second]

Independent == PlanOf(Contract({}, {Lib}, {Lib}), Contract({}, {App}, {App}))
Dependent   == PlanOf(Contract({}, {Lib}, {Lib}), Contract({"t1"}, {App}, {App}))
Hazardous   == PlanOf(Contract({}, {Lib}, {Lib}), Contract({}, {App, Lib}, {App}))
Colliding   == PlanOf(Contract({}, {Lib}, {Lib}), Contract({}, {Flat}, {Flat}))

\* A budget for two Workers and one that lowers the ceiling to one.
MCWorkerCeiling == [b \in {"wide", "narrow"} |-> IF b = "wide" THEN 2 ELSE 1]

MCPlans == {Independent, Dependent, Hazardous, Colliding}
=============================================================================
