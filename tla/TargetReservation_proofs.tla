----------------------- MODULE TargetReservation_proofs -----------------------
(***************************************************************************)
(* Theorems about TargetReservation, for every set of revisions and any     *)
(* number of outside changes and failures.                                  *)
(*                                                                         *)
(* The inductive invariant is TypeOK together with                          *)
(*   RowInv       the row and the journal agree in every state of the Run,  *)
(*   ProcessInv   a process at work serves a Run in DRAFT, and from the     *)
(*                recorded intent on it works for that intent,              *)
(*   ObservedInv  what was observed still holds if nothing outside changed, *)
(*   UntouchedInv a repository that nobody else changed is never found in   *)
(*                conflict, and keeps nothing that the row does not tell.   *)
(* ProcessInv makes the process the only owner of the worktree while it     *)
(* works; without it neither the journal nor an observation would last      *)
(* until the transaction that relies on it.                                 *)
(***************************************************************************)
EXTENDS TargetReservation, TLAPS

Working == pc \notin {"closed", "idle"}

\* The steps of a process that has an intent and has not settled it.
UnderIntent ==
    \/ pc \in {"pin", "git", "check", "refresh", "repin", "settle"}
    \/ pc \in {"registration", "path", "decide"} /\ stage # "first"

RowInv ==
    /\ IntentUnderWay
    /\ st = "PLANNING" => phase = "REGISTERED_LOCKED"
    /\ phase = "REGISTERED_LOCKED" => ~unsettled

ProcessInv ==
    /\ Working => st = "DRAFT"
    /\ UnderIntent => phase = "CREATION_INTENT_RECORDED"
    /\ pc = "intend" => phase # "REGISTERED_LOCKED"

Held == PostState("LOCK") /\ target = "pinned" /\ mainSafe

ObservedInv ==
    /\ pc = "path" /\ quiet /\ reg.observable => reg = Listed /\ Compatible
    /\ pc \in {"decide", "settle"} /\ quiet /\ seen = "SETTLE" => Held
    /\ PlanningHeld

UntouchedInv ==
    outside = 0 =>
        /\ quiet /\ ~other /\ target = "pinned" /\ mainSafe
        /\ own # "absent" => phase # "ALLOCATED"
        /\ pc \in {"decide", "settle"} => seen # "CONFLICT"

Inv == TypeOK /\ RowInv /\ ProcessInv /\ ObservedInv /\ UntouchedInv

-----------------------------------------------------------------------------
(* Types *)

LEMMA UnreadType == Unread \in Registrations
BY DEF Unread, Registrations

LEMMA InitType == Init => TypeOK
<1> SUFFICES ASSUME Init PROVE TypeOK
  OBVIOUS
<1>1. TypeDisk /\ TypeRows
  BY DEF Init, TypeDisk, TypeRows
<1>2. TypeProcess
  BY UnreadType DEF Init, TypeProcess, Stages, Classes
<1>3. TypeHistory
  BY ReservationAssumption DEF Init, TypeHistory
<1> QED
  BY <1>1, <1>2, <1>3 DEF TypeOK

LEMMA ListedType == TypeDisk => Listed \in Registrations
BY DEF TypeDisk, Listed, Registrations

LEMMA ClassifyType == \A r, d : Classify(r, d) \in Classes
BY DEF Classify, Classes

LEMMA Frame ==
    /\ TypeDisk /\ UNCHANGED diskVars => TypeDisk'
    /\ TypeRows /\ UNCHANGED rowVars => TypeRows'
    /\ TypeHistory /\ UNCHANGED historyVars => TypeHistory'
BY DEF TypeDisk, TypeRows, TypeHistory, diskVars, rowVars, historyVars

LEMMA StepType == TypeOK /\ [Next]_vars => TypeOK'
<1> SUFFICES ASSUME TypeOK, [Next]_vars PROVE TypeOK'
  OBVIOUS
<1> USE Frame DEF TypeOK
<1>1. CASE ObserveRegistration
  <2>1. TypeProcess'
    BY <1>1, ListedType, UnreadType DEF ObserveRegistration, TypeProcess, freshVars
  <2>2. TypeHistory'
    BY <1>1 DEF ObserveRegistration, TypeHistory
  <2> QED
    BY <1>1, <2>1, <2>2 DEF ObserveRegistration
<1>2. CASE ObservePath
  <2>1. TypeProcess'
    BY <1>2, ClassifyType DEF ObservePath, TypeProcess, Classes, freshVars
  <2> QED
    BY <1>2, <2>1 DEF ObservePath
<1>3. CASE OpenRepository \/ Deliver
  <2>1. TypeProcess'
    BY <1>3 DEF OpenRepository, Deliver, Observe, TypeProcess, TypeRows, Stages,
                freshVars, localVars, rowVars
  <2> QED
    BY <1>3, <2>1 DEF OpenRepository, Deliver
<1>4. CASE Reuse \/ PreIntentStop
  <2>1. TypeProcess'
    BY <1>4 DEF Reuse, PreIntentStop, TypeProcess, freshVars, localVars
  <2>2. TypeRows'
    BY <1>4 DEF Reuse, PreIntentStop, TypeRows
  <2> QED
    BY <1>4, <2>1, <2>2 DEF Reuse, PreIntentStop
<1>5. CASE Proceed \/ LoadIntent \/ Conclude \/ SettleRaises
  <2>1. TypeProcess'
    BY <1>5 DEF Proceed, LoadIntent, Conclude, SettleRaises, Observe, TypeProcess,
                Stages, freshVars, localVars
  <2> QED
    BY <1>5, <2>1 DEF Proceed, LoadIntent, Conclude, SettleRaises
<1>6. CASE RecordIntent
  <2>1. TypeProcess'
    BY <1>6 DEF RecordIntent, Observe, TypeProcess, Stages, freshVars, localVars
  <2>2. TypeRows'
    BY <1>6 DEF RecordIntent, TypeRows, TypeProcess
  <2> QED
    BY <1>6, <2>1, <2>2 DEF RecordIntent
<1>7. CASE Apply("ADD") \/ Apply("LOCK")
  <2>1. TypeProcess'
    BY <1>7 DEF Apply, TypeProcess, freshVars
  <2> QED
    BY <1>7, <2>1 DEF Apply
<1>8. CASE PinTarget
  <2>1. TypeProcess'
    BY <1>8 DEF PinTarget, Observe, Unchanged, TypeProcess, Stages, freshVars
  <2> QED
    BY <1>8, <2>1 DEF PinTarget, Unchanged
<1>9. CASE RunGit
  <2>1. TypeProcess'
    BY <1>9 DEF RunGit, Returns, TypeProcess, freshVars
  <2>2. TypeDisk'
    BY <1>9 DEF RunGit, GitDone, GitPartly, TypeProcess, TypeDisk
  <2>3. UNCHANGED <<quiet, outside>> /\ (UNCHANGED failures \/ GitFails)
    BY <1>9 DEF RunGit
  <2>4. TypeHistory'
    BY <2>3, ReservationAssumption DEF GitFails, TypeHistory
  <2> QED
    BY <1>9, <2>1, <2>2, <2>4 DEF RunGit
<1>10. CASE CheckPost \/ RefreshRepository \/ RepinTarget
  <2>1. TypeProcess'
    <3>1. PostState(op) \in BOOLEAN
      BY DEF PostState, ExactPair
    <3> QED
      BY <1>10, <3>1 DEF CheckPost, RefreshRepository, RepinTarget, Observe, Unchanged,
                   TypeProcess, Stages
  <2> QED
    BY <1>10, <2>1 DEF CheckPost, RefreshRepository, RepinTarget, Unchanged
<1>11. CASE Settle
  <2>1. TypeProcess'
    BY <1>11 DEF Settle, TypeProcess, freshVars, localVars
  <2>2. TypeRows'
    BY <1>11 DEF Settle, PhaseAfter, StateAfter, Result, TypeRows
  <2> QED
    BY <1>11, <2>1, <2>2 DEF Settle
<1>12. CASE PlanningToDraft \/ Revise
  <2>1. TypeProcess'
    BY <1>12 DEF PlanningToDraft, Revise, TypeProcess, freshVars, localVars
  <2>2. TypeRows'
    BY <1>12 DEF PlanningToDraft, Revise, TypeRows
  <2>3. TypeHistory'
    BY <1>12, ReservationAssumption DEF PlanningToDraft, Revise, TypeHistory
  <2> QED
    BY <1>12, <2>1, <2>2, <2>3 DEF PlanningToDraft, Revise
<1>13. CASE Fault \/ Crash
  <2>1. TypeProcess'
    BY <1>13 DEF Fault, Crash, Stopping, TypeProcess, freshVars, localVars
  <2>2. TypeHistory'
    BY <1>13, ReservationAssumption DEF Fault, Crash, Stopping, TypeHistory
  <2>3. TypeRows'
    BY <1>13 DEF Fault, Crash, Stopping, TypeRows
  <2> QED
    BY <1>13, <2>1, <2>2, <2>3 DEF Fault, Crash, Stopping
<1>14. CASE Outside
  <2>1. TypeProcess'
    BY <1>14 DEF Outside, TypeProcess, freshVars, localVars
  <2>2. TypeDisk'
    BY <1>14 DEF Outside, TypeDisk
  <2>3. outside < MaxOutside /\ outside' = outside + 1 /\ failures' = failures
        /\ quiet' \in BOOLEAN
    BY <1>14 DEF Outside
  <2>4. TypeHistory'
    BY <2>3, ReservationAssumption DEF TypeHistory
  <2> QED
    BY <1>14, <2>1, <2>2, <2>4 DEF Outside
<1>15. CASE Continue
  <2>1. TypeProcess'
    BY <1>15 DEF Continue, TypeProcess, freshVars, localVars
  <2>2. TypeRows'
    BY <1>15 DEF Continue, TypeRows
  <2> QED
    BY <1>15, <2>1, <2>2 DEF Continue
<1>16. CASE UNCHANGED vars
  BY <1>16 DEF TypeProcess, vars, freshVars, localVars
<1> QED
  BY <1>1, <1>2, <1>3, <1>4, <1>5, <1>6, <1>7, <1>8, <1>9, <1>10, <1>11, <1>12,
     <1>13, <1>14, <1>15, <1>16 DEF Next, Process

\* The row, the journal, the processes and the worktrees keep their types.
THEOREM TypeCorrect == Spec => []TypeOK
<1> QED
  BY InitType, StepType, PTL DEF Spec

-----------------------------------------------------------------------------
(* The row, the journal and the process *)

\* The transactions that write the rows; no other step does.
RowWrites == \/ Reuse \/ PreIntentStop \/ RecordIntent \/ Settle
             \/ PlanningToDraft \/ Revise \/ Continue \/ Crash

LEMMA RowsChange == [Next]_vars => RowWrites \/ UNCHANGED rowVars
<1> SUFFICES ASSUME [Next]_vars PROVE RowWrites \/ UNCHANGED rowVars
  OBVIOUS
<1>1. CASE ObserveRegistration \/ ObservePath \/ OpenRepository \/ Deliver
  BY <1>1 DEF ObserveRegistration, ObservePath, OpenRepository, Deliver
<1>2. CASE Proceed \/ LoadIntent \/ Apply("ADD") \/ Apply("LOCK") \/ Conclude
  BY <1>2 DEF Proceed, LoadIntent, Apply, Conclude
<1>3. CASE PinTarget \/ RunGit \/ CheckPost \/ RefreshRepository \/ RepinTarget
  BY <1>3 DEF PinTarget, RunGit, CheckPost, RefreshRepository, RepinTarget, Unchanged
<1>4. CASE SettleRaises \/ Fault \/ Outside
  BY <1>4 DEF SettleRaises, Fault, Stopping, Outside, rowVars
<1>5. CASE UNCHANGED vars
  BY <1>5 DEF vars
<1> QED
  BY <1>1, <1>2, <1>3, <1>4, <1>5 DEF Next, Process, RowWrites

LEMMA RowStep == TypeOK /\ RowInv /\ ProcessInv /\ [Next]_vars => RowInv'
<1> SUFFICES ASSUME TypeOK, RowInv, ProcessInv, [Next]_vars PROVE RowInv'
  OBVIOUS
<1> USE DEF RowInv, ProcessInv, IntentUnderWay, Working, UnderIntent, TypeOK, TypeRows
<1>1. CASE Reuse \/ PreIntentStop
  BY <1>1 DEF Reuse, PreIntentStop, Deciding
<1>2. CASE RecordIntent
  BY <1>2 DEF RecordIntent
<1>3. CASE Settle
  BY <1>3 DEF Settle, PhaseAfter, StateAfter, Result
<1>4. CASE PlanningToDraft \/ Revise
  BY <1>4 DEF PlanningToDraft, Revise
<1>5. CASE Continue \/ Crash
  BY <1>5 DEF Continue, Crash, Stopping
<1>6. CASE UNCHANGED rowVars
  BY <1>6 DEF rowVars
<1> QED
  BY <1>1, <1>2, <1>3, <1>4, <1>5, <1>6, RowsChange DEF RowWrites

LEMMA ProcessStep == TypeOK /\ RowInv /\ ProcessInv /\ [Next]_vars => ProcessInv'
<1> SUFFICES ASSUME TypeOK, RowInv, ProcessInv, [Next]_vars PROVE ProcessInv'
  OBVIOUS
<1> USE DEF RowInv, ProcessInv, IntentUnderWay, Working, UnderIntent, TypeOK,
            TypeRows, TypeProcess, rowVars
<1>1. CASE ObserveRegistration \/ ObservePath \/ OpenRepository \/ Continue \/ Deliver
  BY <1>1 DEF ObserveRegistration, ObservePath, OpenRepository, Continue, Deliver, Observe
<1>2. CASE Reuse \/ PreIntentStop \/ Proceed \/ RecordIntent \/ LoadIntent
  BY <1>2 DEF Reuse, PreIntentStop, Proceed, RecordIntent, LoadIntent, Deciding, Observe
<1>3. CASE Apply("ADD") \/ Apply("LOCK") \/ Conclude
  BY <1>3 DEF Apply, Conclude
<1>4. CASE PinTarget \/ RunGit \/ CheckPost \/ RefreshRepository \/ RepinTarget
  BY <1>4 DEF PinTarget, RunGit, CheckPost, RefreshRepository, RepinTarget, Observe,
              Unchanged, Returns
<1>5. CASE Settle \/ SettleRaises
  BY <1>5 DEF Settle, SettleRaises
<1>6. CASE PlanningToDraft \/ Revise \/ Fault \/ Crash \/ Outside
  BY <1>6 DEF PlanningToDraft, Revise, Fault, Crash, Stopping, Outside
<1>7. CASE UNCHANGED vars
  BY <1>7 DEF vars
<1> QED
  BY <1>1, <1>2, <1>3, <1>4, <1>5, <1>6, <1>7 DEF Next, Process

-----------------------------------------------------------------------------
(* What was observed *)

\* The steps that write the repository.
DiskWrites == RunGit \/ Outside

LEMMA DiskChange == [Next]_vars => DiskWrites \/ UNCHANGED diskVars
<1> SUFFICES ASSUME [Next]_vars PROVE DiskWrites \/ UNCHANGED diskVars
  OBVIOUS
<1>1. CASE ObserveRegistration \/ ObservePath \/ OpenRepository \/ Continue \/ Deliver
  BY <1>1 DEF ObserveRegistration, ObservePath, OpenRepository, Continue, Deliver
<1>2. CASE Reuse \/ PreIntentStop \/ Proceed \/ RecordIntent \/ LoadIntent
  BY <1>2 DEF Reuse, PreIntentStop, Proceed, RecordIntent, LoadIntent
<1>3. CASE Apply("ADD") \/ Apply("LOCK") \/ Conclude \/ Settle \/ SettleRaises
  BY <1>3 DEF Apply, Conclude, Settle, SettleRaises
<1>4. CASE PinTarget \/ CheckPost \/ RefreshRepository \/ RepinTarget
  BY <1>4 DEF PinTarget, CheckPost, RefreshRepository, RepinTarget, Unchanged
<1>5. CASE PlanningToDraft \/ Revise \/ Fault \/ Crash
  BY <1>5 DEF PlanningToDraft, Revise, Fault, Crash, Stopping
<1>6. CASE UNCHANGED vars
  BY <1>6 DEF vars
<1> QED
  BY <1>1, <1>2, <1>3, <1>4, <1>5, <1>6 DEF Next, Process, DiskWrites

\* An observation that begins now and is not disturbed tells the truth.
LEMMA ListedHeld ==
    ASSUME TypeDisk, Compatible, Classify(Listed, dir) = "SETTLE"
    PROVE  Held
BY DEF TypeDisk, Compatible, ExactPair, AbsentPair, Classify, Listed, Held, PostState

\* Where all is as the Run left it, the classes are those of its own progress.
LEMMA ListedNoConflict ==
    ASSUME TypeDisk, Compatible, mainSafe, target = "pinned"
    PROVE  Classify(Listed, dir) # "CONFLICT"
BY DEF TypeDisk, Compatible, ExactPair, AbsentPair, Classify, Listed

LEMMA UnreadUnobservable ==
    ASSUME NEW r \in Registrations, ~r.observable, NEW d
    PROVE  Classify(r, d) = "UNOBSERVABLE"
BY DEF Classify

LEMMA ObservedStep ==
    TypeOK /\ RowInv /\ ProcessInv /\ ObservedInv /\ [Next]_vars => ObservedInv'
<1> SUFFICES ASSUME TypeOK, RowInv, ProcessInv, ObservedInv, [Next]_vars
             PROVE  ObservedInv'
  OBVIOUS
<1> USE DEF ObservedInv, PlanningHeld, Held, PostState, ExactPair
<1>1. CASE ObserveRegistration
  <2>1. st # "PLANNING"
    BY <1>1 DEF ObserveRegistration, ProcessInv, Working
  <2>2. (reg' = Listed /\ Compatible) \/ ~reg'.observable
    BY <1>1 DEF ObserveRegistration, Unread
  <2>3. Listed' = Listed /\ Compatible' = Compatible
    BY <1>1 DEF ObserveRegistration, diskVars, Listed, Compatible, AbsentPair
  <2> QED
    BY <1>1, <2>1, <2>2, <2>3 DEF ObserveRegistration, rowVars
<1>2. CASE ObservePath
  <2>1. quiet /\ seen' = "SETTLE" => Held
    <3> SUFFICES ASSUME quiet, seen' = "SETTLE" PROVE Held
      OBVIOUS
    <3>1. Classify(reg, dir) = "SETTLE"
      BY <1>2 DEF ObservePath
    <3>2. reg.observable
      BY <3>1, UnreadUnobservable DEF TypeOK, TypeProcess
    <3>3. reg = Listed /\ Compatible
      BY <1>2, <3>2 DEF ObservePath
    <3> QED
      BY <3>1, <3>3, ListedHeld DEF TypeOK
  <2> QED
    BY <1>2, <2>1 DEF ObservePath, diskVars, rowVars, historyVars
<1>3. CASE RunGit
  <2>1. pc = "git" /\ st = "DRAFT" /\ st' = st /\ pc' \in {"check", "idle"}
    BY <1>3 DEF RunGit, Returns, ProcessInv, Working, rowVars
  <2> QED
    BY <2>1
<1>4. CASE Outside
  BY <1>4 DEF Outside
<1>5. CASE Settle
  <2>1. st' = "PLANNING" => seen = "SETTLE"
    BY <1>5 DEF Settle, StateAfter, Result
  <2> QED
    BY <1>5, <2>1 DEF Settle, diskVars, historyVars
<1>6. CASE Reuse
  BY <1>6 DEF Reuse, Deciding, diskVars, localVars, historyVars
<1>7. CASE PreIntentStop \/ Proceed \/ RecordIntent \/ LoadIntent
  BY <1>7 DEF PreIntentStop, Proceed, RecordIntent, LoadIntent, Observe, diskVars,
              rowVars, historyVars
<1>8. CASE Apply("ADD") \/ Apply("LOCK") \/ Conclude \/ SettleRaises
  BY <1>8 DEF Apply, Conclude, SettleRaises, diskVars, rowVars, historyVars, localVars
<1>9. CASE PinTarget \/ CheckPost \/ RefreshRepository \/ RepinTarget
  BY <1>9 DEF PinTarget, CheckPost, RefreshRepository, RepinTarget, Observe,
              Unchanged, diskVars, rowVars, historyVars
<1>10. CASE OpenRepository \/ Continue \/ Deliver \/ Fault \/ Crash
  BY <1>10 DEF OpenRepository, Continue, Deliver, Observe, Fault, Crash, Stopping,
               diskVars, rowVars, historyVars
<1>11. CASE PlanningToDraft \/ Revise
  BY <1>11 DEF PlanningToDraft, Revise, diskVars, localVars, Listed, Compatible,
               AbsentPair
<1>12. CASE UNCHANGED vars
  BY <1>12 DEF vars, diskVars, rowVars, localVars, historyVars, Listed, Compatible,
               AbsentPair
<1> QED
  BY <1>1, <1>2, <1>3, <1>4, <1>5, <1>6, <1>7, <1>8, <1>9, <1>10, <1>11, <1>12
     DEF Next, Process

-----------------------------------------------------------------------------
(* A repository that nobody else changes *)

LEMMA UntouchedStep == Inv /\ [Next]_vars => UntouchedInv'
<1> SUFFICES ASSUME Inv, [Next]_vars, outside' = 0
             PROVE  /\ quiet' /\ ~other' /\ target' = "pinned" /\ mainSafe'
                    /\ own' # "absent" => phase' # "ALLOCATED"
                    /\ pc' \in {"decide", "settle"} => seen' # "CONFLICT"
  BY DEF UntouchedInv
<1>0. ~Outside
  BY SMT DEF Inv, TypeOK, TypeHistory, Outside
<1>a. outside = 0
  <2>1. CASE ObserveRegistration \/ ObservePath \/ OpenRepository \/ Deliver
    BY <2>1 DEF ObserveRegistration, ObservePath, OpenRepository, Deliver, historyVars
  <2>2. CASE RowWrites
    BY <2>2 DEF RowWrites, Reuse, PreIntentStop, RecordIntent, Settle, PlanningToDraft,
                Revise, Continue, Crash, Stopping, historyVars
  <2>3. CASE Proceed \/ LoadIntent \/ Apply("ADD") \/ Apply("LOCK") \/ Conclude
             \/ SettleRaises
    BY <2>3 DEF Proceed, LoadIntent, Apply, Conclude, SettleRaises, historyVars
  <2>4. CASE PinTarget \/ RunGit \/ CheckPost \/ RefreshRepository \/ RepinTarget
    BY <2>4 DEF PinTarget, RunGit, CheckPost, RefreshRepository, RepinTarget, historyVars
  <2>5. CASE Fault \/ UNCHANGED vars
    BY <2>5 DEF Fault, Stopping, vars, historyVars
  <2> QED
    BY <1>0, <2>1, <2>2, <2>3, <2>4, <2>5 DEF Next, Process, RowWrites
<1>b. /\ quiet /\ ~other /\ target = "pinned" /\ mainSafe
      /\ own # "absent" => phase # "ALLOCATED"
      /\ pc \in {"decide", "settle"} => seen # "CONFLICT"
  BY <1>a DEF Inv, UntouchedInv
<1>1. CASE ObserveRegistration
  BY <1>1, <1>b DEF ObserveRegistration, diskVars, rowVars
<1>2. CASE ObservePath
  <2>1. seen' # "CONFLICT"
    <3>1. CASE ~reg.observable
      BY <1>2, <3>1, UnreadUnobservable DEF ObservePath, Inv, TypeOK, TypeProcess
    <3>2. CASE reg.observable
      <4>1. reg = Listed /\ Compatible
        BY <1>2, <1>b, <3>2 DEF ObservePath, Inv, ObservedInv
      <4> QED
        BY <1>2, <1>b, <4>1, ListedNoConflict DEF ObservePath, Inv, TypeOK
    <3> QED
      BY <3>1, <3>2
  <2> QED
    BY <1>2, <1>b, <2>1 DEF ObservePath, diskVars, rowVars, historyVars
<1>3. CASE RunGit
  <2>1. phase' = "CREATION_INTENT_RECORDED"
    BY <1>3 DEF RunGit, Inv, ProcessInv, UnderIntent, rowVars
  <2> QED
    BY <1>3, <1>b, <2>1 DEF RunGit, Returns
<1>4. CASE Settle
  <2>1. seen # "CONFLICT"
    BY <1>4, <1>b DEF Settle
  <2>2. phase' # "ALLOCATED"
    BY <1>4, <2>1 DEF Settle, PhaseAfter, Result
  <2> QED
    BY <1>4, <1>b, <2>2 DEF Settle, diskVars, historyVars
<1>5. CASE Reuse
  BY <1>5, <1>b DEF Reuse, diskVars, rowVars, historyVars
<1>6. CASE PreIntentStop
  BY <1>6, <1>b DEF PreIntentStop, diskVars, rowVars, historyVars
<1>7. CASE Proceed
  BY <1>7, <1>b DEF Proceed, diskVars, rowVars, historyVars
<1>8. CASE RecordIntent
  BY <1>8, <1>b DEF RecordIntent, Observe, diskVars, rowVars, historyVars
<1>9. CASE LoadIntent
  BY <1>9, <1>b DEF LoadIntent, Observe, diskVars, rowVars, historyVars
<1>10. CASE \E kind \in {"ADD", "LOCK"} : Apply(kind)
  <2>1. quiet' = quiet /\ pc' = "pin" /\ UNCHANGED <<diskVars, rowVars>>
    BY <1>10 DEF Apply, historyVars
  <2> QED
    BY <1>b, <2>1 DEF diskVars, rowVars
<1>11. CASE Conclude
  BY <1>11, <1>b DEF Conclude, localVars, diskVars, rowVars, historyVars
<1>12. CASE SettleRaises
  BY <1>12, <1>b DEF SettleRaises, diskVars, rowVars, historyVars
<1>13. CASE PinTarget
  BY <1>13, <1>b DEF PinTarget, Observe, Unchanged, diskVars, rowVars, historyVars
<1>14. CASE CheckPost
  BY <1>14, <1>b DEF CheckPost, Observe, Unchanged, diskVars, rowVars, historyVars
<1>15. CASE RefreshRepository
  BY <1>15, <1>b DEF RefreshRepository, Observe, Unchanged, diskVars, rowVars, historyVars
<1>16. CASE RepinTarget
  BY <1>16, <1>b DEF RepinTarget, Observe, Unchanged, diskVars, rowVars, historyVars
<1>17. CASE OpenRepository
  BY <1>17, <1>b DEF OpenRepository, diskVars, rowVars, historyVars
<1>18. CASE Deliver
  BY <1>18, <1>b DEF Deliver, Observe, diskVars, rowVars, historyVars
<1>19. CASE Fault
  BY <1>19, <1>b DEF Fault, Stopping, diskVars, rowVars, historyVars
<1>20. CASE Crash
  BY <1>20, <1>b DEF Crash, Stopping, diskVars, rowVars, historyVars
<1>21. CASE PlanningToDraft
  BY <1>21, <1>b DEF PlanningToDraft, localVars, diskVars, rowVars, historyVars
<1>22. CASE Revise
  BY <1>22, <1>b DEF Revise, localVars, diskVars, rowVars, historyVars
<1>23. CASE Continue
  BY <1>23, <1>b DEF Continue, localVars, diskVars, historyVars
<1>24. CASE UNCHANGED vars
  BY <1>24, <1>b DEF vars, localVars, diskVars, rowVars, historyVars
<1> QED
  BY <1>0, <1>1, <1>2, <1>3, <1>4, <1>5, <1>6, <1>7, <1>8, <1>9, <1>10, <1>11,
     <1>12, <1>13, <1>14, <1>15, <1>16, <1>17, <1>18, <1>19, <1>20, <1>21,
     <1>22, <1>23, <1>24
     DEF Next, Process

-----------------------------------------------------------------------------
(* The theorems *)

LEMMA InitInv == Init => Inv
<1> SUFFICES ASSUME Init PROVE Inv
  OBVIOUS
<1>1. RowInv /\ ProcessInv
  BY DEF Init, RowInv, IntentUnderWay, ProcessInv, Working, UnderIntent
<1>2. ObservedInv /\ UntouchedInv
  BY DEF Init, ObservedInv, PlanningHeld, UntouchedInv
<1> QED
  BY <1>1, <1>2, InitType DEF Inv

LEMMA StepInv == Inv /\ [Next]_vars => Inv'
BY StepType, RowStep, ProcessStep, ObservedStep, UntouchedStep DEF Inv

\* The inductive invariant holds in every reachable state.
THEOREM Invariant == Spec => []Inv
<1> QED
  BY InitInv, StepInv, PTL DEF Spec

\* Unless another program interferes after the observation began, a Run plans
\* only while its worktree is the sole one, at the pinned target and locked.
THEOREM PlansOnlyWhileHeld == Spec => []PlanningHeld
<1>1. Inv => PlanningHeld
  BY DEF Inv, ObservedInv
<1> QED
  BY <1>1, Invariant, PTL

\* A worktree of this Run is never forgotten by its row, and the row has a
\* creation under way exactly while the journal has an intent without result.
THEOREM ReservationIsRecorded == Spec => []ReservationRecorded
<1>1. Inv => ReservationRecorded
  BY DEF Inv, RowInv, UntouchedInv, ReservationRecorded, CreatedIsRecorded
<1> QED
  BY <1>1, Invariant, PTL

LEMMA StepUnderIntent ==
    ASSUME Inv, [Next]_vars, outside' = outside, <<own, dir>>' # <<own, dir>>
    PROVE  unsettled /\ phase = "CREATION_INTENT_RECORDED" /\ st = "DRAFT"
<1>1. RunGit
  <2>1. ~Outside
    BY SMT DEF Inv, TypeOK, TypeHistory, Outside
  <2> QED
    BY <2>1, DiskChange DEF DiskWrites, diskVars
<1> QED
  BY <1>1 DEF RunGit, Inv, ProcessInv, RowInv, IntentUnderWay, Working, UnderIntent

LEMMA StepForGood ==
    ASSUME Inv, [Next]_vars, phase = "REGISTERED_LOCKED"
    PROVE  phase' = phase /\ ~unsettled' /\ (outside' = outside => own' = own)
<1>1. outside' = outside => own' = own
  BY StepUnderIntent
<1>2. ~unsettled /\ ~UnderIntent /\ pc # "intend"
  BY DEF Inv, RowInv, ProcessInv
<1>3. CASE UNCHANGED rowVars
  BY <1>1, <1>2, <1>3 DEF rowVars
<1>4. CASE RowWrites
  <2>1. phase' = phase /\ unsettled' = unsettled
    BY <1>2, <1>4 DEF RowWrites, Reuse, PreIntentStop, RecordIntent, Settle,
                      PlanningToDraft, Revise, Continue, Crash, Stopping, UnderIntent
  <2> QED
    BY <1>1, <1>2, <2>1
<1> QED
  BY <1>3, <1>4, RowsChange

\* git is called for an unsettled intent only, and never again once the
\* worktree is registered and locked.
THEOREM GitOnlyForAnIntent == Spec => ActsWithinIntent
<1> DEFINE Within == outside' = outside /\ <<own, dir>>' # <<own, dir>> =>
               unsettled /\ phase = "CREATION_INTENT_RECORDED" /\ st = "DRAFT"
           ForGood == phase = "REGISTERED_LOCKED" =>
               phase' = phase /\ ~unsettled' /\ (outside' = outside => own' = own)
<1>1. Inv /\ [Next]_vars => [Within]_vars /\ [ForGood]_vars
  BY StepUnderIntent, StepForGood
<1>2. Spec => [][Within]_vars /\ [][ForGood]_vars
  BY <1>1, Invariant, PTL DEF Spec
<1> QED
  BY <1>2 DEF ActsWithinIntent, OnlyUnderIntent, RegisteredForGood
=============================================================================
