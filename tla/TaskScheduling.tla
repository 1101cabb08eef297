--------------------------- MODULE TaskScheduling ---------------------------
(***************************************************************************)
(* Which Task of an approved Plan gets the next Worker Attempt: the calls   *)
(* allocated to a Task in tranches, the leases of Attempts on what the Task *)
(* may write, the pauses of a Task and its resumption by a human, and the   *)
(* scheduler, which selects in one transaction and creates the Attempt in   *)
(* another.  WorkerActions has what an Attempt does in a turn; here a turn  *)
(* is a model call and the way it ends.                                     *)
(*                                                                         *)
(* Tranches, checkpoints, resumption and leases are transactions of the     *)
(* authority that its callers commit while the runtime schedules.           *)
(***************************************************************************)
EXTENDS PlanScopes, FiniteSets

CONSTANTS
    Tasks,              \* task ids in the order of the scheduler
    Plans,              \* contracts of the Plans considered: Task -> contract
    Order,              \* the promotion order that each of them proposes
    Paths,              \* paths on which leases are compared
    WorkerCeiling,      \* concurrent_worker_ceiling of each budget
    TrancheCalls, Bootstraps, CallCeiling, AttemptCeiling, ResumeCeiling,
    CheckpointCeiling, InvalidCeiling,  \* V01MechanismLimits
    MaxLapses,          \* bound: leases whose time runs out
    MaxLeases,          \* bound: leases of the Run when another is issued
    MaxNames,           \* bound: ids of Attempts that are named
    None

TaskSet == {Tasks[i] : i \in DOMAIN Tasks}
Budgets == DOMAIN WorkerCeiling

ASSUME SchedulingAssumption ==
    /\ Tasks \in Seq(TaskSet) /\ \A p \in Plans : DOMAIN p = TaskSet
    /\ WorkerCeiling \in [Budgets -> Nat \ {0}]
    /\ {TrancheCalls, Bootstraps, CallCeiling, AttemptCeiling, ResumeCeiling,
        CheckpointCeiling, InvalidCeiling, MaxLapses, MaxLeases,
        MaxNames} \subseteq Nat \ {0}
    /\ None \notin TaskSet

\* Patterns and paths are read from text: sequences of segments, not empty.
ASSUME ScopesAssumption ==
    /\ \A p \in Plans : \A k \in TaskSet :
           p[k].reads \cup p[k].writes \subseteq Seq(STRING) \ {<<>>}
    /\ Paths \subseteq Seq(STRING)

VARIABLES
    plan,       \* the approved contracts
    budget,     \* the approved budget
    run,        \* runs.state
    causes,     \* dispatch_close_causes: dispatch is open when there is none
    task,       \* tasks.state, "NONE" before the first Attempt
    attempts,   \* the Attempts in order of creation
    leases,     \* the leases in order of issue
    counters,   \* TaskBudgetState of each Task
    tranches,   \* the Attempt named by each tranche of a Task
    pause,      \* the active pause of a Task
    resume,     \* the Attempt reserved by a resume allocation not yet consumed
    usage,      \* settled use of the metric CONCURRENT_WORKERS
    named,      \* Attempt ids handed out so far
    pc,         \* the step of the runtime
    sel,        \* the Task it has selected
    hand,       \* the Attempt it has in hand
    fresh       \* no commit since the runtime read the audit sequence

runVars     == <<plan, budget, run, causes>>
attemptVars == <<task, attempts, leases, usage>>
budgetVars  == <<counters, tranches, pause, resume, named>>
runtimeVars == <<pc, sel, hand, fresh>>
vars == <<runVars, attemptVars, budgetVars, runtimeVars>>

Causes  == {"BUDGET_EXHAUSTED", "TASK_PAUSED"}
Reasons == {"NO_PROGRESS", "TASK_CALL_CEILING", "REPEATED_CHECKPOINT",
            "REPEATED_INVALID_ACTION"}
Resumable == Reasons \ {"TASK_CALL_CEILING"}
Live == {"RUNNING", "WAITING_APPROVAL"}

NoCounters == [allocated |-> 0, spent |-> 0, bootstraps |-> 0, attempts |-> 0,
               resumes |-> 0, active |-> 0, remaining |-> 0,
               checkpoints |-> 0, invalid |-> 0]

Counters == [allocated : 0 .. CallCeiling, spent : 0 .. CallCeiling,
             bootstraps : 0 .. Bootstraps, attempts : 0 .. AttemptCeiling,
             resumes : 0 .. ResumeCeiling, active : 0 .. CallCeiling,
             remaining : 0 .. TrancheCalls,
             checkpoints : 0 .. CheckpointCeiling, invalid : 0 .. InvalidCeiling]

\* What a Plan says of each pair of Tasks.
HazardsOf  == [p \in Plans |-> PromotionHazards(p)]
OverlapsOf == [p \in Plans |-> {e \in TaskSet \X TaskSet :
                                  AnyOverlap(p[e[1]].writes, p[e[2]].writes)}]

AttemptRows == [task : TaskSet, id : 1 .. named, tranche : 0 .. CallCeiling,
                bound : Budgets, state : Live \cup {"SUCCEEDED", "FAILED", "STALE"}]

\* "under" is no column: it remembers the budget approved at the issue.
LeaseRows == [task : TaskSet, id : 1 .. named, lapsed : BOOLEAN, under : Budgets,
              state : {"ACTIVE", "EXPIRED", "REVOKED"}]

Pauses == [reason : Reasons, budget : Budgets, snapshot : Counters \X Nat]

TypeRun ==
    /\ plan \in Plans /\ budget \in Budgets
    /\ run \in {"ACTIVE", "PAUSED"} /\ causes \subseteq Causes

TypeAttempts ==
    /\ attempts \in Seq(AttemptRows) /\ leases \in Seq(LeaseRows)
    /\ usage \in 0 .. Len(leases)

TypeTasks ==
    /\ task \in [TaskSet -> {"NONE", "READY", "ACTIVE", "PAUSED"}]
    /\ pause \in [TaskSet -> {None} \cup Pauses]

TypeBudget ==
    /\ named \in Nat /\ counters \in [TaskSet -> Counters]
    /\ tranches \in [TaskSet -> Seq(1 .. named)] /\ resume \in [TaskSet -> 0 .. named]

TypeRuntime ==
    /\ pc \in {"stopped", "idle", "create", "turn", "answered"}
    /\ sel \in TaskSet \cup {None} /\ hand \in 0 .. named /\ fresh \in BOOLEAN

TypeOK == TypeRun /\ TypeAttempts /\ TypeTasks /\ TypeBudget /\ TypeRuntime

Init ==
    /\ plan \in {p \in Plans : Accepted(p, Order)} /\ budget \in Budgets
    /\ run = "ACTIVE" /\ causes = {}
    /\ task = [k \in TaskSet |-> "NONE"] /\ attempts = <<>> /\ leases = <<>>
    /\ counters = [k \in TaskSet |-> NoCounters]
    /\ tranches = [k \in TaskSet |-> <<>>]
    /\ pause = [k \in TaskSet |-> None] /\ resume = [k \in TaskSet |-> 0]
    /\ usage = 0 /\ named = 0
    /\ pc = "stopped" /\ sel = None /\ hand = 0 /\ fresh = FALSE

-----------------------------------------------------------------------------
(* What the transactions read *)

Open == run = "ACTIVE" /\ causes = {}
Ceiling == WorkerCeiling[budget]

Active    == {l \in DOMAIN leases : leases[l].state = "ACTIVE"}
Unexpired == {l \in Active : ~leases[l].lapsed}
Overlap(k, n) == <<k, n>> \in OverlapsOf[plan]

AttemptsOf(k) == {i \in DOMAIN attempts : attempts[i].task = k}
With(state)   == {i \in DOMAIN attempts : attempts[i].state \in state}
TasksOf(S)    == {attempts[i].task : i \in S}
Ids           == {attempts[i].id : i \in DOMAIN attempts}
TheAttempt(id) == CHOOSE i \in DOMAIN attempts : attempts[i].id = id
First(S) == CHOOSE n \in S : \A m \in S : n <= m

\* worker_attempts.lease_id: the lease the Attempt was created with.
LeaseOf(i) == First({l \in DOMAIN leases : leases[l].id = attempts[i].id})

\* _worker_turn_binding_in_transaction
Runnable(i) == attempts[i].state = "RUNNING" /\ leases[LeaseOf(i)].state = "ACTIVE"

\* next_dispatchable asks for any active lease of the Attempt instead.
Existing == {i \in With({"RUNNING"}) :
                \E l \in Active : leases[l].id = attempts[i].id}

AtAttemptCeiling(k) == counters[k].attempts >= AttemptCeiling
Allocated(k) == resume[k] # 0 \/ counters[k].remaining > 0

\* Variant: a dependency is satisfied by an Attempt of any outcome.
EligibleAfterAny(k) ==
    /\ task[k] \in {"NONE", "READY"}
    /\ plan[k].after \subseteq TasksOf(DOMAIN attempts)
    /\ \A e \in HazardsOf[plan] :
           k \in {e[1], e[2]} => {e[1], e[2]} \cap TasksOf(With(Live)) = {}

\* Variant: the hazard edges constrain promotion only.
EligibleDespiteHazards(k) ==
    /\ task[k] \in {"NONE", "READY"}
    /\ plan[k].after \subseteq TasksOf(With({"SUCCEEDED"}))

Eligible(k) ==
    /\ task[k] \in {"NONE", "READY"}
    /\ plan[k].after \subseteq TasksOf(With({"SUCCEEDED"}))
    /\ \A e \in HazardsOf[plan] :
           k \in {e[1], e[2]} => {e[1], e[2]} \cap TasksOf(With(Live)) = {}

\* The loop over the contracts leaves at the first Task that is at its
\* ceiling of Attempts or has calls to spend.
Considered == {p \in DOMAIN Tasks : Eligible(Tasks[p]) /\
                  (AtAttemptCeiling(Tasks[p]) \/ Allocated(Tasks[p]))}

\* The digest of TaskCounterSnapshot, when the counters of the Task are c:
\* all but those of the active tranche, and the generation of the next lease.
Snapshot(k, c) ==
    <<[c EXCEPT !.active = 0, !.remaining = 0, !.bootstraps = 0],
      Cardinality({l \in DOMAIN leases : leases[l].task = k})>>

\* Variant: the ceiling itself may be reached.
FullBeyond(n) == IF n > Ceiling THEN {"BUDGET_EXHAUSTED"} ELSE {}

\* _settle_global_usage_in_transaction of the metric CONCURRENT_WORKERS
Full(n) == IF n >= Ceiling THEN {"BUDGET_EXHAUSTED"} ELSE {}

EndDelivery == pc' = "stopped" /\ sel' = None /\ hand' = 0 /\ fresh' = FALSE
EndTurn == pc' = "idle" /\ hand' = 0 /\ UNCHANGED <<sel, fresh>>
Stop == EndDelivery /\ UNCHANGED <<runVars, attemptVars, budgetVars>>

-----------------------------------------------------------------------------
(* The runtime: CoordinatorService.schedule in a delivery *)

Deliver == /\ pc = "stopped" /\ pc' = "idle"
           /\ UNCHANGED <<runVars, attemptVars, budgetVars, sel, hand, fresh>>

\* next_dispatchable reads in one transaction and commits nothing.
SelectExisting ==
    /\ pc = "idle" /\ Open /\ Existing # {}
    /\ LET i == First(Existing) IN
           IF Runnable(i)
           THEN /\ pc' = "turn" /\ hand' = attempts[i].id
                /\ UNCHANGED <<runVars, attemptVars, budgetVars, sel, fresh>>
           ELSE Stop

SelectTask ==
    /\ pc = "idle" /\ Open /\ Existing = {} /\ Cardinality(Active) < Ceiling
    /\ Considered # {}
    /\ LET k == Tasks[First(Considered)] IN
           /\ ~AtAttemptCeiling(k)
           /\ pc' = "create" /\ sel' = k /\ fresh' = TRUE
    /\ UNCHANGED <<runVars, attemptVars, budgetVars, hand>>

NothingToSelect ==
    /\ pc = "idle"
    /\ \/ ~Open
       \/ /\ Existing = {}
          /\ \/ Cardinality(Active) >= Ceiling
             \/ Considered = {}
             \/ \E p \in Considered : /\ p = First(Considered)
                                        /\ AtAttemptCeiling(Tasks[p])
    /\ Stop

\* The id comes with the allocation; it is the key of the Attempt.
AttemptId(k) == IF resume[k] # 0 THEN resume[k] ELSE tranches[k][counters[k].active]

\* Variant: the commit does not compare the audit sequence.
MayCreateStale(k) ==
    /\ run = "ACTIVE" /\ Cardinality(Active) < Ceiling
    /\ ~AtAttemptCeiling(k) /\ Allocated(k) /\ AttemptId(k) \notin Ids

\* The causes that close dispatch are not read again: the audit sequence is
\* what tells that nothing has been committed since the selection.
MayCreate(k) ==
    /\ fresh /\ run = "ACTIVE" /\ Cardinality(Active) < Ceiling
    /\ ~AtAttemptCeiling(k) /\ Allocated(k) /\ AttemptId(k) \notin Ids

\* Variant: the allocation of a resume stays reserved.
ResumeAfterKept(k) == resume[k]

ResumeAfter(k) == 0

\* create_attempt_with_lease
CreateAttempt ==
    /\ pc = "create" /\ MayCreate(sel)
    /\ LET id == AttemptId(sel)
           held == Cardinality(Active) + 1
       IN
       /\ task' = [task EXCEPT ![sel] = "ACTIVE"]
       /\ attempts' = Append(attempts,
              [task |-> sel, id |-> id, state |-> "RUNNING", bound |-> budget,
               tranche |-> IF resume[sel] # 0 THEN 0 ELSE counters[sel].active])
       /\ leases' = Append(leases,
              [task |-> sel, id |-> id, state |-> "ACTIVE", lapsed |-> FALSE,
               under |-> budget])
       /\ counters' = [counters EXCEPT ![sel].attempts = @ + 1]
       /\ resume' = [resume EXCEPT ![sel] = ResumeAfter(sel)]
       /\ usage' = held /\ causes' = causes \cup Full(held)
       /\ pc' = "turn" /\ sel' = None /\ hand' = id /\ fresh' = FALSE
    /\ UNCHANGED <<plan, budget, run, tranches, pause, named>>

\* Variant: the scheduler selects again when a creation has failed.
CreationRetried == /\ pc = "create" /\ ~MayCreate(sel)
                   /\ pc' = "idle" /\ sel' = None /\ fresh' = FALSE
                   /\ UNCHANGED <<runVars, attemptVars, budgetVars, hand>>

\* A StateConflict, or the insertion of an id that is taken.
CreationRaises == pc = "create" /\ ~MayCreate(sel) /\ Stop

OutOfTranche(i) == LET c == counters[attempts[i].task] IN
    attempts[i].tranche = 0 \/ attempts[i].tranche # c.active \/ c.remaining < 1

\* _evaluate_model_reservation: under another budget than the Attempt's, or with
\* dispatch closed, the turn is refused and nothing is charged.
Reservable(i) == Open /\ attempts[i].bound = budget

\* run_turn until the reservation of the model call.
Reserve ==
    /\ pc = "turn"
    /\ LET i == TheAttempt(hand)
           k == attempts[i].task
       IN
       /\ Runnable(i) /\ Reservable(i) /\ ~OutOfTranche(i)
       /\ counters' = [counters EXCEPT ![k].spent = @ + 1,
              ![k].remaining = @ - 1,
              ![k].active = IF counters[k].remaining = 1 THEN 0 ELSE @]
    /\ pc' = "answered"
    /\ UNCHANGED <<runVars, attemptVars, tranches, pause, resume, named, sel, hand, fresh>>

NotReserved ==
    /\ pc = "turn"
    /\ LET i == TheAttempt(hand) IN
           IF Runnable(i) /\ Reservable(i)
           THEN /\ OutOfTranche(i)
                /\ run' = "PAUSED" /\ causes' = causes \cup {"BUDGET_EXHAUSTED"}
                /\ EndDelivery
                /\ UNCHANGED <<plan, budget, attemptVars, budgetVars>>
           ELSE Stop

\* _release_attempt_lease
Released(id) == [l \in DOMAIN leases |->
    IF l \in Active /\ leases[l].id = id
    THEN [leases[l] EXCEPT !.state = "REVOKED"] ELSE leases[l]]

EndAttempt(i, state) ==
    /\ attempts' = [attempts EXCEPT ![i].state = state]
    /\ leases' = Released(attempts[i].id)
    /\ usage' = Cardinality({l \in Active : leases[l].id # attempts[i].id})

\* _pause_task with _record_task_pause_binding, of a Task that is ACTIVE.
PauseTask(k, reason) ==
    /\ task' = [task EXCEPT ![k] = "PAUSED"]
    /\ pause' = [pause EXCEPT ![k] =
           [reason |-> reason, budget |-> budget, snapshot |-> Snapshot(k, counters'[k])]]

\* record_malformed_worker_action: an Attempt whose lease has lapsed, or that
\* answers after dispatch was closed, fails all the same.
Malformed ==
    /\ pc = "answered"
    /\ LET i == TheAttempt(hand)
           k == attempts[i].task
           n == counters[k].invalid + 1
       IN
       /\ Runnable(i) /\ attempts[i].bound = budget
       /\ task[k] = "ACTIVE" /\ n <= InvalidCeiling
       /\ counters' = [counters EXCEPT ![k].invalid = n]
       /\ EndAttempt(i, "FAILED")
       /\ IF n >= InvalidCeiling
          THEN /\ PauseTask(k, "REPEATED_INVALID_ACTION")
               /\ causes' = causes \cup Full(usage') \cup {"TASK_PAUSED"}
               /\ EndDelivery
          ELSE /\ task' = [task EXCEPT ![k] = "READY"]
               /\ causes' = causes \cup Full(usage')
               /\ EndTurn /\ UNCHANGED pause
    /\ UNCHANGED <<plan, budget, run, tranches, resume, named>>

\* authorize_action
Authorized(i) == /\ Open /\ Runnable(i) /\ ~leases[LeaseOf(i)].lapsed
                 /\ attempts[i].bound = budget

\* finish_attempt leaves the row of the Task as it is.
Terminal(state) ==
    /\ pc = "answered"
    /\ LET i == TheAttempt(hand) IN
           /\ Authorized(i) /\ EndAttempt(i, state)
           /\ causes' = causes \cup Full(usage')
    /\ EndTurn
    /\ UNCHANGED <<plan, budget, run, task, budgetVars>>

Finish == Terminal("SUCCEEDED")
Fail   == Terminal("FAILED")

Act ==
    /\ pc = "answered" /\ Authorized(TheAttempt(hand))
    /\ EndTurn
    /\ UNCHANGED <<runVars, attemptVars, budgetVars>>

\* freeze_authorized_pending_action: the lease is kept while a human decides.
Wait ==
    /\ pc = "answered"
    /\ LET i == TheAttempt(hand) IN
           /\ Authorized(i)
           /\ attempts' = [attempts EXCEPT ![i].state = "WAITING_APPROVAL"]
    /\ EndDelivery /\ UNCHANGED <<runVars, task, leases, usage, budgetVars>>

\* No answer, a denied action or a conflict.
NoAction == pc = "answered" /\ Stop

Runtime == \/ SelectExisting \/ SelectTask \/ NothingToSelect
           \/ CreateAttempt \/ CreationRaises \/ Reserve \/ NotReserved
           \/ Malformed \/ Finish \/ Fail \/ Act \/ Wait \/ NoAction

-----------------------------------------------------------------------------
(* Transactions of the authority that callers of its services commit *)

Committed == fresh' = FALSE /\ UNCHANGED <<plan, budget, pc, sel, hand>>

\* Variant: the last tranche is not cut to the calls that are left.
TrancheSizeWhole(k) == TrancheCalls

TrancheSize(k) == First({TrancheCalls, CallCeiling - counters[k].allocated})

\* A bootstrap tranche, or one that the progress of the last has earned.
Renews(k, progressed) == counters[k].bootstraps < Bootstraps \/ progressed

CallsLeft(k) == counters[k].allocated < CallCeiling

\* allocate_tranche for an Attempt that runs, or for one that is yet to be.
Allocate(k, id, progressed) ==
    /\ counters[k].remaining = 0 /\ CallsLeft(k) /\ Renews(k, progressed)
    /\ tranches' = [tranches EXCEPT ![k] = Append(@, id)]
    /\ LET bootstrap == IF counters[k].bootstraps < Bootstraps THEN 1 ELSE 0 IN
       counters' = [counters EXCEPT ![k].allocated = @ + TrancheSize(k),
                        ![k].bootstraps = @ + bootstrap,
                        ![k].active = Len(tranches[k]) + 1,
                        ![k].remaining = TrancheSize(k)]
    /\ named' = First({n \in {named, named + 1} : n >= id})
    /\ Committed /\ UNCHANGED <<run, causes, attemptVars, pause, resume>>

\* A Task that never had an Attempt is not paused: there is no row to mark.
RefuseTranche(k, progressed) ==
    /\ counters[k].remaining = 0 /\ ~(CallsLeft(k) /\ Renews(k, progressed))
    /\ task[k] = "ACTIVE" /\ UNCHANGED counters
    /\ PauseTask(k, IF CallsLeft(k) THEN "NO_PROGRESS" ELSE "TASK_CALL_CEILING")
    /\ causes' = causes \cup {"TASK_PAUSED"}
    /\ Committed
    /\ UNCHANGED <<run, attempts, leases, usage, tranches, resume, named>>

\* record_task_checkpoint of the checkpoint that repeats; the Attempt of a
\* Task that it pauses keeps its state and its lease.
Checkpoint(k) ==
    LET n == counters[k].checkpoints + 1 IN
    /\ task[k] = "ACTIVE" /\ n <= CheckpointCeiling
    /\ counters' = [counters EXCEPT ![k].checkpoints = n]
    /\ IF n >= CheckpointCeiling
       THEN PauseTask(k, "REPEATED_CHECKPOINT") /\ causes' = causes \cup {"TASK_PAUSED"}
       ELSE UNCHANGED <<task, pause, causes>>
    /\ Committed /\ UNCHANGED <<run, attempts, leases, usage, tranches, resume, named>>

\* Variant: a resume reopens dispatch whatever closed it.
CausesAfterResumeOpen == {}

CausesAfterResume == causes \ {"TASK_PAUSED"}

\* The cap that the service and the command both compare.
UnderCaps(k) == CallsLeft(k) /\ counters[k].resumes < ResumeCeiling

\* The service compares the ceilings of Attempts and of concurrent Workers too;
\* the command does not, and is heard of a Run that is PAUSED.
Heard(k) == run = "PAUSED" \/ (~AtAttemptCeiling(k) /\ usage < Ceiling)

\* resume_task with accept_task_resume, and _apply_task_resume of the command.
ResumeTask(k) ==
    /\ pause[k] # None /\ named < MaxNames
    /\ pause[k].reason \in Resumable
    /\ pause[k].budget = budget /\ pause[k].snapshot = Snapshot(k, counters[k])
    /\ UnderCaps(k) /\ Heard(k) /\ "TASK_PAUSED" \in causes
    /\ task' = [task EXCEPT ![k] = "READY"] /\ pause' = [pause EXCEPT ![k] = None]
    /\ counters' = [counters EXCEPT ![k].resumes = @ + 1]
    /\ named' = named + 1 /\ resume' = [resume EXCEPT ![k] = named + 1]
    /\ causes' = CausesAfterResume
    /\ Committed /\ UNCHANGED <<run, attempts, leases, usage, tranches>>

Lapsed == {l \in DOMAIN leases : leases[l].lapsed}

Lapse(l) == /\ l \in Unexpired /\ Cardinality(Lapsed) < MaxLapses
            /\ leases' = [leases EXCEPT ![l].lapsed = TRUE]
            /\ UNCHANGED <<runVars, task, attempts, usage, budgetVars, runtimeVars>>

\* authorize_write ends a lease that it finds lapsed.
ExpireLease(l) ==
    /\ l \in Active /\ leases[l].lapsed
    /\ leases' = [leases EXCEPT ![l].state = "EXPIRED"]
    /\ usage' = Cardinality(Active) - 1 /\ causes' = causes \cup Full(usage')
    /\ Committed /\ UNCHANGED <<run, task, attempts, budgetVars>>

\* Variant: the time of expiry is not compared.
RenewableLate(l) == l \in Active

Renewable(l) == l \in Unexpired

RenewLease(l) ==
    /\ Renewable(l)
    /\ \A m \in Unexpired \ {l} : ~Overlap(leases[l].task, leases[m].task)
    /\ leases' = [leases EXCEPT ![l].lapsed = FALSE]
    /\ Committed /\ UNCHANGED <<run, causes, task, attempts, usage, budgetVars>>

\* issue_lease of another generation for an Attempt that exists.
IssueLease(i) ==
    /\ attempts[i].state \in Live /\ Open /\ Len(leases) < MaxLeases
    /\ Cardinality(Unexpired) < Ceiling
    /\ \A m \in Unexpired : ~Overlap(attempts[i].task, leases[m].task)
    /\ leases' = Append(leases, [task |-> attempts[i].task, id |-> attempts[i].id,
                                 state |-> "ACTIVE", lapsed |-> FALSE,
                                 under |-> budget])
    /\ usage' = Cardinality(Unexpired) + 1 /\ causes' = causes \cup Full(usage')
    /\ Committed /\ UNCHANGED <<run, task, attempts, budgetVars>>

Waiting(i) == attempts[i].state = "WAITING_APPROVAL"

\* The Grant of the action an Attempt waits for: what the action was frozen with
\* is compared, and a permit is issued only while no delivery runs.
Grant(i) ==
    /\ Waiting(i) /\ run = "ACTIVE" /\ pc = "stopped"
    /\ attempts[i].bound = budget /\ leases[LeaseOf(i)].state = "ACTIVE"
    /\ attempts' = [attempts EXCEPT ![i].state = "RUNNING"]
    /\ Committed /\ UNCHANGED <<run, causes, task, leases, usage, budgetVars>>

\* _invalidate_pending_action: the decision came late, or what the action was
\* frozen with is no longer current.  The lease stays as it is.
Invalidate(i) ==
    /\ Waiting(i)
    /\ attempts' = [attempts EXCEPT ![i].state = "STALE"]
    /\ Committed /\ UNCHANGED <<run, causes, task, leases, usage, budgetVars>>

\* approve_revision of a budget in execution: in force at once, whatever leases
\* the ceiling it lowers finds.
ReplaceBudget(b) ==
    /\ b # budget /\ budget' = b /\ fresh' = FALSE
    /\ UNCHANGED <<plan, run, causes, attemptVars, budgetVars, pc, sel, hand>>

\* The Attempts that a tranche is asked for: one that lives, or a new one.
Names(k) == {attempts[i].id : i \in AttemptsOf(k) \cap With(Live)} \cup
            (IF named < MaxNames THEN {named + 1} ELSE {})

Service ==
    \/ \E k \in TaskSet :
          \/ \E id \in Names(k), p \in BOOLEAN : Allocate(k, id, p)
          \/ \E p \in BOOLEAN : RefuseTranche(k, p)
          \/ Checkpoint(k) \/ ResumeTask(k)
    \/ \E l \in DOMAIN leases : Lapse(l) \/ ExpireLease(l) \/ RenewLease(l)
    \/ \E i \in DOMAIN attempts : IssueLease(i) \/ Grant(i) \/ Invalidate(i)
    \/ \E b \in Budgets : ReplaceBudget(b)

Next == Deliver \/ Runtime \/ Service
Spec == Init /\ [][Next]_vars

\* A delivery that has begun goes on.
FairSpec == Spec /\ WF_vars(Runtime)

\* Each delivery that stops is followed by another.
RedeliveredSpec == FairSpec /\ WF_vars(Deliver)

-----------------------------------------------------------------------------
(* Properties *)

\* Leases in force of two Tasks allow no path in common, although
\* create_attempt_with_lease compares no globs: no Plan with such Tasks is
\* accepted.
LeasesDisjoint ==
    \A l, m \in Unexpired : leases[l].task # leases[m].task =>
        ~\E path \in Paths :
            /\ \E w \in plan[leases[l].task].writes : Matches(w, path)
            /\ \E w \in plan[leases[m].task].writes : Matches(w, path)

\* The settled usage never falls below the leases in force, and these are never
\* more than the ceiling that the last of them was issued under; when they reach
\* it dispatch is closed, by whichever transaction issued it.  A ceiling lowered
\* since ends no lease.
WorkersAreCounted ==
    /\ Cardinality(Unexpired) <= usage
    /\ leases # <<>> =>
           LET allowed == WorkerCeiling[leases[Len(leases)].under] IN
           /\ Cardinality(Unexpired) <= allowed
           /\ Cardinality(Unexpired) = allowed => "BUDGET_EXHAUSTED" \in causes

\* No Attempt of a Task exists before one of each of its dependencies has
\* succeeded.
DependenciesFirst ==
    \A i \in DOMAIN attempts :
        plan[attempts[i].task].after \subseteq TasksOf(With({"SUCCEEDED"}))

\* Two Tasks of which one writes what the other reads never both have an
\* Attempt that runs or waits for an approval, also after a pause, a resume or
\* a Grant.
HazardsApart ==
    \A e \in HazardsOf[plan] : ~({e[1], e[2]} \subseteq TasksOf(With(Live)))

\* What a Plan says of two Tasks holds of their Attempts, in whatever order
\* they fail, wait, are granted or resumed.
TasksApart == DependenciesFirst /\ HazardsApart

\* The leases in force are apart and within the ceiling they were issued under,
\* although creation, renewal and reissue each look at them differently.
LeasesInForce == LeasesDisjoint /\ WorkersAreCounted

\* The counters of a Task agree with its history, and no way through bootstrap,
\* renewal and manual resumes gets past a cap: each Attempt is counted, each
\* manual resume gives one Attempt and no more, and calls are spent only from
\* what was allocated.
WithinCaps ==
    \A k \in TaskSet :
        LET resumed == {i \in AttemptsOf(k) : attempts[i].tranche = 0} IN
        /\ Cardinality(AttemptsOf(k)) = counters[k].attempts
        /\ counters[k].spent + counters[k].remaining = counters[k].allocated
        /\ Cardinality(resumed) + (IF resume[k] = 0 THEN 0 ELSE 1) = counters[k].resumes

\* An Attempt is created only while dispatch is open: a pause that is committed
\* between the selection and the creation is not overrun.
NoAttemptWhileClosed == [][Len(attempts') > Len(attempts) => Open]_vars

\* What a resume gives back is its own: dispatch that a budget has closed is
\* not reopened by the resume of a Task.
BudgetStopIsFinal ==
    []["BUDGET_EXHAUSTED" \in causes => "BUDGET_EXHAUSTED" \in causes']_vars

\* What closes dispatch is obeyed by the transaction that comes after it, and
\* not undone by one that was not asked to.
DispatchIsObeyed == NoAttemptWhileClosed /\ BudgetStopIsFinal

\* A lease that has lapsed or ended is never in force again.
LeaseEndsForGood ==
    [][\A l \in DOMAIN leases : l \notin Unexpired => l \notin Unexpired']_vars

\* Every delivery stops: each turn is paid from a finite tranche, and no
\* sequence of failures, renewals and resumes feeds one for ever.
DeliveriesEnd == pc # "stopped" ~> pc = "stopped"

\* SPEC.md, transitions of a Task: when its Attempt fails and the budget permits
\* a retry, "`READY` with a new Attempt ID".  A Task that is READY for another
\* Attempt, with calls of its tranche left and dispatch open, does not stay so.
FailedTaskIsRescheduled ==
    \A k \in TaskSet :
        (Open /\ task[k] = "READY" /\ counters[k].remaining > 0) ~>
            ~(Open /\ task[k] = "READY" /\ counters[k].remaining > 0)
=============================================================================
