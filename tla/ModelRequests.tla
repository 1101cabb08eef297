---------------------------- MODULE ModelRequests ----------------------------
(***************************************************************************)
(* The model requests of one Run: AuthorityModelClient.complete, the only  *)
(* path of the planning coordinator and of the Worker loop to a provider,  *)
(* and the transactions of the store it calls.  An attempt is reserved,    *)
(* sent, settled and, after a rejection, retried, all inside a runtime     *)
(* barrier.  Every transaction names the audit sequence read before it;    *)
(* the owner's commands commit from another process in between.            *)
(*                                                                         *)
(* Input tokens, output tokens and cost are reserved, settled and compared *)
(* in the same way: one metric, UNITS, stands for the three.               *)
(***************************************************************************)
EXTENDS Naturals, Sequences, SequencesExt

CONSTANTS
    Budgets,          \* Budget Revisions the owner can propose
    PlanningCeiling,  \* planning requests a Budget Revision allows
    CallCeiling,      \* model calls
    UnitCeiling,      \* tokens and cost
    ReservedUnits,    \* what one attempt reserves
    Usages,           \* what a provider can report of one attempt
    TrancheCalls,     \* calls of the Task tranche that is active at first
    MaxTurns,         \* bound: logical turns
    MaxCommands,      \* bound: commands of the owner
    MaxCrashes,       \* bound: deaths of the runtime process
    None

ASSUME ModelRequestsAssumption ==
    /\ PlanningCeiling \in [Budgets -> Nat \ {0}]
    /\ CallCeiling \in [Budgets -> Nat \ {0}]
    /\ UnitCeiling \in [Budgets -> Nat]
    /\ ReservedUnits \in Nat /\ Usages \subseteq Nat /\ TrancheCalls \in Nat
    /\ {MaxTurns, MaxCommands, MaxCrashes} \subseteq Nat
    /\ None \notin Budgets

VARIABLES
    \* durable: runs, revision_documents, approved_budgets
    st, current, approved, causes,
    \* durable: model_counters, run_authority_counters, the active tranche
    calls, units, planning, tranche,
    \* durable: global_budget_usage, budget_warnings
    usage, warned,
    \* durable: runtime_barriers, model_turns, model_attempts
    barrier, turns, attempts,
    \* the runtime process
    pc, snap, owner, number, bound, verdict, claim, answer,
    slot,      \* "orphaned": runs.runtime_owner_id names a process that is dead
    \* bounds
    commands, crashes

runVars     == <<st, current, approved>>
counterVars == <<calls, units, planning, tranche>>
usageVars   == <<usage, warned>>
localVars   == <<owner, number, bound, verdict, claim, answer>>
deathVars   == <<slot, crashes>>
outerVars   == <<commands, deathVars>>
vars == <<runVars, causes, counterVars, usageVars, barrier, turns, attempts,
          pc, snap, localVars, outerVars>>

Metrics  == {"PLANNING_REQUESTS", "MODEL_CALLS", "UNITS"}
Ceilings == {"PLANNING_REQUEST_CEILING", "TASK_TRANCHE_EXHAUSTED",
             "MODEL_CALL_CEILING", "UNIT_CEILING"}
Denials  == {"STALE_SEQUENCE", "REVISION_BINDING_MISMATCH", "RUN_NOT_DISPATCHABLE"}
Outcomes == {"COMPLETED", "MODEL_MISMATCH", "KNOWN_CLOSED_REJECTION", "UNKNOWN_OUTCOME"}
Stages   == {"begin", "reserve", "commit", "settle", "settleBarrier", "backoff", "fault"}
RetryCeiling == 2  \* provider_retry_ceiling

Attempts == [turn : Nat, number : 1 .. RetryCeiling + 1, budget : Budgets,
             owner : {"PLANNING", "WORKER"}, state : Outcomes \cup {"RESERVED"},
             charged : Nat, backoff : BOOLEAN]

TypeRun ==
    /\ st \in {"DRAFT", "PLANNING", "ACTIVE", "PAUSED", "INDETERMINATE"}
    /\ {current, approved} \subseteq Budgets
    /\ causes \subseteq {"BUDGET_EXHAUSTED", "RUNTIME_FAULT"}
    /\ barrier \in {"IDLE", "IN_FLIGHT", "SETTLED", "INDETERMINATE"}

TypeCounters ==
    /\ {calls, units, planning, tranche} \subseteq Nat
    /\ usage \in [Metrics -> Nat] /\ warned \subseteq Budgets \X Metrics

TypeTurns ==
    /\ turns \in Seq({"OPEN", "COMPLETION_COMMITTED"})
    /\ attempts \in Seq(Attempts)

TypeProcess ==
    /\ pc \in Stages \cup {"idle", "provider"}
    /\ snap \in {"unread", "fresh", "stale"}
    /\ owner \in {"PLANNING", "WORKER"} /\ number \in 1 .. RetryCeiling + 1
    /\ bound \in Budgets \cup {None}
    /\ verdict \in Ceilings \cup Denials \cup {"AUTHORIZED"}
    /\ claim \in {"none", "BUDGET_STOP"}
    /\ answer \in [kind : Outcomes, charged : Nat]

TypeBounds ==
    /\ commands \in 0 .. MaxCommands /\ crashes \in 0 .. MaxCrashes
    /\ slot \in {"free", "orphaned"}

TypeOK == TypeRun /\ TypeCounters /\ TypeTurns /\ TypeProcess /\ TypeBounds

NoAnswer == [kind |-> "UNKNOWN_OUTCOME", charged |-> 0]

Init ==
    /\ st \in {"PLANNING", "ACTIVE"}
    /\ current \in Budgets /\ approved = current /\ causes = {}
    /\ calls = 0 /\ units = 0 /\ planning = 0 /\ tranche = TrancheCalls
    /\ usage = [m \in Metrics |-> 0] /\ warned = {}
    /\ barrier = "IDLE" /\ turns = <<>> /\ attempts = <<>>
    /\ pc = "idle" /\ snap = "unread" /\ owner = "PLANNING" /\ number = 1
    /\ bound = None /\ verdict = "AUTHORIZED" /\ claim = "none" /\ answer = NoAnswer
    /\ slot = "free" /\ commands = 0 /\ crashes = 0

-----------------------------------------------------------------------------
(* Budgets                                                                 *)

\* global_ceiling_for
Ceiling(b, m) == CASE m = "PLANNING_REQUESTS" -> PlanningCeiling[b]
                   [] m = "MODEL_CALLS"       -> CallCeiling[b]
                   [] m = "UNITS"             -> UnitCeiling[b]

\* Variant: exactly 80 percent is not yet a crossing.
CrossedBeyond(previous, used, ceiling) ==
    previous * 100 <= ceiling * 80 /\ ceiling * 80 < used * 100

\* crossed_threshold, at warning_percent
Crossed(previous, used, ceiling) == previous * 100 < ceiling * 80 /\ ceiling * 80 <= used * 100

\* Variant: the ceiling itself may still be used.
IsExhaustedBeyond(used, ceiling) == used > ceiling

IsExhausted(used, ceiling) == used >= ceiling

\* _settle_global_usage_in_transaction for the metrics ms, whose absolute use is
\* now used: the copies, the warnings and the closing of dispatch.
SettleUsage(b, ms, used) ==
    /\ usage' = [m \in Metrics |-> IF m \in ms THEN used[m] ELSE usage[m]]
    /\ warned' = warned \cup
           {<<b, m>> : m \in {n \in ms : Crossed(usage[n], used[n], Ceiling(b, n))}}
    /\ causes' = IF \E m \in ms : IsExhausted(used[m], Ceiling(b, m))
                 THEN causes \cup {"BUDGET_EXHAUSTED"} ELSE causes

-----------------------------------------------------------------------------
(* Transactions                                                            *)

\* Variant: the exception is swallowed and the delivery just ends.
RaiseSwallowed ==
    /\ pc' = "idle" /\ snap' = "unread"
    /\ UNCHANGED <<runVars, causes, counterVars, usageVars, barrier, turns, attempts, localVars>>

\* Every exception reaches the runtime boundary, which records the fault.
Raise ==
    /\ pc' = "fault" /\ snap' = "unread"
    /\ UNCHANGED <<runVars, causes, counterVars, usageVars, barrier, turns, attempts, localVars>>

\* A transaction with the sequence that was read: the store raises when another
\* one has been committed since.
Ready(stage) == pc = stage /\ snap = "fresh"

\* journal.audit_sequence before a transaction; before the settlement of the
\* barrier the caller also reads whether dispatch is open, for the stop it claims.
ReadSequence ==
    /\ pc \in Stages /\ snap = "unread" /\ snap' = "fresh"
    /\ claim' = IF pc = "settleBarrier"
                THEN IF causes = {} THEN "none" ELSE "BUDGET_STOP"
                ELSE claim
    /\ UNCHANGED <<runVars, causes, counterVars, usageVars, barrier, turns, attempts, pc,
                   owner, number, bound, verdict, answer, outerVars>>

\* _commit_state_and_events refuses a sequence that is not current.
SequenceConflict ==
    /\ pc \in Stages \ {"reserve", "fault"} /\ snap = "stale" /\ Raise
    /\ UNCHANGED outerVars

-----------------------------------------------------------------------------
(* One turn of AuthorityModelClient.complete                               *)

\* run_planning_turn and WorkerLoop.run_turn build the request under the
\* revisions that are current.  A PlanningAuthorization allows nothing at the
\* ceiling of planning requests, and planning only with every revision approved;
\* next_dispatchable answers RUN_DISPATCH_CLOSED when dispatch is closed.
StartTurn ==
    /\ pc = "idle" /\ slot = "free" /\ (Len(turns) < MaxTurns \/ barrier = "IN_FLIGHT")
    /\ \/ /\ st = "PLANNING" /\ current = approved /\ owner' = "PLANNING"
          /\ planning < PlanningCeiling[approved]
       \/ st = "ACTIVE" /\ causes = {} /\ owner' = "WORKER"
    /\ pc' = "begin" /\ snap' = "unread" /\ number' = 1 /\ bound' = current
    /\ verdict' = "AUTHORIZED" /\ claim' = "none" /\ answer' = NoAnswer
    /\ UNCHANGED <<runVars, causes, counterVars, usageVars, barrier, turns, attempts, outerVars>>

\* A delivery that asks for no turn: nothing may be dispatched, the authorization
\* is refused, no Task is due.  record_runtime_delivery_stop raises for a barrier
\* that a dead process left, and the owner stays.
StopRaises ==
    /\ pc = "idle" /\ slot = "free" /\ barrier = "IN_FLIGHT"
    /\ slot' = "orphaned"
    /\ UNCHANGED <<runVars, causes, counterVars, usageVars, barrier, turns, attempts,
                   pc, snap, localVars, commands, crashes>>

\* Variant: the row of a barrier in flight is overwritten.
MayBeginOver == causes = {}

\* begin_runtime_barrier
MayBegin == causes = {} /\ barrier # "IN_FLIGHT"

BeginBarrier ==
    /\ Ready("begin")
    /\ IF MayBegin
       THEN /\ barrier' = "IN_FLIGHT" /\ pc' = "reserve" /\ snap' = "unread"
            /\ UNCHANGED <<runVars, causes, counterVars, usageVars, turns, attempts, localVars>>
       ELSE Raise
    /\ UNCHANGED outerVars

PlanningIsFull == owner = "PLANNING" /\ number = 1 /\ planning >= PlanningCeiling[approved]

\* Variant: the last call of the tranche is spent twice.
TrancheIsSpentLate == owner = "WORKER" /\ tranche < 0

TrancheIsSpent == owner = "WORKER" /\ tranche < 1

CallsAreFull == calls + 1 > CallCeiling[approved]

\* Variant: what is being reserved is left out of the comparison.
UnitsAreFullBefore == units > UnitCeiling[approved]

UnitsAreFull == units + ReservedUnits > UnitCeiling[approved]

\* Variant: the request goes out under the revisions it was built with.
BindingIgnored == FALSE

BindingChanged == bound # approved \/ bound # current

\* _evaluate_model_reservation, the causes in the order of the code
Evaluate ==
    IF snap = "stale"                                        THEN "STALE_SEQUENCE"
    ELSE IF BindingChanged                                   THEN "REVISION_BINDING_MISMATCH"
    ELSE IF causes # {} \/ st \notin {"PLANNING", "ACTIVE"}  THEN "RUN_NOT_DISPATCHABLE"
    ELSE IF PlanningIsFull                                   THEN "PLANNING_REQUEST_CEILING"
    ELSE IF TrancheIsSpent                                   THEN "TASK_TRANCHE_EXHAUSTED"
    ELSE IF CallsAreFull                                     THEN "MODEL_CALL_CEILING"
    ELSE IF UnitsAreFull                                     THEN "UNIT_CEILING"
    ELSE "AUTHORIZED"

\* reserve_authorized_model_attempt, its read transaction: a denial writes nothing.
EvaluateReservation ==
    /\ pc = "reserve" /\ snap # "unread"
    /\ verdict' = Evaluate
    /\ IF verdict' \in Denials
       THEN pc' = "settleBarrier" /\ snap' = "unread"
       ELSE pc' = "commit" /\ UNCHANGED snap
    /\ UNCHANGED <<runVars, causes, counterVars, usageVars, barrier, turns, attempts,
                   owner, number, bound, claim, answer, outerVars>>

\* ... its write transaction when a ceiling is reached (pause)
PauseForCeiling ==
    /\ Ready("commit") /\ verdict \in Ceilings
    /\ causes' = causes \cup {"BUDGET_EXHAUSTED"} /\ st' = "PAUSED"
    /\ pc' = "settleBarrier" /\ snap' = "unread"
    /\ UNCHANGED <<current, approved, counterVars, usageVars, barrier, turns, attempts,
                   localVars, outerVars>>

NewAttempt(t) == [turn |-> t, number |-> number, budget |-> bound, owner |-> owner,
                  state |-> "RESERVED", charged |-> ReservedUnits, backoff |-> FALSE]

\* ... and when the attempt is authorized (mutate): a first attempt opens the
\* turn, a retry needs it open.
ReserveAttempt ==
    /\ Ready("commit") /\ verdict = "AUTHORIZED"
    /\ IF number = 1 THEN turns' = Append(turns, "OPEN")
                     ELSE Last(turns) = "OPEN" /\ UNCHANGED turns
    /\ attempts' = Append(attempts, NewAttempt(Len(turns')))
    /\ calls' = calls + 1 /\ units' = units + ReservedUnits
    /\ LET isNew == owner = "PLANNING" /\ number = 1
       IN /\ planning' = IF isNew THEN planning + 1 ELSE planning
          /\ SettleUsage(bound, IF isNew THEN Metrics ELSE {"MODEL_CALLS", "UNITS"},
                 [m \in Metrics |-> CASE m = "PLANNING_REQUESTS" -> planning + 1
                                      [] m = "MODEL_CALLS"       -> calls'
                                      [] m = "UNITS"             -> units'])
    /\ tranche' = IF owner = "WORKER" THEN tranche - 1 ELSE tranche
    /\ pc' = "provider" /\ snap' = "unread"
    /\ UNCHANGED <<runVars, barrier, localVars, outerVars>>

\* ModelPort.complete: what the provider did, and the usage it reports; without
\* one, and when the outcome is unknown, the whole reservation is charged.
ProviderAnswers ==
    /\ pc = "provider"
    /\ \E kind \in Outcomes, charged \in Usages \cup {ReservedUnits} :
           /\ kind = "UNKNOWN_OUTCOME" => charged = ReservedUnits
           /\ answer' = [kind |-> kind, charged |-> charged]
    /\ pc' = "settle" /\ snap' = "unread"
    /\ UNCHANGED <<runVars, causes, counterVars, usageVars, barrier, turns, attempts,
                   owner, number, bound, verdict, claim, outerVars>>

\* Variant: the charge comes on top of the reservation.
SettledOnTop(charged) == units + charged

\* ModelCounters.settle: the reservation is given back, the charge is kept.
Settled(charged) == units - ReservedUnits + charged

\* Variant: whatever the provider completed is committed.
CommitsMismatch(kind) == kind \in {"COMPLETED", "MODEL_MISMATCH"}

\* settle_model_completion: only an answer of the model that was asked for is
\* committed; a mismatch leaves the turn open.
Commits(kind) == kind = "COMPLETED"

\* settle_model_attempt; _approved_budget_for_update raises when the budget of
\* the request is no longer the approved one.
SettleAttempt ==
    /\ Ready("settle")
    /\ IF Last(attempts).budget # approved
       THEN Raise
       ELSE /\ attempts' = [attempts EXCEPT ![Len(attempts)].state = answer.kind,
                                            ![Len(attempts)].charged = answer.charged]
            /\ units' = Settled(answer.charged)
            /\ SettleUsage(approved, {"MODEL_CALLS", "UNITS"},
                   [m \in Metrics |-> IF m = "UNITS" THEN units' ELSE calls])
            /\ turns' = IF Commits(answer.kind)
                        THEN [turns EXCEPT ![Len(turns)] = "COMPLETION_COMMITTED"] ELSE turns
            /\ pc' = "settleBarrier" /\ snap' = "unread"
            /\ UNCHANGED <<runVars, calls, planning, tranche, barrier, localVars>>
    /\ UNCHANGED outerVars

\* Variant: an unknown outcome is tried again.
RetriesUnknown == /\ verdict = "AUTHORIZED" /\ number <= RetryCeiling
                  /\ answer.kind \in {"KNOWN_CLOSED_REJECTION", "UNKNOWN_OUTCOME"}

\* The loop of complete ends unless the provider rejected the request for certain.
Retries == verdict = "AUTHORIZED" /\ answer.kind = "KNOWN_CLOSED_REJECTION"
               /\ number <= RetryCeiling

\* settle_runtime_barrier: the stop the caller claims must be the one that this
\* settlement derives, from closing dispatch itself.
SettleBarrier ==
    /\ Ready("settleBarrier")
    /\ LET derived == IF calls >= CallCeiling[current] /\ "BUDGET_EXHAUSTED" \notin causes
                      THEN "BUDGET_STOP" ELSE "none"
       IN IF current # approved \/ claim # derived
          THEN Raise
          ELSE /\ barrier' = "SETTLED"
               /\ SettleUsage(current, {"MODEL_CALLS"}, [m \in Metrics |-> calls])
               /\ pc' = IF Retries THEN "backoff" ELSE "idle"
               /\ snap' = "unread"
               /\ UNCHANGED <<runVars, counterVars, turns, attempts, localVars>>
    /\ UNCHANGED outerVars

\* record_model_backoff, the wait and the next round of the loop
RecordBackoff ==
    /\ Ready("backoff")
    /\ attempts' = [attempts EXCEPT ![Len(attempts)].backoff = TRUE]
    /\ number' = number + 1 /\ pc' = "begin" /\ snap' = "unread"
    /\ UNCHANGED <<runVars, causes, counterVars, usageVars, barrier, turns,
                   owner, bound, verdict, claim, answer, outerVars>>

\* record_runtime_fault_and_classify_barrier
RecordFault ==
    /\ Ready("fault")
    /\ causes' = causes \cup {"RUNTIME_FAULT"}
    /\ IF barrier = "IN_FLIGHT"
       THEN barrier' = "INDETERMINATE" /\ st' = "INDETERMINATE"
       ELSE UNCHANGED <<barrier, st>>
    /\ pc' = "idle" /\ snap' = "unread"
    /\ UNCHANGED <<current, approved, counterVars, usageVars, turns, attempts, localVars,
                   outerVars>>

\* ... which raises to nobody when it finds another sequence: the process ends.
FaultUnrecorded ==
    /\ pc = "fault" /\ snap = "stale" /\ pc' = "idle" /\ snap' = "unread"
    /\ slot' = "orphaned"
    /\ UNCHANGED <<runVars, causes, counterVars, usageVars, barrier, turns, attempts,
                   localVars, commands, crashes>>

-----------------------------------------------------------------------------
(* The owner, from another process                                         *)

Committed == snap' = IF snap = "fresh" THEN "stale" ELSE snap

\* propose_revision of a Budget: before activation it is current at once and the
\* Run goes back to DRAFT; later it only waits for its approval.
ProposeBudget(b) ==
    /\ commands < MaxCommands /\ commands' = commands + 1 /\ b # current
    /\ st \in {"DRAFT", "PLANNING"}
    /\ current' = b /\ st' = "DRAFT" /\ Committed
    /\ UNCHANGED <<approved, causes, counterVars, usageVars, barrier, turns, attempts,
                   pc, localVars, deathVars>>

\* approve_revision of a Budget: during execution it replaces the current one at
\* once, because a model call is not one of the atomic actions that delay it.
ApproveBudget(b) ==
    /\ commands < MaxCommands /\ commands' = commands + 1 /\ b # approved
    /\ \/ st = "DRAFT" /\ b = current
       \/ st \in {"ACTIVE", "PAUSED"}
    /\ current' = b /\ approved' = b /\ Committed
    /\ UNCHANGED <<st, causes, counterVars, usageVars, barrier, turns, attempts,
                   pc, localVars, deathVars>>

\* Any other command that only records its outcome.
OtherCommand ==
    /\ commands < MaxCommands /\ commands' = commands + 1 /\ snap = "fresh" /\ Committed
    /\ UNCHANGED <<runVars, causes, counterVars, usageVars, barrier, turns, attempts,
                   pc, localVars, deathVars>>

\* apply_runtime_continue clears the owner and issues a permit: another delivery
\* may come.
Continue ==
    /\ pc = "idle" /\ slot = "orphaned" /\ slot' = "free"
    /\ UNCHANGED <<runVars, causes, counterVars, usageVars, barrier, turns, attempts,
                   pc, snap, localVars, commands, crashes>>

\* Begin planning and the reuse of the reservation (RunControl), under the
\* budget approved meanwhile; refused while the row has an owner.
PlanAgain ==
    /\ pc = "idle" /\ slot = "free"
    /\ st = "DRAFT" /\ current = approved /\ st' = "PLANNING"
    /\ UNCHANGED <<current, approved, causes, counterVars, usageVars, barrier, turns,
                   attempts, pc, snap, localVars, outerVars>>

\* The process dies: the lock of the Run is free again, its row keeps the owner.
Crash ==
    /\ pc # "idle" /\ crashes < MaxCrashes /\ crashes' = crashes + 1
    /\ pc' = "idle" /\ snap' = "unread" /\ slot' = "orphaned"
    /\ UNCHANGED <<runVars, causes, counterVars, usageVars, barrier, turns, attempts,
                   localVars, commands>>

\* A delivery begins, or goes on to its next turn.
DeliveryStep == StartTurn \/ StopRaises

LiveStep ==
    \/ ReadSequence \/ SequenceConflict \/ BeginBarrier
    \/ EvaluateReservation \/ PauseForCeiling \/ ReserveAttempt \/ ProviderAnswers
    \/ SettleAttempt \/ SettleBarrier \/ RecordBackoff \/ RecordFault \/ FaultUnrecorded

OwnerStep ==
    \/ \E b \in Budgets : ProposeBudget(b) \/ ApproveBudget(b)
    \/ OtherCommand \/ Continue \/ PlanAgain

Next == DeliveryStep \/ LiveStep \/ OwnerStep \/ Crash

Spec == Init /\ [][Next]_vars

\* A process that is alive goes on with its turn, and a provider answers or times
\* out.  Nothing is asked of the owner, and no delivery need follow another.
FairSpec == Spec /\ WF_vars(LiveStep)

-----------------------------------------------------------------------------
(* Properties                                                              *)

ChargesOf(s) ==
    LET sum[n \in 0 .. Len(s)] == IF n = 0 THEN 0 ELSE sum[n - 1] + s[n].charged
    IN  sum[Len(s)]

\* Every attempt is charged once whatever became of it, its reservation until it
\* is settled and its charge from then on, and the two tables that count agree:
\* reserve_authorized_model_attempt and settle_model_attempt.
ChargedOnce ==
    /\ calls = Len(attempts) /\ units = ChargesOf(attempts)
    /\ usage["MODEL_CALLS"] = calls /\ usage["UNITS"] = units
    /\ usage["PLANNING_REQUESTS"] = planning

LastBudget == Last(attempts).budget

\* The attempts that were sent stay under the ceiling of the budget the last of
\* them was bound to, whatever budgets came before: _evaluate_model_reservation.
WithinCeilings ==
    attempts # <<>> =>
        /\ calls <= CallCeiling[LastBudget]
        /\ units - Last(attempts).charged + ReservedUnits <= UnitCeiling[LastBudget]

\* Use that has reached a ceiling leaves dispatch closed, also at the exact value:
\* _settle_global_usage_in_transaction.
ExhaustedIsClosed ==
    attempts # <<>> /\ calls >= CallCeiling[LastBudget] => "BUDGET_EXHAUSTED" \in causes

\* Under one budget, use never stands at 80 percent without its warning, though a
\* reservation may cross that point and a settlement take it back: crossed_threshold.
WarnedInTime ==
    \A b \in Budgets : (\A i \in DOMAIN attempts : attempts[i].budget = b) =>
        \A m \in Metrics \ {"PLANNING_REQUESTS"} :
            (attempts # <<>> /\ usage[m] * 100 >= Ceiling(b, m) * 80 /\ Ceiling(b, m) > 0)
                => <<b, m>> \in warned

\* A request is sent again only in the turn of the last one, after the provider
\* rejected that for certain and the backoff was recorded, at most twice: the loop
\* of complete.
RetriedWhenRejected ==
    \A i \in DOMAIN attempts :
        /\ attempts[i].number > 1 =>
               /\ i > 1 /\ attempts[i - 1].turn = attempts[i].turn
               /\ attempts[i - 1].number = attempts[i].number - 1
               /\ attempts[i - 1].state = "KNOWN_CLOSED_REJECTION" /\ attempts[i - 1].backoff
        /\ attempts[i].number <= RetryCeiling + 1

\* A turn is committed exactly when its last attempt was completed by the model
\* it asked for, and no attempt follows: settle_model_attempt.
CommittedByItsLast ==
    \A t \in DOMAIN turns : \E i \in DOMAIN attempts :
        /\ attempts[i].turn = t
        /\ \A j \in DOMAIN attempts : attempts[j].turn = t => j <= i
        /\ turns[t] = "COMPLETION_COMMITTED" <=> attempts[i].state = "COMPLETED"

Unsettled(i) == i \in DOMAIN attempts /\ attempts[i].state = "RESERVED"

\* An attempt whose outcome is not recorded keeps its barrier: it is the last
\* attempt, and no later call can hide it.
UnsettledIsHeld ==
    \A i \in DOMAIN attempts : Unsettled(i) =>
        i = Len(attempts) /\ barrier \in {"IN_FLIGHT", "INDETERMINATE"}

\* Nothing is sent under a budget that the owner replaced, nor with dispatch closed.
SentUnderAuthority ==
    [][Len(attempts') > Len(attempts) =>
           causes = {} /\ Last(attempts').budget = approved /\ approved = current]_vars

\* A turn never ends over a reservation, its own or one that a dead process left:
\* that is settled, or the Run becomes INDETERMINATE, or the process dies or cannot
\* record its fault, and then the row keeps its owner for continue to find
\* (complete, begin_runtime_barrier, record_runtime_fault_and_classify_barrier).
ReservationResolves ==
    pc # "idle" /\ (\E i \in DOMAIN attempts : Unsettled(i))
        ~> \/ \A i \in DOMAIN attempts : ~Unsettled(i)
           \/ st = "INDETERMINATE"
           \/ pc = "idle" /\ slot = "orphaned"

\* Each attempt has one charge, and one whose outcome is not recorded keeps the
\* barrier, so that no later call hides it: the settlement finds it or the Run
\* is stopped.
AttemptsAccounted == ChargedOnce /\ UnsettledIsHeld

\* A ceiling is respected, closes dispatch when it is reached, and is warned of
\* at 80 percent, whichever settlement moves the counters there.
CeilingsHold == WithinCeilings /\ ExhaustedIsClosed /\ WarnedInTime

\* The attempts of a turn are rejections and then its end: retried after a
\* certain rejection only, and committed by the last if at all.
TurnsAreAccounted == RetriedWhenRejected /\ CommittedByItsLast

\* At 100 percent the current action settles and the Run pauses (SPEC.md, section
\* 9): a Run is INDETERMINATE only for a call whose outcome is unknown.
KnownOutcomeSettles ==
    st = "INDETERMINATE" => \E i \in DOMAIN attempts :
                                attempts[i].state \in {"RESERVED", "UNKNOWN_OUTCOME"}
=============================================================================
