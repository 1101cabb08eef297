---------------------------- MODULE WorkerActions ----------------------------
(***************************************************************************)
(* The Worker phase of an ACTIVE Run: the Attempts that the scheduler       *)
(* creates with their Workspace Leases, the actions that the model answers, *)
(* the Pending Actions that wait for a human, the Grants that let exactly   *)
(* one of them happen, and what a restart makes of every half-done step.    *)
(*                                                                          *)
(* As in RunControl an action is one transaction (or one read) of the       *)
(* store.  The audit sequence is kept as the set of actors whose last read  *)
(* of it is still current: every commit empties the set, and a transaction  *)
(* that compares expected_sequence asks for membership.  Of the phases of a *)
(* permit only the Run's own matters here: a permit is consumed in the      *)
(* state it names, only its runtime changes that state, and it stops then.  *)
(* A control command that names an old sequence touches none of these rows  *)
(* (RunControl has it); nothing under src/ inserts a runtime interrupt.     *)
(***************************************************************************)
EXTENDS Naturals, Sequences, FiniteSets

CONSTANTS
    Tasks,            \* Tasks of the approved Plan
    Revisions,        \* digests of the Budget, a revision that may be replaced
    None,             \* SQL NULL
    Runtime,          \* the runtime, as a reader of the audit sequence
    Threads,          \* threads that handle grant commands
    MaxRequests,      \* bound: grant commands ever sent
    MaxTurns,         \* bound: Worker turns the provider ever answers
    WorkerCeiling,    \* concurrent_worker_ceiling of the budget
    Acts,             \* what the model answers
    Disturbances,     \* what else may happen: see the actions that name them
    CredentialBound,  \* does a dispatch selection carry a credential profile?
    ContinueDelivered \* does `continue` reach apply_runtime_continue?

ASSUME WorkerAssumption ==
    /\ None \notin Revisions \cup Tasks
    /\ Runtime \notin Threads
    /\ MaxRequests \in Nat /\ MaxTurns \in Nat
    /\ WorkerCeiling \in Nat \ {0}
    /\ Acts \subseteq {"direct", "outside", "risky", "finish", "fail", "malformed"}
    /\ Disturbances \subseteq {"replace", "expiry", "edit", "fault", "crash"}
    /\ CredentialBound \in BOOLEAN /\ ContinueDelivered \in BOOLEAN

VARIABLES
    \* the row of the Run
    run,       \* runs.state
    open,      \* runs.new_dispatch_open
    rev,       \* runs.current_budget_digest, and the budget that is enforced
    permit,    \* the UNCONSUMED row of runtime_permits
    owner,     \* runs.runtime_owner_id is set
    barrier,   \* runtime_barriers.state; planning left it settled
    faulted,   \* runtime_faults has a row of a Worker delivery
    \* Attempts and turns
    attempts,  \* worker_attempts with its task row and its workspace lease
    created,   \* the order of created_sequence
    turns,     \* committed model_turns, with the marker of their recovery
    actions,   \* worker_actions, pending_actions and granted_action_intents
    grants,    \* approval_grants, in the order they were inserted
    \* the workspace
    file,      \* what a risky action would find at its path
    effects,   \* how often the effect of a turn's action happened
    \* grant commands
    sent, claims, handler,
    fresh,     \* actors whose last read of the audit sequence is current
    \* the one live runtime
    pc, held, hand

runVars      == <<run, open, rev>>
barrierVars  == <<barrier, faulted>>
deliveryVars == <<permit, owner, barrierVars>>
attemptVars  == <<attempts, created>>
commandVars  == <<sent, claims, handler>>

vars == <<runVars, deliveryVars, attemptVars, turns, actions, grants, file,
          effects, commandVars, fresh, pc, held, hand>>

-----------------------------------------------------------------------------
(* Values *)

TurnIds == 1 .. MaxTurns

Permits == [phase : {"READY_TO_START", "ACTIVE", "PAUSED", "INDETERMINATE"},
            rev : Revisions]

\* "expired" says that lease.expires_at has passed: nothing writes the row then.
Attempts == [task : {"NONE", "ACTIVE", "READY"},
             state : {"NONE", "RUNNING", "WAITING_APPROVAL", "STALE", "FAILED",
                      "SUCCEEDED"},
             bound : Revisions \cup {None},
             lease : {"NONE", "ACTIVE", "REVOKED"}, expired : BOOLEAN]

Turns == [task : Tasks, act : Acts,
          state : {"COMPLETION_COMMITTED", "DOWNSTREAM_INTENT_RECORDED"},
          marker : {"NONE", "UNSETTLED", "SETTLED"}]

\* "late" says that pending.expires_at has passed.
Actions == [row : {"NONE", "RECORDED", "FROZEN", "SETTLED", "UNCERTAIN"},
            pending : {"NONE", "WAITING_APPROVAL", "GRANT_CONSUMED", "SETTLED",
                       "INVALIDATED"},
            intent : {"NONE", "INTENT_RECORDED", "DISPATCHED", "SETTLED",
                      "INDETERMINATE"},
            late : BOOLEAN]

Grants == [turn : TurnIds, state : {"CONSUMED", "INVALIDATED"}]

\* A thread between apply_control_command and the transaction of the grant:
\* "exact" when the payload repeats what was displayed, "late" by its clock.
Handlings == [id : 1 .. MaxRequests, turn : TurnIds, exact : BOOLEAN, late : BOOLEAN]

Hands == [task : Tasks \cup {None}, turn : TurnIds \cup {0}, recovered : BOOLEAN,
          verdict : {"NONE", "ALLOW", "APPROVE", "DENY", "SETTLED", "UNCERTAIN"}]

NoHand == [task |-> None, turn |-> 0, recovered |-> FALSE, verdict |-> "NONE"]

Holding(i, recovered) ==
    [task |-> turns[i].task, turn |-> i, recovered |-> recovered,
     verdict |-> "NONE"]

-----------------------------------------------------------------------------
(* What the store reads in one transaction *)

AttemptOf(i) == attempts[turns[i].task]

\* _worker_turn_binding_in_transaction
Runnable(k) == attempts[k].state = "RUNNING" /\ attempts[k].lease = "ACTIVE"

ActiveLeases == {k \in Tasks : attempts[k].lease = "ACTIVE"}

UnsettledMarkers == {i \in DOMAIN turns : turns[i].marker = "UNSETTLED"}

UnsettledGrants ==
    {n \in DOMAIN grants :
        /\ grants[n].state = "CONSUMED"
        /\ actions[grants[n].turn].intent \in {"INTENT_RECORDED", "DISPATCHED"}}

UnsettledTools == {i \in TurnIds : actions[i].row = "RECORDED"}

\* The order is that of committed_sequence, the order of the turns.
RecoverableTurns == {i \in DOMAIN turns : turns[i].state = "COMPLETION_COMMITTED"}

First(S) == CHOOSE n \in S : \A m \in S : n <= m

\* What authorize_action reads: the Run, its revisions, the lease and its globs.
Authorized(i) ==
    /\ run = "ACTIVE" /\ open
    /\ AttemptOf(i).bound = rev
    /\ AttemptOf(i).lease = "ACTIVE" /\ ~AttemptOf(i).expired
    /\ turns[i].act # "outside"

\* _settle_recovered_worker_marker, for a turn that a restart recovered.
MarkerSettleable(i) == held.phase = "ACTIVE" /\ held.rev = AttemptOf(i).bound

MarkerSettled(i) ==
    IF hand.recovered THEN [turns EXCEPT ![i].marker = "SETTLED"] ELSE turns

-----------------------------------------------------------------------------
(* Initially: the runtime that initialized the private ref is about to loop *)

Init ==
    /\ run = "ACTIVE" /\ open = TRUE /\ rev \in Revisions
    /\ permit = None /\ owner = TRUE
    /\ barrier = "SETTLED" /\ faulted = FALSE
    /\ attempts = [k \in Tasks |-> [task |-> "NONE", state |-> "NONE",
                       bound |-> None, lease |-> "NONE", expired |-> FALSE]]
    /\ created = <<>> /\ turns = <<>> /\ grants = <<>>
    /\ actions = [i \in TurnIds |-> [row |-> "NONE", pending |-> "NONE",
                                     intent |-> "NONE", late |-> FALSE]]
    /\ file = [i \in TurnIds |-> "pre"] /\ effects = [i \in TurnIds |-> 0]
    /\ sent = 0 /\ claims = {} /\ handler = [t \in Threads |-> None]
    /\ fresh = {}
    /\ pc = "loop" /\ held = [phase |-> "READY_TO_START", rev |-> rev]
    /\ hand = NoHand

-----------------------------------------------------------------------------
(* Grant commands: apply_control_command and accept_pending_action_grant *)

\* The command names the sequence it was displayed with; the clock is read
\* before the transaction.
Handle(t, i, exact, id) ==
    /\ handler[t] = None
    /\ handler' = [handler EXCEPT ![t] =
                      [id |-> id, turn |-> i, exact |-> exact,
                       late |-> actions[i].late]]
    /\ fresh' = fresh \cup {t}
    /\ UNCHANGED <<runVars, deliveryVars, attemptVars, turns, actions, grants,
                   file, effects, claims, pc, held, hand>>

Decide(t, i, exact) ==
    /\ sent < MaxRequests /\ actions[i].pending # "NONE"
    /\ sent' = sent + 1
    /\ Handle(t, i, exact, sent + 1)

\* The same envelope again, while its first delivery has no outcome.
Redeliver(t, u) ==
    /\ handler[u] # None /\ handler[u].id \notin claims
    /\ u \in fresh
    /\ Handle(t, handler[u].turn, handler[u].exact, handler[u].id)
    /\ UNCHANGED sent

\* The receipt of the command, in the transaction of its effects.
Receipt(t) ==
    /\ t \in fresh
    /\ fresh' = {}
    /\ claims' = claims \cup {handler[t].id}
    /\ handler' = [handler EXCEPT ![t] = None]
    /\ UNCHANGED <<sent, runVars, owner, barrierVars, created, turns, file, effects,
                   pc, held, hand>>

\* The transaction raises: StateConflict, nothing is written, no receipt.
RolledBack(t) ==
    /\ handler' = [handler EXCEPT ![t] = None]
    /\ fresh' = fresh \ {t}
    /\ UNCHANGED <<sent, claims, runVars, deliveryVars, attemptVars, turns, actions,
                   grants, file, effects, pc, held, hand>>

Waiting(i) == actions[i].pending = "WAITING_APPROVAL"

\* Variant: the Grant is consumed, its intent is not inserted.
GrantedUnjournaled(i) == [actions EXCEPT ![i].pending = "GRANT_CONSUMED"]

\* _set_pending_state and _insert_granted_action_intent
Granted(i) == [actions EXCEPT ![i].pending = "GRANT_CONSUMED",
                              ![i].intent = "INTENT_RECORDED"]

\* Variant: the Attempt goes on waiting.
ResumedWaiting(i) == attempts

\* The Attempt of a granted action runs again.
Resumed(i) == [attempts EXCEPT ![turns[i].task].state = "RUNNING"]

\* _current_frozen_action_bindings, compared with the frozen ones.  Neither the
\* expiry of the lease nor new_dispatch_open is among them.
BindingsCurrent(i) ==
    /\ AttemptOf(i).bound = rev
    /\ AttemptOf(i).lease = "ACTIVE"
    /\ AttemptOf(i).state = "WAITING_APPROVAL"

PermitIssuable == run = "ACTIVE" /\ permit = None /\ ~owner

\* Variant: the Grant issues no permit.
MintedNone == None

\* _issue_runtime_permit_in_transaction
Minted == [phase |-> run, rev |-> rev]

\* Variant: the Attempt is left as it is.
InvalidatedKept(i) ==
    /\ AttemptOf(i).state = "WAITING_APPROVAL"
    /\ actions' = [actions EXCEPT ![i].pending = "INVALIDATED"]
    /\ UNCHANGED attempts

\* _invalidate_pending_action
Invalidated(i) ==
    /\ AttemptOf(i).state = "WAITING_APPROVAL"
    /\ actions' = [actions EXCEPT ![i].pending = "INVALIDATED"]
    /\ attempts' = [attempts EXCEPT ![turns[i].task].state = "STALE"]

CommitLost(t) == handler[t] # None /\ t \notin fresh /\ RolledBack(t)

CommitDenied(t) ==
    /\ handler[t] # None /\ ~handler[t].exact
    /\ Receipt(t)
    /\ UNCHANGED <<permit, attempts, actions, grants>>

CommitExpired(t) ==
    /\ handler[t] # None /\ handler[t].exact /\ handler[t].late
    /\ Waiting(handler[t].turn) /\ Invalidated(handler[t].turn)
    /\ Receipt(t)
    /\ UNCHANGED <<permit, grants>>

CommitStale(t) ==
    /\ handler[t] # None /\ handler[t].exact /\ ~handler[t].late
    /\ LET i == handler[t].turn IN
       /\ Waiting(i) /\ ~BindingsCurrent(i) /\ Invalidated(i)
       /\ grants' = Append(grants, [turn |-> i, state |-> "INVALIDATED"])
    /\ Receipt(t)
    /\ UNCHANGED permit

CommitGrant(t) ==
    /\ handler[t] # None /\ handler[t].exact /\ ~handler[t].late
    /\ LET i == handler[t].turn IN
       /\ Waiting(i) /\ BindingsCurrent(i) /\ PermitIssuable
       /\ permit' = Minted
       /\ grants' = Append(grants, [turn |-> i, state |-> "CONSUMED"])
       /\ actions' = Granted(i) /\ attempts' = Resumed(i)
    /\ Receipt(t)

CommitRaises(t) ==
    /\ handler[t] # None /\ t \in fresh /\ handler[t].exact
    /\ LET i == handler[t].turn IN
       \/ ~Waiting(i)
       \/ ~handler[t].late /\ BindingsCurrent(i) /\ ~PermitIssuable
    /\ RolledBack(t)

Command ==
    \E t \in Threads :
        \/ \E i \in TurnIds, exact \in BOOLEAN : Decide(t, i, exact)
        \/ \E u \in Threads : Redeliver(t, u)
        \/ CommitLost(t) \/ CommitDenied(t) \/ CommitExpired(t)
        \/ CommitStale(t) \/ CommitGrant(t) \/ CommitRaises(t)

-----------------------------------------------------------------------------
(* What happens around the store *)

\* approve_revision of a replacement in an execution state: the digest changes
\* and nothing else that is modelled here does.
Replace ==
    /\ "replace" \in Disturbances
    /\ rev' \in Revisions \ {rev}
    /\ fresh' = {}
    /\ UNCHANGED <<run, open, deliveryVars, attemptVars, turns, actions, grants,
                   file, effects, commandVars, pc, held, hand>>

\* apply_runtime_continue: a dead owner is cleared, a permit is minted for the
\* state the Run is in.
Continue ==
    /\ ContinueDelivered /\ pc = "idle" /\ permit = None
    /\ permit' = Minted /\ owner' = FALSE
    /\ fresh' = {}
    /\ UNCHANGED <<runVars, barrierVars, attemptVars, turns, actions, grants, file,
                   effects, commandVars, pc, held, hand>>

LeaseExpires(k) ==
    /\ "expiry" \in Disturbances
    /\ attempts[k].lease = "ACTIVE"
    /\ attempts' = [attempts EXCEPT ![k].expired = TRUE]
    /\ UNCHANGED <<runVars, deliveryVars, created, turns, actions, grants, file,
                   effects, commandVars, fresh, pc, held, hand>>

PendingExpires(i) ==
    /\ "expiry" \in Disturbances
    /\ Waiting(i)
    /\ actions' = [actions EXCEPT ![i].late = TRUE]
    /\ UNCHANGED <<runVars, deliveryVars, attemptVars, turns, grants, file, effects,
                   commandVars, fresh, pc, held, hand>>

\* Somebody edits the file of a frozen action.  Bounds: never back to what the
\* action was frozen with, and while its intent is unsettled: nobody reads the
\* file before, or after.
Edit(i) ==
    /\ "edit" \in Disturbances
    /\ actions[i].intent \in {"INTENT_RECORDED", "DISPATCHED"}
    /\ file[i] # "other"
    /\ file' \in {[file EXCEPT ![i] = f] : f \in {"post", "other"} \ {file[i]}}
    /\ UNCHANGED <<runVars, deliveryVars, attemptVars, turns, actions, grants,
                   effects, commandVars, fresh, pc, held, hand>>

\* An exception in any step of the runtime: I/O, or a transaction whose sequence
\* a command took between the runtime's read of it and the commit.
Fault ==
    /\ "fault" \in Disturbances
    /\ pc \notin {"idle", "fault", "stop"}
    /\ pc' = "fault" /\ hand' = NoHand
    /\ UNCHANGED <<runVars, deliveryVars, attemptVars, turns, actions, grants, file,
                   effects, commandVars, fresh, held>>

Crash ==
    /\ "crash" \in Disturbances
    /\ pc # "idle"
    /\ pc' = "idle" /\ hand' = NoHand /\ held' = None
    /\ UNCHANGED <<runVars, deliveryVars, attemptVars, turns, actions, grants, file,
                   effects, commandVars, fresh>>

Environment ==
    \/ Replace \/ Continue \/ Fault \/ Crash
    \/ \E k \in Tasks : LeaseExpires(k)
    \/ \E i \in TurnIds : PendingExpires(i) \/ Edit(i)

-----------------------------------------------------------------------------
(* The runtime: permit, recovery at entry *)

Goto(p, h) == pc' = p /\ hand' = h

\* A step that only reads the store.
ReadStep ==
    UNCHANGED <<runVars, deliveryVars, attemptVars, turns, actions, grants, file,
                effects, commandVars, fresh, held>>

\* A step that commits: whoever read the sequence before has an old value.
Commit ==
    /\ fresh' = {}
    /\ UNCHANGED <<commandVars, held>>

ConsumePermit ==
    /\ pc = "idle" /\ permit # None /\ ~owner
    /\ permit.phase = run /\ permit.rev = rev
    /\ owner' = TRUE /\ permit' = None /\ held' = permit
    /\ Goto("entry", NoHand)
    /\ fresh' = {}
    /\ UNCHANGED <<runVars, barrierVars, attemptVars, turns, actions, grants, file,
                   effects, commandVars>>

InvalidatePermit ==
    /\ pc = "idle" /\ permit # None
    /\ permit.phase # run \/ permit.rev # rev
    /\ permit' = None
    /\ Commit
    /\ UNCHANGED <<runVars, owner, barrierVars, attemptVars, turns, actions, grants,
                   file, effects, pc, hand>>

\* _run_consumed_permit looks for a recovered action, then for a granted one,
\* then for any other unsettled intent, then for a committed turn.
EnterResume ==
    /\ pc = "entry"
    /\ \E i \in UnsettledMarkers : Goto("consume", Holding(i, TRUE))
    /\ ReadStep

EnterGranted ==
    /\ pc = "entry" /\ UnsettledMarkers = {} /\ UnsettledGrants # {}
    /\ Goto("granted", Holding(grants[First(UnsettledGrants)].turn, FALSE))
    /\ ReadStep

\* No recovery strategy is registered for a tool intent.
EnterUnsettled ==
    /\ pc = "entry" /\ UnsettledMarkers = {} /\ UnsettledGrants = {}
    /\ UnsettledTools # {}
    /\ Goto("fault", NoHand)
    /\ ReadStep

\* Variant: the marker of a recovered turn is overlooked.
NothingUnsettledMarked == UnsettledGrants = {} /\ UnsettledTools = {}

NothingUnsettled ==
    UnsettledMarkers = {} /\ UnsettledGrants = {} /\ UnsettledTools = {}

\* The turn was asked under revisions that are not the current ones.
EnterBlocked ==
    /\ pc = "entry" /\ NothingUnsettled /\ RecoverableTurns # {}
    /\ AttemptOf(First(RecoverableTurns)).bound # rev
    /\ Goto("stop", NoHand)
    /\ ReadStep

\* record_downstream_action_intent
EnterRecover ==
    /\ pc = "entry" /\ NothingUnsettled /\ RecoverableTurns # {}
    /\ LET i == First(RecoverableTurns) IN
       /\ AttemptOf(i).bound = rev
       /\ turns' = [turns EXCEPT ![i].state = "DOWNSTREAM_INTENT_RECORDED",
                                 ![i].marker = "UNSETTLED"]
       /\ Goto("consume", Holding(i, TRUE))
    /\ Commit
    /\ UNCHANGED <<runVars, deliveryVars, attemptVars, actions, grants, file, effects>>

EnterDrive ==
    /\ pc = "entry" /\ NothingUnsettled /\ RecoverableTurns = {}
    /\ Goto("loop", NoHand)
    /\ ReadStep

Entry == EnterResume \/ EnterGranted \/ EnterUnsettled \/ EnterBlocked
         \/ EnterRecover \/ EnterDrive

-----------------------------------------------------------------------------
(* The runtime: scheduling, one Worker turn *)

\* evaluate_active_run_time_boundary at the ceiling, before and after each driver;
\* below it nothing changes but the audit log.
TimeExhausted ==
    /\ pc \in {"loop", "leave"}
    /\ open' = FALSE
    /\ Goto("stop", NoHand)
    /\ Commit
    /\ UNCHANGED <<run, rev, deliveryVars, attemptVars, turns, actions, grants, file,
                   effects>>

Leave ==
    /\ pc = "leave"
    /\ Goto("stop", NoHand)
    /\ ReadStep

\* schedule, and the ResolutionDriver that has no implementation under src/.
LoopClosed ==
    /\ pc = "loop" /\ (run # "ACTIVE" \/ ~open)
    /\ Goto("leave", NoHand)
    /\ ReadStep

Dispatching == pc = "loop" /\ run = "ACTIVE" /\ open

RunnableTurns == {n \in DOMAIN created : Runnable(created[n])}

LoopExisting ==
    /\ Dispatching /\ RunnableTurns # {}
    /\ Goto("turn", [NoHand EXCEPT !.task = created[First(RunnableTurns)]])
    /\ ReadStep

\* CONCURRENT_WORKER_CEILING, or NO_DISPATCHABLE_TASK: dependencies, hazards and
\* tranches may hold back every Task there is.
LoopNothing ==
    /\ Dispatching /\ RunnableTurns = {}
    /\ Goto("leave", NoHand)
    /\ ReadStep

\* next_dispatchable asks the row of the Task, not its Attempts.
Schedulable(k) ==
    /\ Dispatching /\ RunnableTurns = {}
    /\ Cardinality(ActiveLeases) < WorkerCeiling
    /\ attempts[k].task \in {"NONE", "READY"}

\* Variant: INSERT OR REPLACE.
AttemptFreeReplace(k) == TRUE

\* A Task that went back to READY still names the Attempt of its tranche, and
\* attempt_id is the primary key of worker_attempts.
AttemptFree(k) == attempts[k].state = "NONE"

\* create_attempt_with_lease: the usage of the new lease may be the ceiling,
\* which closes dispatch.
LoopCreate(k) ==
    /\ Schedulable(k) /\ AttemptFree(k)
    /\ attempts' = [attempts EXCEPT ![k] =
                       [task |-> "ACTIVE", state |-> "RUNNING", bound |-> rev,
                        lease |-> "ACTIVE", expired |-> FALSE]]
    /\ created' = Append(created, k)
    /\ open' = (Cardinality(ActiveLeases) + 1 < WorkerCeiling)
    /\ Goto("turn", [NoHand EXCEPT !.task = k])
    /\ Commit
    /\ UNCHANGED <<run, rev, deliveryVars, turns, actions, grants, file, effects>>

\* The INSERT of the same attempt id raises.
LoopConflict(k) ==
    /\ Schedulable(k) /\ ~AttemptFree(k)
    /\ Goto("fault", NoHand)
    /\ ReadStep

Loop == \/ TimeExhausted \/ Leave \/ LoopClosed \/ LoopExisting \/ LoopNothing
        \/ \E k \in Tasks : LoopCreate(k) \/ LoopConflict(k)

\* begin_runtime_barrier.  One barrier stands for those of all the attempts the
\* provider is asked for in the turn.
BeginBarrier ==
    /\ pc = "turn" /\ open /\ barrier # "IN_FLIGHT"
    /\ barrier' = "IN_FLIGHT"
    /\ Goto("reserve", hand)
    /\ Commit
    /\ UNCHANGED <<runVars, permit, owner, faulted, attemptVars, turns, actions, grants,
                   file, effects>>

\* The lease that was just issued closed dispatch, or a dead runtime left its
\* barrier in flight.
BarrierRaises ==
    /\ pc = "turn" /\ (~open \/ barrier = "IN_FLIGHT")
    /\ Goto("fault", NoHand)
    /\ ReadStep

Dispatchable == run = "ACTIVE" /\ open /\ attempts[hand.task].bound = rev

\* _evaluate_model_reservation denies; STALE_SEQUENCE is a command's commit after
\* the runtime's read of the sequence.
TurnRefused ==
    /\ pc = "reserve"
    /\ ~(CredentialBound /\ Dispatchable) \/ "fault" \in Disturbances
    /\ Goto("settleBarrier", hand)
    /\ ReadStep

Reservable == pc = "reserve" /\ CredentialBound /\ Dispatchable

\* A ceiling of the budget would be passed.
TurnPaused ==
    /\ Reservable
    /\ run' = "PAUSED" /\ open' = FALSE
    /\ Goto("settleBarrier", hand)
    /\ Commit
    /\ UNCHANGED <<rev, deliveryVars, attemptVars, turns, actions, grants, file,
                   effects>>

\* A ceiling that is just reached closes dispatch.
TurnReserved ==
    /\ Reservable
    /\ open' \in BOOLEAN
    /\ Goto("provider", hand)
    /\ Commit
    /\ UNCHANGED <<run, rev, deliveryVars, attemptVars, turns, actions, grants, file,
                   effects>>

\* One step for all the attempts that the provider is asked for in the turn.
\* Reported usage may be more than was reserved, and reach a ceiling.
Settling ==
    /\ pc = "provider" /\ attempts[hand.task].bound = rev
    /\ open' \in {open, FALSE}

\* The completion is committed before it is released to the Worker loop.
ProviderAnswers(act) ==
    /\ Settling /\ Len(turns) < MaxTurns
    /\ turns' = Append(turns, [task |-> hand.task, act |-> act,
                               state |-> "COMPLETION_COMMITTED", marker |-> "NONE"])
    /\ Goto("settleBarrier", [NoHand EXCEPT !.task = hand.task, !.turn = Len(turns) + 1])
    /\ Commit
    /\ UNCHANGED <<run, rev, deliveryVars, attemptVars, actions, grants, file, effects>>

\* The reservation of a retry may pass a ceiling of the budget.
ProviderFails ==
    /\ Settling
    /\ run' \in {run, "PAUSED"} /\ (run' # run => ~open')
    /\ Goto("settleBarrier", hand)
    /\ Commit
    /\ UNCHANGED <<rev, deliveryVars, attemptVars, turns, actions, grants, file,
                   effects>>

\* settle_model_attempt raises under another budget than the request's; the
\* barrier stays in flight.
ProviderRaises ==
    /\ pc = "provider" /\ attempts[hand.task].bound # rev
    /\ Goto("fault", NoHand)
    /\ ReadStep

\* settle_runtime_barrier; only a committed completion is released.
SettleBarrier ==
    /\ pc = "settleBarrier" /\ open
    /\ barrier' = "SETTLED"
    /\ IF hand.turn = 0 THEN Goto("leave", NoHand) ELSE Goto("consume", hand)
    /\ Commit
    /\ UNCHANGED <<runVars, permit, owner, faulted, attemptVars, turns, actions, grants,
                   file, effects>>

\* The stop that the caller claims is not the one that the settlement derives:
\* a ceiling has closed dispatch before it, or the calls so far reach the
\* ceiling of a budget that was approved since.
SettlementRaises ==
    /\ pc = "settleBarrier" /\ (~open \/ attempts[hand.task].bound # rev)
    /\ Goto("fault", NoHand)
    /\ ReadStep

Turn == \/ BeginBarrier \/ BarrierRaises
        \/ TurnRefused \/ TurnPaused \/ TurnReserved
        \/ \E act \in Acts : ProviderAnswers(act)
        \/ ProviderFails \/ ProviderRaises
        \/ SettleBarrier \/ SettlementRaises

-----------------------------------------------------------------------------
(* The runtime: consuming a Worker action, live or recovered *)

Cur == hand.turn

\* current_worker_turn_binding raises.
ConsumeGone ==
    /\ pc = "consume" /\ ~Runnable(turns[Cur].task)
    /\ Goto("fault", NoHand)
    /\ ReadStep

Consuming(acts) ==
    pc = "consume" /\ Runnable(turns[Cur].task) /\ turns[Cur].act \in acts

\* Variant: the lease is not released.
EndedLeased(k, state) == [attempts EXCEPT ![k].state = state]

\* _finish_attempt and _release_attempt_lease
Ended(k, state) == [attempts EXCEPT ![k].state = state, ![k].lease = "REVOKED"]

MalformedRecordable ==
    AttemptOf(Cur).bound = rev /\ (hand.recovered => MarkerSettleable(Cur))

\* record_malformed_worker_action
RecordMalformed ==
    /\ Consuming({"malformed"}) /\ MalformedRecordable
    /\ attempts' = [Ended(turns[Cur].task, "FAILED")
                        EXCEPT ![turns[Cur].task].task = "READY"]
    /\ turns' = MarkerSettled(Cur)
    /\ Goto("loop", NoHand)
    /\ Commit
    /\ UNCHANGED <<runVars, deliveryVars, created, actions, grants, file, effects>>

MalformedRaises ==
    /\ Consuming({"malformed"}) /\ ~MalformedRecordable
    /\ Goto("fault", NoHand)
    /\ ReadStep

\* Variant: a risky action needs no approval.
VerdictLax(i) == IF Authorized(i) THEN "ALLOW" ELSE "DENY"

Verdict(i) == IF ~Authorized(i) THEN "DENY"
              ELSE IF turns[i].act = "risky" THEN "APPROVE" ELSE "ALLOW"

\* authorize_action decides from what it reads; the sequence it will compare was
\* read just before.
Authorize ==
    /\ Consuming({"direct", "outside", "risky", "finish", "fail"})
    /\ Goto("decided", [hand EXCEPT !.verdict = Verdict(Cur)])
    /\ fresh' = fresh \cup {Runtime}
    /\ UNCHANGED <<runVars, deliveryVars, attemptVars, turns, actions, grants, file,
                   effects, commandVars, held>>

\* record_authorization_denial; a recovered action has its marker to settle, at
\* the sequence of the denial.
RecordDenial ==
    /\ pc = "decided" /\ hand.verdict = "DENY" /\ Runtime \in fresh
    /\ IF hand.recovered
       THEN fresh' = {Runtime} /\ Goto("denied", hand)
       ELSE fresh' = {} /\ Goto("leave", NoHand)
    /\ UNCHANGED <<runVars, deliveryVars, attemptVars, turns, actions, grants, file,
                   effects, commandVars, held>>

SettleDenial ==
    /\ pc = "denied" /\ Runtime \in fresh /\ MarkerSettleable(Cur)
    /\ turns' = MarkerSettled(Cur)
    /\ Goto("leave", NoHand)
    /\ Commit
    /\ UNCHANGED <<runVars, deliveryVars, attemptVars, actions, grants, file, effects>>

DenialRaises ==
    /\ pc = "denied" /\ ~(Runtime \in fresh /\ MarkerSettleable(Cur))
    /\ Goto("fault", NoHand)
    /\ ReadStep

\* Variant: a turn that has its worker_actions row is recorded again.
RecordableTwice(i) ==
    /\ Runtime \in fresh
    /\ hand.recovered => MarkerSettleable(i)

\* Variant: the sequence that authorize_action read is not compared.
RecordableLate(i) ==
    /\ actions[i].row = "NONE"
    /\ hand.recovered => MarkerSettleable(i)

\* What every transaction of an allowed action compares: the sequence, no
\* worker_actions row of the turn, and the marker of a recovered one.
Recordable(i) ==
    /\ Runtime \in fresh
    /\ actions[i].row = "NONE"
    /\ hand.recovered => MarkerSettleable(i)

DecisionRaises ==
    /\ pc = "decided"
    /\ IF hand.verdict = "DENY" THEN Runtime \notin fresh ELSE ~Recordable(Cur)
    /\ Goto("fault", NoHand)
    /\ ReadStep

Recording(verdict, acts) ==
    /\ pc = "decided" /\ hand.verdict = verdict /\ turns[Cur].act \in acts
    /\ Recordable(Cur)
    /\ turns' = MarkerSettled(Cur)

\* Variant: the word of the model is written as the state.
FinishedStateWord(act) == act

FinishedState(act) == IF act = "finish" THEN "SUCCEEDED" ELSE "FAILED"

\* finish_attempt: the task row stays ACTIVE.
FinishAttempt ==
    /\ Recording("ALLOW", {"finish", "fail"})
    /\ actions' = [actions EXCEPT ![Cur].row = "SETTLED"]
    /\ attempts' = Ended(turns[Cur].task, FinishedState(turns[Cur].act))
    /\ Goto("loop", NoHand)
    /\ Commit
    /\ UNCHANGED <<runVars, deliveryVars, created, grants, file, effects>>

\* freeze_authorized_pending_action
FreezePending ==
    /\ Recording("APPROVE", {"risky"})
    /\ actions' = [actions EXCEPT ![Cur].row = "FROZEN",
                                  ![Cur].pending = "WAITING_APPROVAL"]
    /\ attempts' = [attempts EXCEPT ![turns[Cur].task].state = "WAITING_APPROVAL"]
    /\ Goto("leave", NoHand)
    /\ Commit
    /\ UNCHANGED <<runVars, deliveryVars, created, grants, file, effects>>

\* record_authorized_worker_action
RecordIntent ==
    /\ Recording("ALLOW", {"direct", "outside", "risky"})
    /\ actions' = [actions EXCEPT ![Cur].row = "RECORDED"]
    /\ Goto("execute", hand)
    /\ Commit
    /\ UNCHANGED <<runVars, deliveryVars, attemptVars, grants, file, effects>>

\* The tool happens or refuses, and its result tells or leaves it uncertain.
Execute ==
    /\ pc = "execute"
    /\ effects' \in {effects, [effects EXCEPT ![Cur] = @ + 1]}
    /\ \E result \in {"SETTLED", "UNCERTAIN"} :
           Goto("settle", [hand EXCEPT !.verdict = result])
    /\ UNCHANGED <<runVars, deliveryVars, attemptVars, turns, actions, grants, file,
                   commandVars, fresh, held>>

\* settle_worker_action asks for no lease and no revision.
SettleTool ==
    /\ pc = "settle"
    /\ actions' = [actions EXCEPT ![Cur].row = hand.verdict]
    /\ Goto(IF hand.verdict = "UNCERTAIN" THEN "leave" ELSE "loop", NoHand)
    /\ Commit
    /\ UNCHANGED <<runVars, deliveryVars, attemptVars, turns, grants, file, effects>>

Consume == \/ ConsumeGone \/ RecordMalformed \/ MalformedRaises \/ Authorize
           \/ RecordDenial \/ SettleDenial \/ DenialRaises \/ DecisionRaises
           \/ FinishAttempt \/ FreezePending \/ RecordIntent \/ Execute \/ SettleTool

-----------------------------------------------------------------------------
(* The runtime: a granted action, GrantedActionRuntime.execute *)

GrantedMismatch ==
    /\ pc = "granted" /\ ~MarkerSettleable(Cur)
    /\ Goto("fault", NoHand)
    /\ ReadStep

\* Variant: an untouched file is written without marking the intent.
ObservedUndispatched(i) ==
    CASE file[i] = "post"  -> "settleGranted"
      [] file[i] = "pre"   -> "perform"
      [] file[i] = "other" -> "uncertain"

\* Exactly the expected post-state, exactly the pre-state, or anything else.
Observed(i) == CASE file[i] = "post"  -> "settleGranted"
                 [] file[i] = "pre"   -> "dispatch"
                 [] file[i] = "other" -> "uncertain"

ObserveGranted ==
    /\ pc = "granted" /\ MarkerSettleable(Cur)
    /\ Goto(Observed(Cur), hand)
    /\ ReadStep

\* mark_granted_action_dispatched, unless a delivery before this one did.  It
\* compares the sequence that the runtime read before, as the settlement and the
\* marking below do: a command in between is a Fault of this step.
DispatchGranted ==
    /\ pc = "dispatch"
    /\ Goto("perform", hand)
    /\ IF actions[Cur].intent = "INTENT_RECORDED"
       THEN /\ actions' = [actions EXCEPT ![Cur].intent = "DISPATCHED"]
            /\ fresh' = {}
       ELSE UNCHANGED <<actions, fresh>>
    /\ UNCHANGED <<runVars, deliveryVars, attemptVars, turns, grants, file, effects,
                   commandVars, held>>

\* Variant: an error of the mutator is settled as success.
AfterMutatorErrorSettled == "settleGranted"

AfterMutatorError == "uncertain"

\* The mutator compares the pre-state once more; an OSError leaves it uncertain
\* whether the effect happened.
Perform ==
    /\ pc = "perform" /\ file[Cur] = "pre"
    /\ \/ /\ file' = [file EXCEPT ![Cur] = "post"]
          /\ effects' = [effects EXCEPT ![Cur] = @ + 1]
          /\ \E next \in {"settleGranted", AfterMutatorError} : Goto(next, hand)
       \/ Goto(AfterMutatorError, hand) /\ UNCHANGED <<file, effects>>
    /\ UNCHANGED <<runVars, deliveryVars, attemptVars, turns, actions, grants,
                   commandVars, fresh, held>>

PrestateMismatch ==
    /\ pc = "perform" /\ file[Cur] # "pre"
    /\ Goto("uncertain", hand)
    /\ ReadStep

\* settle_granted_action, then straight to the loop; it raises for an Attempt
\* that does not run.
SettleGranted ==
    /\ pc = "settleGranted"
    /\ IF AttemptOf(Cur).state = "RUNNING"
       THEN /\ actions' = [actions EXCEPT ![Cur].row = "SETTLED",
                                          ![Cur].pending = "SETTLED",
                                          ![Cur].intent = "SETTLED"]
            /\ Goto("loop", NoHand)
            /\ Commit
            /\ UNCHANGED <<runVars, deliveryVars, attemptVars, turns, grants, file,
                           effects>>
       ELSE Goto("fault", NoHand) /\ ReadStep

\* mark_granted_action_indeterminate
MarkIndeterminate ==
    /\ pc = "uncertain" /\ run = "ACTIVE"
    /\ run' = "INDETERMINATE"
    /\ actions' = [actions EXCEPT ![Cur].intent = "INDETERMINATE"]
    /\ Goto("leave", NoHand)
    /\ Commit
    /\ UNCHANGED <<open, rev, deliveryVars, attemptVars, turns, grants, file, effects>>

GrantedAction == \/ GrantedMismatch \/ ObserveGranted \/ DispatchGranted \/ Perform
                 \/ PrestateMismatch \/ SettleGranted \/ MarkIndeterminate

\* Variant: a fault is retried by the delivery that met it.
AfterFaultRetry == "entry"

AfterFault == "stop"

\* Variant: the barrier is classified, the Run is not.
ClassifiedAlone ==
    /\ barrier' = IF barrier = "IN_FLIGHT" THEN "INDETERMINATE" ELSE barrier
    /\ UNCHANGED run

\* A model call that a fault left inside its barrier may or may not have happened.
Classified ==
    IF barrier = "IN_FLIGHT"
    THEN run' = "INDETERMINATE" /\ barrier' = "INDETERMINATE"
    ELSE UNCHANGED <<run, barrier>>

\* record_runtime_fault_and_classify_barrier
RecordFault ==
    /\ pc = "fault"
    /\ Classified /\ open' = FALSE /\ faulted' = TRUE
    /\ Goto(AfterFault, NoHand)
    /\ Commit
    /\ UNCHANGED <<rev, permit, owner, attemptVars, turns, actions, grants, file, effects>>

\* record_runtime_delivery_stop
Stop ==
    /\ pc = "stop" /\ barrier # "IN_FLIGHT"
    /\ owner' = FALSE /\ held' = None
    /\ Goto("idle", NoHand)
    /\ fresh' = {}
    /\ UNCHANGED <<runVars, permit, barrierVars, attemptVars, turns, actions, grants,
                   file, effects, commandVars>>

\* Both are called outside the boundary that records faults: when one raises, for
\* a barrier in flight or a sequence that a command took, the process ends and
\* the row keeps its owner.
DeliveryLost ==
    /\ \/ pc = "stop" /\ barrier = "IN_FLIGHT"
       \/ pc \in {"fault", "stop"} /\ "fault" \in Disturbances
    /\ held' = None
    /\ Goto("idle", NoHand)
    /\ UNCHANGED <<runVars, deliveryVars, attemptVars, turns, actions, grants, file,
                   effects, commandVars, fresh>>

Delivery == ConsumePermit \/ InvalidatePermit \/ RecordFault \/ Stop \/ DeliveryLost

RuntimeStep == Delivery \/ Entry \/ Loop \/ Turn \/ Consume \/ GrantedAction

Next == Command \/ Environment \/ RuntimeStep

Spec == Init /\ [][Next]_vars

\* A process that is alive goes on, and the runtime is re-entered whenever a
\* permit is waiting.  Nothing makes a command or a continue come.
FairSpec == Spec /\ WF_vars(RuntimeStep)

-----------------------------------------------------------------------------
(* Properties *)

PCs == {"idle", "entry", "loop", "leave", "turn", "reserve", "provider",
        "settleBarrier", "consume", "decided", "denied", "execute", "settle",
        "granted", "dispatch", "perform", "settleGranted", "uncertain", "fault",
        "stop"}

TypeRun ==
    /\ run \in {"ACTIVE", "PAUSED", "INDETERMINATE"} /\ open \in BOOLEAN
    /\ rev \in Revisions
    /\ permit \in Permits \cup {None} /\ owner \in BOOLEAN
    /\ barrier \in {"SETTLED", "IN_FLIGHT", "INDETERMINATE"} /\ faulted \in BOOLEAN
    /\ held \in Permits \cup {None}

TypeAttempts == attempts \in [Tasks -> Attempts] /\ created \in Seq(Tasks)

TypeTurns == turns \in Seq(Turns) /\ Len(turns) <= MaxTurns

TypeActions ==
    /\ actions \in [TurnIds -> Actions]
    /\ grants \in Seq(Grants)
    /\ file \in [TurnIds -> {"pre", "post", "other"}]
    /\ effects \in [TurnIds -> Nat]

TypeCommands ==
    /\ sent \in 0 .. MaxRequests /\ claims \subseteq 1 .. MaxRequests
    /\ handler \in [Threads -> Handlings \cup {None}]
    /\ fresh \subseteq Threads \cup {Runtime}

TypeHand == pc \in PCs /\ hand \in Hands

\* Every variable holds values its readers know.
TypeOK == TypeRun /\ TypeAttempts /\ TypeTurns /\ TypeActions /\ TypeCommands /\ TypeHand

\* A turn's action happens at most once, whatever crashes, faults, redelivered
\* grants and recoveries there are between its intent and its settlement
\* (record_authorized_worker_action, GrantedActionRuntime.execute).
OneEffectPerTurn == \A i \in TurnIds : effects[i] <= 1

\* No effect without a durable intent: a direct action has its row before it
\* happens, a granted one has been marked as dispatched
\* (record_authorized_worker_action, mark_granted_action_dispatched).
EffectsAreJournaled ==
    \A i \in TurnIds :
        effects[i] > 0 => \/ actions[i].pending = "NONE" /\ actions[i].row # "NONE"
                          \/ actions[i].intent \notin {"NONE", "INTENT_RECORDED"}

\* What a turn asked for is recorded only while the Run dispatches, under the
\* budget the Attempt was created with and its active lease: a decision that a
\* command has overtaken is not acted on (authorize_action reads,
\* record_authorized_worker_action, freeze and finish_attempt write).
RecordedUnderAuthority ==
    [][\A i \in DOMAIN turns :
          actions[i].row = "NONE" /\ actions'[i].row # "NONE" =>
              run = "ACTIVE" /\ open /\ AttemptOf(i).bound = rev /\ Runnable(turns[i].task)]_vars

\* However often its command is delivered, one consumed Grant is all an action
\* ever gets, and its intent exists from then on (_consume_grant_once,
\* _insert_granted_action_intent).
OneGrantPerAction ==
    \A i \in TurnIds :
        Cardinality({n \in DOMAIN grants : grants[n] = [turn |-> i, state |-> "CONSUMED"]})
            = IF actions[i].intent = "NONE" THEN 0 ELSE 1

\* An Attempt waits for approval exactly as long as one of its actions does
\* (freeze_authorized_pending_action, accept_pending_action_grant,
\* _invalidate_pending_action).
WaitingIsFrozen ==
    \A k \in Tasks :
        Cardinality({i \in DOMAIN turns : turns[i].task = k /\ Waiting(i)})
            = IF attempts[k].state = "WAITING_APPROVAL" THEN 1 ELSE 0

\* A granted action is settled as done only when it did happen or somebody
\* changed the file: an effect nobody saw is never reported
\* (GrantedActionRuntime.execute).
SettledIsObserved ==
    \A i \in TurnIds :
        actions[i].intent = "SETTLED" => effects[i] = 1 \/ file[i] # "pre"

\* What the plan of the runtime promises: an unsettled granted action is looked
\* for before the scheduler is asked for a turn, so that settle_granted_action
\* finds the Attempt it was granted for (_run_consumed_permit).
GrantedBeforeScheduling == pc = "turn" => UnsettledGrants = {}

\* At most one recovered action is on its way, and it is the one a delivery
\* works on (next_recovered_model_action before next_recoverable_model_turn).
OneRecoveryAtATime ==
    /\ Cardinality(UnsettledMarkers) <= 1
    /\ hand.recovered /\ pc \in {"consume", "decided", "denied"} =>
           UnsettledMarkers = {hand.turn}

\* Leases and Attempts end together, except that a stale Attempt keeps its
\* lease (create_attempt_with_lease, _release_attempt_lease).
LeasesMatchAttempts ==
    \A k \in Tasks :
        /\ attempts[k].state \in {"RUNNING", "WAITING_APPROVAL"} =>
              attempts[k].lease = "ACTIVE"
        /\ attempts[k].state \in {"SUCCEEDED", "FAILED"} =>
              attempts[k].lease = "REVOKED"

\* An Attempt that ended is never revived, by a late Grant, by a recovery or by
\* the scheduler (task rows return to READY, worker_attempts rows do not).
EndedIsFinal ==
    [][\A k \in Tasks : attempts[k].state \in {"STALE", "FAILED", "SUCCEEDED"} =>
          attempts'[k].state = attempts[k].state]_vars

\* The Run is INDETERMINATE exactly when a granted action or a model call is, and
\* nothing at all happens to the workspace then (mark_granted_action_indeterminate,
\* record_runtime_fault_and_classify_barrier).
UncertaintyStops ==
    /\ [](run = "INDETERMINATE" <=>
             \/ barrier = "INDETERMINATE"
             \/ \E i \in TurnIds : actions[i].intent = "INDETERMINATE")
    /\ [][run = "INDETERMINATE" => effects' = effects]_vars

\* Every delivery ends, whatever it meets (run_until_blocked).
DeliveryEnds == pc # "idle" ~> pc = "idle"

\* A delivery that nobody is alive to go on with: its process died, or could not
\* record its end.
Abandoned == pc = "idle" /\ owner

\* While the budget is not replaced, a consumed Grant leads to a settled or to an
\* uncertain action, unless a delivery meets a fault or is abandoned
\* (next_unsettled_granted_action comes before scheduling; a replacement withdraws
\* the permit of the Grant).
GrantedActionEnds ==
    \A r \in Revisions : [](rev = r) =>
        \A i \in TurnIds :
            actions[i].pending = "GRANT_CONSUMED" ~>
                actions[i].intent \in {"SETTLED", "INDETERMINATE"} \/ faulted \/ Abandoned

-----------------------------------------------------------------------------
(* What the documents say and the code does not do *)

\* SPEC 5.5: lease expiry is revalidated before a Grant is consumed
\* (_current_frozen_action_bindings compares the state of the lease only).
ExpiredLeaseGrantsNothing ==
    [][\A i \in DOMAIN turns :
          actions[i].intent = "NONE" /\ AttemptOf(i).expired =>
          actions'[i].intent = "NONE"]_vars

\* PLAN, task 4B: a committed turn is not released again after a downstream
\* intent (next_recoverable_model_turn does not look at worker_actions).
WorkerReleasedOnce ==
    [][\A i \in DOMAIN turns :
          actions[i].row # "NONE" => turns'[i].marker = turns[i].marker]_vars

\* Effects and journal agree: nothing happens without its durable intent, and
\* nothing is settled as done that nobody saw.
EffectsObserved == EffectsAreJournaled /\ SettledIsObserved

\* The rows of an Attempt, its lease, its pending action, the Grant and the
\* intent of that Grant are in step, whichever of five handlers wrote last.
AttemptsInStep ==
    OneGrantPerAction /\ WaitingIsFrozen /\ LeasesMatchAttempts

\* Deliveries end, and what a human granted comes to an outcome.
Progress == DeliveryEnds /\ GrantedActionEnds

-----------------------------------------------------------------------------
(* Refinement: what approval promises *)

Phase(i) ==
    CASE actions[i].pending = "NONE"             -> "none"
      [] actions[i].pending = "WAITING_APPROVAL" -> "waiting"
      [] actions[i].pending = "INVALIDATED"      -> "dead"
      [] actions[i].pending = "SETTLED"          -> "settled"
      [] actions[i].pending = "GRANT_CONSUMED"   ->
             IF actions[i].intent = "INDETERMINATE" THEN "uncertain" ELSE "approved"

IsRisky(i) == i \in DOMAIN turns /\ turns[i].act = "risky"

Done(i) == IF IsRisky(i) THEN effects[i] ELSE 0

\* A risky action happens only after a human approved it, at most once, and one
\* whose approval lapsed never does.
Approved ==
    INSTANCE ApprovedActions WITH
        Actions <- TurnIds,
        phase   <- [i \in TurnIds |-> Phase(i)],
        done    <- [i \in TurnIds |-> Done(i)]

ImplementsApproved == Approved!Spec

=============================================================================
