# Verification of ApexCrew in TLA+

ApexCrew is a local-first coding agent harness: a human approves revisions
(policy, budget, model configuration) and a Plan, the harness plans with a model,
dispatches Workers in leased workspaces, and every effect it has on the
repository goes through a durable store that records the intent before the effect
and the outcome after it. Paths below are relative to the repository
(`src/src/apexcrew` is the package).

This directory holds TLA+ modules translated from that code, TLC configurations
that check them on small instances, and TLAPS proofs of what matters most for
every instance.

## 1. The system

| Component | Source | State it keeps | Operations |
| --- | --- | --- | --- |
| Control commands | `application/control.py`, `domain/commands.py`, `adapters/state/sqlite.py` 8455-9657 | `runs`, `run_sequences`, `revision_documents`, `revision_approvals`, `plans`, `plan_approvals`, `control_request_claims` | propose / approve revision, begin-planning, approve-plan, start, resume task, continue |
| Runtime Permits and the Run Runtime | `application/runtime.py`, `sqlite.py` 8211-8453, 9660-10565 | `runtime_permits`, `runs.runtime_owner_id`, `runtime_progress_generation`, `runtime_barriers`, `effect_intents`, the file lock of the Run | issue, consume, invalidate, drive the permitted phase, deliver-stop, fault |
| Planning coordinator | `domain/coordination.py` 640-1095, `sqlite.py` 4949-5467 | `planning_read_intents`, `plans`, recovered markers | planning turn, read, submit, fail, invalid action, recovered action |
| Target reservation | `domain/admission.py` 365-499, `adapters/repository/git.py`, `sqlite.py` 1908-2072, 9744-9959 | `target_reservations`, the git admin worktree | intent, worktree add and lock, settle, reuse, pre-intent stop, cleanup |
| Private ref and start guard | `application/runtime.py` 199-259, `sqlite.py` 10382-10565 | `run_refs`, the git ref | bind, intent, compare-and-swap, settle, indeterminate |
| Durable model client | `domain/model.py`, `sqlite.py` 5880-6261, 7023-7590 | `model_attempts`, committed turns, downstream intents | reserve, send, retry, settle, recover, release |
| Budget authority and dispatch | `domain/authority.py` 289-345, `domain/limits.py`, `sqlite.py` 5470-5825 | usage counters, `new_dispatch_open`, close causes, `atomic_actions`, parked replacements | reserve and settle usage, warn, close, atomic actions, reopen |
| Approval grants and granted actions | `application/runtime.py` 287-354, `sqlite.py` 3784-4590 | `approval_requests`, grants, action intents | freeze, grant, consume, dispatch, settle, mark indeterminate |
| Tasks, Attempts, Leases | `domain/worker.py`, `domain/authority.py`, `sqlite.py` 2326-3230, 6263-6781 | `tasks`, `attempts`, `tranches`, `workspace_leases` | schedule, create attempt with lease, renew, expire, pause, resume |
| Worker loop and tools | `domain/worker.py`, `domain/tools.py`, `domain/actions.py`, `sqlite.py` 3347-3782 | recorded actions, invalid-action counters | record, execute, settle, recover |
| Plan validation | `domain/plan.py` | none (pure) | scope disjointness, dependency cycles |
| Candidate, evidence, freshness | `domain/candidate.py`, `domain/evidence.py`, `domain/freshness.py` | none (pure) | freshness gate of an integration |
| Policy, projection, queries, retention, indeterminate | `domain/policy.py`, ... | none, or values without transitions | classification, read models |
| In-memory store | `adapters/state/memory.py` | the same tables | test twin of the SQLite store |
| Executors, model and credential adapters, no-follow repository access | `adapters/...` | none | external effects |
| Command line, web UI, replay, demo | `delivery/...`, `demo.py` | none | parsing and rendering |

### How they interact

A control command is decided from two reads of the store, and only then opens the
IMMEDIATE transaction that compares `expected_sequence`, claims the request id
and performs the mutation. An accepted begin, start, or continue mints one Runtime
Permit bound to the phase, the revisions, the target and the progress generation
of the Run. `run_until_blocked` takes the Run's file lock, consumes the permit
(which makes the runtime the durable owner) and drives the permitted phase: the
reservation of the target worktree in DRAFT, planning turns in PLANNING, the
private ref in READY_TO_START, the schedule in ACTIVE. Before that it recovers what
a dead runtime left: a recorded but unreleased model action, unsettled effects, a
committed model turn. Every effect outside the store (git, the provider, a process)
is bracketed by an intent and a settlement.

### What is hard

* Commands interleave with each other and with the runtime between any two
  transactions; only the audit sequence, the bindings of the permit and unique
  indexes keep a stale decision from being committed.
* The process may die at any point; the owner id, the barrier, the intents and
  the committed turns of the dead runtime are what the next one finds.
* A client that saw no answer repeats its request; a provider may answer late, with
  another model, or never.
* The same counters and close causes are shared by planning, Workers and tasks.
* Several tables hold one row per Run although the life of a Run has cycles.

### What makes each part correct

* Control and permits: one delivery at a time; a request has one outcome; a permit
  that waits is current; what was granted under an old revision is withdrawn.
* Runtime: a live runtime keeps its ownership; a Run moves only through the phases
  its permit allows; every delivery ends; a fault with an uncertain outcome sticks.
* Planning: no plan awaits approval unless it is bound to the current revisions; an
  action is released once.
* Reservation and private ref: the row and the journal agree after any crash;
  planning needs a locked worktree; ACTIVE needs the approved plan.
* Model client: every attempt is reserved before it is sent and charged once.
* Grants: an approved action is dispatched at most once, and only as it was frozen.
* Dispatch: what closes it stays in force until exactly that cause is gone.
* Tasks: one attempt at a time, disjoint write sets, dependencies accepted first.

The hazards of `PROJECT.json` list these at the line where they bite.

## 2. RunControl: one Run, its commands and its runtime

| Module | What it is |
| --- | --- |
| `RunDelivery` | the abstract promise: one slot for a delivery, each generation delivered at most once, none taken from a live runtime |
| `RunControl` | the commands, permits and runtime of one Run, with the durable rows they compare and set |
| `MCRunControl` | model values, thread symmetry, a view, and starts from the middle of a Run's life |
| `RunDelivery_proofs`, `RunControl_proofs` | the theorems |

State. The variables from `st` to `turns` are the durable rows (each names its
table and column in the module); `sent`, `claims` and `handler` are the requests;
`pc`, `held`, `view`, `drafted` and `started` are the locals of the runtime. A
crash (`Die`) empties the locals and leaves the rows.

Actions. A command is `Decide` (the reads of `apply_control_command` and of the
handler of its type) and one of the `Commit...` actions (the IMMEDIATE
transaction of `_record_control_outcome` with the mutation of that handler, or
the exception that rolls it back). `Redeliver` sends an envelope again.
`Acquire` is the lock and the permit compare-and-set of `run_until_blocked`;
the actions of `Drive` are the store calls of
`_run_consumed_permit` and `_drive_permitted_phase`, one action per call:
`Entry...` recovery, `Loop...` the phase check and active-time boundary,
`Reserve...`/`Settle...` the target reservation, `Plan...` a planning turn with
its barrier, its reservation and the provider's answer, `Apply...` the
`PlanningActionApplier`, `Ref...` the private ref, then `DeliveryStop`,
`RecordFault`, `Fault` and `Die`.

Abstractions, each of which keeps the control of the code:

* Digests are model values; the payload of a revision, a Plan or a read is not
  looked into. The audit log is its sequence number. Warnings of the active-time
  boundary, which only raise the sequence, are left out.
* An envelope that does not name its bindings exactly, or is for a command that
  is not offered, is the command `"other"`: it is rejected with a receipt. An
  envelope with an old sequence, and a replay of a claimed request, change
  nothing but the claims. A start without a plan is an inexact start, which is
  claimed without a sequence.
* `_run_state_and_sequence` and the read of the handler are one step: between them
  the state cannot change without the sequence that the commit compares.
* The owner id is the generation of the permit its runtime consumed (the code draws
  a fresh id per delivery). The file lock is `pc # "idle"`: one runtime at a time
  holds it and process death frees it. The repository's own debt record says that
  nothing checks this beyond the lock, and the model takes the lock as it is.
* The drivers of the schedule and of a resumed Task stop at once here: they
  are steps of WorkerActions and TaskScheduling. No store operation moves a Run of these phases to
  COMPLETED, FAILED or CANCELLED yet, so these states have no action.
* The retry after a known closed rejection (ModelRequests) and the git calls of the
  reservation (TargetReservation) are abstracted to their classified outcomes.
* `apply_runtime_continue` is called by no shipped entry point; the composition that
  calls it (the service helper of the tests, which takes the ownership lock first)
  is modelled under the constant `ContinueDelivered`.

### Runs

`MaxRequests` bounds the requests ever sent, `PlanningCeiling` is the approved
number of planning requests; `Classes`, `Revisions`, `Plans`, `Threads` are small
sets. The audit sequence is not bounded: it is compared for equality only,
so the VIEW `UpToSequence` keeps whether a held value is current and drops its
value. The threads are symmetric. `CHECK_DEADLOCK FALSE`: a Run may stop,
when the requests are used up or it waits for a human.

| Run | Instance | What it shows |
| --- | --- | --- |
| `commands` | 2 threads, budget and policy with 2 revisions each, reads and submissions, no continue, `SpecFromPhases`: 3 requests to a new Run, 2 to one whose planning was begun, 3 to one that is ready to start | every command against every other and against a runtime that plans or starts: one delivery, no stale decision, journal and rows agree, what executes was approved and its policy stays; refinement of RunDelivery |
| `recovery` | 1 thread, 2 requests to come (`EarlyState`), reads, submissions, fails, continue, `FairSpecFromEarly` | recovery after a crash at any step; an uncertain call sticks; a plan that is submitted, proposed and approved is bound to the current revisions; deliveries end; permits are used |

The runs check properties that belong together as one, each a conjunction of named
parts: `PermitsInOrder` (`OnePermitPerRequest`, `OutstandingIsCurrent`),
`EffectsAccounted` (`ReservedBeforePlanning`, `EffectsJournaled`), `PlanApproved`
(`PlanBinding`, `ActiveUnderApprovedPlan`) and `Progress` (`DeliveryEnds`,
`PermitIsUsed`). The later modules do the same. A definition marked `Variant` is a
plausible mistake in the code: each part is violated when a variant
takes the place of the definition after it, and `PROJECT.json` lists one for each property.

The bounds are enough for what can go wrong. `commands` has three beginnings: from a
new Run its requests are the approvals of both classes and the begin that they allow, or
proposals and inexact commands in their place; from a begun Run they are a
proposal and another command against the delivery that waits or plans; from a Run that
is ready, the start and two commands that race with it or follow it. Two threads can
each hold one of them, and repeat it. `recovery` starts behind approve and
begin (or behind two refused commands: a delivery without an approved budget), so its two requests are a continue after the first crash and one that follows:
another continue, the approval of a recovered Plan, or a revision that comes between;
two revisions let a digest go away and come back; ceiling two has a turn before
the last and the last; two threads are the smallest set in which a decision can be
stale, and a third thread would repeat what the second can do, because a decision is
stale or not. The beginnings are `EarlyState` and `ReadyState` of `MCRunControl`, states
that the commands named there lead to from `Init`. `ImplementsDelivery` is the
refinement from any state on (`Delivery!Rest`), because RunDelivery begins with a Run
that has seen no delivery; from `Init` on it is a theorem.

Fairness. `FairSpec` (and `FairSpecFromEarly`, which differs in its start) has `WF(Drive)`: a runtime thread that was started runs until
it stops, for as long as its process lives (`Die` may still strike); and
`WF(Acquire)`: the composition that issued a permit calls `run_until_blocked`
until it is gone, as `tests/helpers/application.py` does. Nothing is assumed of
the human, the provider's answers, or crashes.

### Proved

`RunControl_proofs` proves for all values of the constants that satisfy
`ConstantsAssumption` (any classes, revisions, plans, number of threads and
requests, either value of `ContinueDelivered`):

| Theorem | Property |
| --- | --- |
| `TypeCorrect` | `TypeOK` |
| `OneDeliveryHolds` | `OneDelivery` |
| `LiveRuntimeOwnsHolds` | `LiveRuntimeOwns` |
| `RunControlImplementsDelivery` | the refinement of RunDelivery, from the beginning (`Delivery!Spec`) and from any moment on (`ImplementsDelivery`) |
| `PermitsStayInOrder` | `PermitsInOrder` |
| `DocumentsStayCurrent` | `CurrentDocument` |
| `EffectsStayAccounted` | `EffectsAccounted` |
| `PlansAreApproved`, `PlansAreBound` | `PlanApproved`, and its part `PlanBinding` |
| `PolicyIsFrozen` | `PolicyFrozen` |
| `UncertaintySticks` | `UncertainCallSticks` |
| `StatesMoveInOrder` | `[][StateMove]_st`: the moves of `runs.state`, from which the two before it follow |

Every invariant and action property of the two runs is among them; `Progress`,
which is liveness, stays with TLC.

There are two inductive invariants. The first is `Inv == TypeOK /\ ViewInv /\
LiveRuntimeOwns /\ OnlyLatest`. `OneDelivery` alone is not inductive: a permit is consumed by
generation, and only knowing that an unconsumed permit is the latest one
(`OnlyLatest`) excludes that another is left; `LiveRuntimeOwns` is what
makes clearing the owner in `Continue` safe, and `ViewInv` (what the view of the
runtime points to exists, per program counter) is what keeps `turns[view.turn]`
typed. Every action is then one of six kinds (`StepKind`: it leaves the permits alone, or
it grants, withdraws, delivers, releases or abandons), and both the preservation of
`OnlyLatest` and the refinement follow from the kind alone.

The second is `RowsInv` (theorem `RowsInvariant`), what the rows of a Run promise each
other. Its parts are proved in an order in which each rests on those before it:

* `DecisionInv`: a command whose expected sequence is still the current one was decided
  on the rows as they are now. This is what the comparison of `expected_sequence` buys.
  Without it nothing about a proposal or an approval can be proved, because the
  transaction itself looks at hardly any of what the decision looked at.
* `PhaseInv`: the states the Run can be in at each place of the runtime, while commands
  go on around it. It is weaker than one expects: a proposal may take the Run back to
  DRAFT under a live planning turn, so the turn is only known to be before the Plan.
* `DocumentsInv`: exactly one CURRENT document per class; outside the execution states
  none is left PROPOSED.
* `EffectsInv`: rows and journal, and that a Plan approval and the row of the private ref
  appear together.
* `PlanApproved` and `PermitsInv`: the Plan and the outstanding permit are those of the
  current revisions, because whatever changes a revision withdraws both.

`RunDelivery_proofs` proves `GenerationsAreFresh` of the abstract module.
## 3. WorkerActions: Attempts, actions, grants and their recovery

| Module | What it is |
| --- | --- |
| `ApprovedActions` | the abstract promise: a risky action waits for a human, happens at most once and only while it is approved, and is never tried again once its outcome is unknown |
| `WorkerActions` | the Worker phase of an ACTIVE Run |
| `MCWorkerActions` | model values and the symmetry of Tasks, budgets and threads |
| `WorkerActions_proofs` | the theorems |

It takes up where RunControl stops: the private ref is settled, the Run is ACTIVE.
The permit and the owner are those of RunControl reduced to what an ACTIVE Run
needs; the one revision class that may be replaced in an execution state without
a new Plan, the budget, is the digest `rev`.

A Worker's model call happens inside a runtime barrier (`domain/worker.py` 563,
`domain/coordination.py` 872), as a planning call does. Whatever ends the delivery before
the barrier is settled (the provider raises, a budget that is replaced during the call,
a settlement that is refused after a ceiling was reached) leaves it in flight, and
`record_runtime_fault_and_classify_barrier` then makes the Run INDETERMINATE.

State. `attempts` is `worker_attempts` with the task row and the lease of each Task
(an Attempt is named by its Task: the schema lets a Task have the one Attempt of its
tranche); `turns` the committed model turns with the recovered marker;
`actions` the rows of `worker_actions`, `pending_actions` and
`granted_action_intents` of a turn; `grants` is `approval_grants`. `file` is what the
target of a risky action looks like against its frozen pre- and post-state, and
`effects` counts what happened. `barrier` is the row of `runtime_barriers`, `faulted`
that `runtime_faults` has a row. `fresh` replaces the audit sequence: the set of
actors whose last read of it is still current; every commit empties it.

Actions. `Decide`, `Redeliver` and `Commit...` are a grant command, as in
RunControl; `Receipt` is the end of every transaction that records an outcome.
`Replace`, `LeaseExpires`, `PendingExpires`, `Edit`, `Fault`, `Crash` and `Continue` are
the environment, enabled by `Disturbances`. The runtime enters (`Enter...`: resume a
marker, act on a grant, fault on an unsettled intent, recover a committed
turn), loops (`Loop...`: reuse an Attempt, create one with its lease, or find
nothing), runs a turn (`BeginBarrier`, `Turn...`, `Provider...`, `SettleBarrier`, and
`BarrierRaises` and `SettlementRaises` where these two raise), consumes its action
(`RecordMalformed`, `Authorize`, then deny, freeze, finish, or record, execute and
settle), or carries out a granted one (`ObserveGranted`, `DispatchGranted`,
`Perform`, `SettleGranted`, `MarkIndeterminate`). A delivery ends by `Stop`, or by
`RecordFault`, which classifies the barrier (`Classified`), and a stop; or by
`DeliveryLost`, when one of these transactions raises itself: nothing is recorded and the
row keeps its owner. Each transaction of the runtime compares a sequence that it read
before; that a command commits in between is the disturbance `"fault"`.

Abstractions:

* An answer of the model is one of six classes: a direct action inside its globs, one
  outside, a risky one, finish, fail, malformed.
* All provider attempts of a turn are one step inside one barrier; a retry may pause the Run.
* Budgets are the nondeterministic outcomes pause, close dispatch, or neither.
* Tasks have no dependencies or hazards and one tranche; `LoopNothing` covers those
  that are held back. TaskScheduling has what is left out here.
* A tool's effect may or may not have happened, and its result may be uncertain,
  in any combination. A mutator of a granted action that fails is always
  uncertain, because each of them reports every failure so.
* A grant payload is exact or not; a pending action and a lease may pass their
  expiry at any time.
* `CredentialBound` is TRUE in the runs: the store selects no credential profile,
  which by itself stops every Worker turn (section 7). The runs show what the rest
  of the code does with the turns of an Attempt that has one.

### Runs

| Run | Instance | What it shows |
| --- | --- | --- |
| `worker_recovery` | 2 Tasks, 2 turns, 2 threads, 1 grant command (repeated), direct, risky, finish and malformed answers, replacement, edits, faults and crashes | no action twice, without a durable intent, under lost authority or without approval; one recovery at a time; one grant per action; Attempts, leases, pending actions and intents in step; what ended stays ended; an uncertain action or model call stops the Run |
| `worker_liveness` | 1 Task, 2 turns, 2 grant commands, all answers, all disturbances, no continue, FairSpec | deliveries end; while the budget is not replaced, a consumed Grant is settled or uncertain, or a delivery met a fault or was abandoned |
| `worker_order` | 2 Tasks, 1 thread, risky and finish, replacement and crash | section 7 |

Two turns are an action and one that comes after it (or competes with it for the
recovery). The one grant command of `worker_recovery` is repeated by its second thread
before it has an outcome; `worker_liveness` has a second command, for the action of a
second turn or for the same again. A ceiling of three leaves room for both Tasks, because
the creation that reaches the ceiling closes dispatch. Expiry and the answers `outside` and
`fail`, which `worker_recovery` leaves out, are in `worker_liveness`; for every choice of the
disturbances and more Tasks they are in the theorems. The requests, turns
and effects are the only counters.

Fairness. `WF(RuntimeStep)`: a live runtime takes its next step and a waiting permit is
delivered. Nothing makes a command or a continue come, and the code does not
promise that a consumed Grant is settled whatever happens. `GrantedActionEnds`
therefore names the three ways in which it is not: a replaced budget (section 7), a fault,
which ends the delivery without a permit for another one, and an abandoned delivery, whose
owner only `continue` clears. The second grant command of the run, which may
commit between the dispatch and the settlement of the first, is such a fault.

### Proved

`WorkerActions_proofs` proves, for all values of the constants that satisfy
`WorkerAssumption` (any number of Tasks, budgets, threads, turns and commands, and
any choice of the disturbances):

| Theorem | Property |
| --- | --- |
| `TypeCorrect` | `TypeOK` |
| `OneEffect` | `OneEffectPerTurn`: no interleaving of crashes, faults, grants and recoveries makes an action happen twice |
| `Journaled` | `EffectsAreJournaled`: every effect has its durable intent |
| `SettledObserved` | `SettledIsObserved`: nothing is settled as done that nobody saw |
| `ObservedEffects` | `EffectsObserved`, the two together |
| `Implements` | `ImplementsApproved`: WorkerActions refines ApprovedActions |
| `Authority` | `RecordedUnderAuthority`: no row of `worker_actions` appears on a decision that a command overtook |
| `EndedFinal` | `EndedIsFinal`: no step revives an Attempt that ended |
| `OneRecovery` | `OneRecoveryAtATime`: one marker is unsettled at most, and it is that of the delivery at work |
| `InStep` | `AttemptsInStep`: one consumed Grant per intent, one waiting action per waiting Attempt, leases for the live Attempts |
| `Stops` | `UncertaintyStops`: INDETERMINATE exactly with an uncertain action or model call, and nothing happens then |

None of these is inductive. That an effect happens once rests on what the
rows of a turn say after a crash has emptied the hands of the runtime:
`JournalInv` (no row, no effect; an effect of a risky action leaves its intent
dispatched and the file no longer as it was frozen; approval states and intents go
together). And it rests on what a live runtime knows of the turn it holds: `HandInv` (a
tool is executed only under its own fresh row, a granted action only while its Grant is
consumed and its intent not settled, a write only after the dispatch mark). The
inductive invariant `Inv` is TypeOK with these two; `InitInv` and `NextInv` prove it with
one lemma per action that writes. For `Authority` and `EndedFinal` comes
`DecisionInv`: what `authorize_action` saw still holds for as long as the audit
sequence it read is current. The refinement follows from Inv: `Moves` and `Stutter`
relate a changed row to a step of ApprovedActions, and one lemma per group of actions
says which.

Three more invariants are inductive on top of these. `MarkerInv`: the marked turns are
equal, and a runtime that consumes a recovered turn holds the marked one. `StepInv`:
consumed Grants and intents determine each other (`GrantInv`), waiting Attempts and
waiting actions do (`WaitingInv`), and leases go with the states; the property counts
them, the invariant states the two directions, and the cardinalities follow. `UncertainInv`:
at its entry and at a granted action the runtime's permit names the state of the Run, and
from there to the effect the Run is ACTIVE; a tool gets there by `DecisionInv`. While
a model call is under way its barrier is in flight, which is what makes a fault there
classify the Run.

`GrantedBeforeScheduling` looked like a lemma for `InStep`, and is false: the proof attempt
stopped at the delivery that resumes a recovered action, and TLC found the behaviour
(`worker_order`, section 7). `SettleGranted` therefore has the branch in which the Attempt
no longer runs and the settlement raises.

Only the liveness property `Progress` is checked by TLC alone.

## 4. TargetReservation: the worktree that a Run holds while it plans

RunControl takes the outcome of the reservation as a free choice. This module is
where it comes from: `initialize_target_reservation` in `domain/admission.py`, the
two git calls of `adapters/repository/git.py` between their inventory checks, and
the store transactions that bracket them.

State. `own`, `other`, `dir`, `target` and `mainSafe` are the repository: the Run's
entry of `.git/worktrees` (absent, half made, unlocked, locked), any other entry, the
reservation directory, the target branch and the main worktree. `st`, `phase`,
`intent`, `unsettled` and `authority` are the rows. The rest is the process; of the two
inventories it holds, the guard's and the adapter's, only whether `.git` still looks
like them is kept (`guardFresh`, `repoFresh`). `orphaned` says that `runtime_owner_id`
names a dead process.

Actions. A process opens the repository (`OpenRepository`, by `GitRepositoryPreflight`,
which refuses one with any linked worktree), and a delivery begins planning (`Deliver`,
refused while the row has an owner; `Continue` clears a dead one). It observes (`ObserveRegistration`, `ObservePath`: two reads, with a
change possible in between), decides (`Reuse`, `PreIntentStop`, `Proceed`), records or
loads its intent, and applies ADD and LOCK; each is `PinTarget`, `RunGit`,
`CheckPost`, `RefreshRepository`, `RepinTarget`, each of which may raise, then another observation. `RunGit` may
take effect wholly, in part or not at all and return success, failure or an
exception, in any combination git allows. `Settle` or `SettleRaises` ends it.
`Fault`, `Crash`, `Revise`, `PlanningToDraft` and `Outside` are what happens around it.

Abstractions: what git does to the repository is external (`GitDone`, `GitPartly`); a
listing that fails, is too long or does not parse is unobservable; the main worktree is
one flag.

| Run | Instance | What it shows |
| --- | --- | --- |
| `creation` | 2 revisions, 2 outside changes, 2 failures, FairSpec | a Run plans only while its worktree is held exactly; a worktree that was made is never forgotten; row and journal agree; git is called only for an unsettled intent; what is registered stays so; a delivery at work for an intent gives it a result, unless a failure interrupts that delivery too |
| `restart` | 1 revision, no outside change, 1 failure, RetriedSpec | section 7: a creation that a crash interrupted is never settled |

Two failures are a crash after ADD and a failing LOCK of the delivery that follows, or
a replaced revision with either; two outside changes are a removal and a return, or a
change of the worktree and one of the target. Two revisions are the intent's and
another. `quiet` restricts `PlanningHeld` to what the process could have seen: a change
that another program makes after the last observation began cannot be.

Fairness. `FairSpec` has `WF(Process)`: a delivery goes on while its process lives. That is
all `DeliveryResolves` needs; its "unless" counts the failures, so a delivery that meets an
intent left by an earlier one must settle it although that one failed. `RetriedSpec` adds
the most that the callers could do: `WF(OpenRepository)`, `WF(Continue)` and
`WF(Deliver)`, a dead process is started again, the Run continued and its planning begun
again. No shipped entry point calls continue; the run `restart` shows that it would not
help.

### Proved

`TargetReservation_proofs` proves for any set of revisions and any number of outside
changes and failures: `TypeCorrect` (`TypeOK`), `PlansOnlyWhileHeld` (`PlanningHeld`),
`ReservationIsRecorded` (`ReservationRecorded`) and `GitOnlyForAnIntent`
(`ActsWithinIntent`). The invariant adds four parts: `RowInv` (row and journal in every
state of the Run), `ProcessInv` (a process at work serves a Run in DRAFT, and from the
recorded intent on works for that intent), `ObservedInv` (what was observed still holds
unless something outside changed) and `UntouchedInv` (a repository nobody else changed
is never in conflict and keeps nothing the row does not tell). `ProcessInv` carries the
rest: it makes the process the only one that writes between its observation and the
transaction that relies on it.

`DeliveryResolves` is liveness and stays with TLC.

## 5. ModelRequests: what is sent to the provider, and what it costs

`AuthorityModelClient.complete` (`domain/coordination.py` 856-932) is the one path of the
planning coordinator and of the Worker loop to a provider. Each of its store calls
is a transaction that names the audit sequence read just before.

State. `st`, `current`, `approved`, `causes` are the Run and its budgets; `calls`, `units`,
`planning`, `tranche` the counters and `usage`, `warned` the copies that the budget
settles with; `barrier`, `turns`, `attempts` the rows of a request. `snap` says whether
the sequence that the process read is unread, still current or overtaken: it is only
ever compared for equality. `slot` is the Run's row as deliveries see it: free for one,
or still owned by a process that died or could not record its end.

Actions. `ReadSequence` before each transaction; `StartTurn`, `BeginBarrier`,
`EvaluateReservation` (the read transaction, whose verdict the write acts on),
`PauseForCeiling` or `ReserveAttempt`, `ProviderAnswers`, `SettleAttempt`, `SettleBarrier`,
`RecordBackoff` and the next round; `SequenceConflict`, `RecordFault` and
`FaultUnrecorded` for exceptions. The owner proposes and approves budgets and sends
other commands from another process; `Crash` kills the runtime anywhere, and `Continue`
clears its owner. `StartTurn` asks what the code asks before it calls `complete`: an
exact `PlanningAuthorization` below the planning ceiling, or dispatch open for a Worker
(`coordination.py` 399-406, 1017-1020, `sqlite.py` 2336). A delivery that asks for no turn
stops; over a barrier in flight `record_runtime_delivery_stop` raises
RUNTIME_BARRIER_IN_FLIGHT (10092), which is `StopRaises`: nothing is recorded and the owner
stays.

Abstractions: input tokens, output tokens and cost are treated alike by the code and are
one metric, UNITS. Deadlines, active time and the model configuration are left out; the
request is bound to its budget only. `PlanAgain` is begin-planning of RunControl.

| Run | Instance | What it shows |
| --- | --- | --- |
| `requests` | 2 turns, 2 budgets, 2 commands, 1 crash, usage below and above the reservation, FairSpec | each attempt is charged once and the tables agree; ceilings hold, close dispatch and are warned of at their exact values; only a certain rejection is retried, twice at most; a turn is committed by its last attempt only; nothing is sent under a replaced budget; no turn ends over an unsettled reservation |
| `ceiling` | 1 budget, no command, no crash | section 7 |

Two turns with up to three attempts each are a request, its retries and one that may
hide it; the two budgets differ in their ceilings and are replaced and restored by two
commands; usages of 1 and 3 against a reservation of 2 let a settlement give back and
take more. `CHECK_DEADLOCK FALSE`: with its turns used up or dispatch closed the Run
stops.

Fairness. `WF(LiveStep)`: a process that is alive goes on with its turn, and the provider
answers or times out. That a delivery follows another is not assumed.
`ReservationResolves` says of each turn, also of one that meets the barrier of a dead
process, that it does not end over a reservation: that is settled, or the Run is
INDETERMINATE, or the process died or could not record its fault, and then the row keeps its
owner for continue to find. It does not say that the reservation of a dead
process is always resolved, because the code does not do that: with dispatch closed or the
planning ceiling reached the next delivery asks for no turn, its stop raises, and the
reservation stays RESERVED for good.

### Proved

`ModelRequests_proofs` proves for any budgets, ceilings, reservation, usages and any
number of turns, commands and crashes: `TypeCorrect` (`TypeOK`), `AttemptsAreAccounted`
(`AttemptsAccounted`), `CeilingsAreKept` (`CeilingsHold`), `TurnsAreRejectionsAndAnEnd`
(`TurnsAreAccounted`) and `SendsUnderAuthority` (`SentUnderAuthority`).

Only the last attempt is ever written, so steps are summed up as `Rewrites` or
`ReserveAdds`, and the sum of the charges (a function defined by recursion over the
attempts; its existence is proved by induction over an initial segment with `UpTo` of
`OrderFacts`) changes by one term. The invariant adds `HeldInv` (at each stage of the call
what has become of the barrier and of the last attempt), `FreshInv` (an authorization
whose sequence is current was derived from the current state: the write transaction does
not look at the ceilings again, and this is why they hold), `TurnInv` and `RetryInv`.
Usage that is more than was reserved passes the unit ceiling at its settlement: the property
bounds what was sent, as the code does, by the reservation in place of the last charge.

`ReservationResolves` is liveness and stays with TLC.

## 6. PlanScopes and TaskScheduling: which Task gets the next Worker

| Module | What it is |
| --- | --- |
| `PlanScopes` | `domain/plan.py`: the glob matcher, `prove_included`, `prove_disjoint`, the hazards and the acceptance of a Plan |
| `MCPlanScopes` | every pair of patterns over two names, compared with what they match |
| `TaskScheduling` | `next_dispatchable` and `create_attempt_with_lease`, tranches, pauses, resumes and leases of the Tasks of an approved Plan |
| `MCTaskScheduling` | four Plans of two Tasks |

`PlanScopes` takes a path as a sequence of segments. A star inside a longer segment
matches between a literal and `*` in every case distinguished here and is left out.
`Acyclic` says what `_reject_cycle` decides: that every set of Tasks has one without a
predecessor in it.

TaskScheduling is the part of the ACTIVE phase that WorkerActions leaves out. There a turn
is looked into and Tasks are independent; here a turn is one paid call and one of
its ends, and Tasks depend on each other, share leases and are paused.

State. `task`, `attempts`, `leases` are the rows of those tables; `counters` is
`TaskBudgetState`; `tranches` the Attempt id that each tranche names; `pause` the active pause
with the counter snapshot a resume must match; `resume` the Attempt id a resume
allocation reserves; `causes` the dispatch close causes, `usage` the settled number of
concurrent Workers; `budget` the approved budget, which a Run may exchange for another.

Actions. `SelectExisting`, `SelectTask` or `NothingToSelect` is the read of the scheduler;
`CreateAttempt` or `CreationRaises` its transaction. `Reserve` pays a call, `NotReserved`
pauses; `Malformed`, `Finish`, `Fail`, `Act`, `Wait`, `NoAction` end the turn. The
transactions of the authority come from its callers at any time: `Allocate` and
`RefuseTranche` (`allocate_tranche`), `Checkpoint`, `ResumeTask` (the service and the
command), `ExpireLease`, `RenewLease`, `IssueLease`, `Grant` and `Invalidate`. `Lapse` is time.
`ReplaceBudget` is `approve_revision` of a budget during execution (`sqlite.py` 8954-9122).

A replaced budget is in force at once and looks at no lease: only the concurrent
Worker ceiling that the next creation or issue compares has changed. An Attempt bound to the
budget before is still selected first, and refused when its turn is reserved; a Grant of its
action is invalid, and the Attempt, then STALE, keeps its lease until that lapses; a pause
is resumed only under the budget it began under. An earlier document that is proposed
and approved again brings its budget back, so the budgets are a set from which
`ReplaceBudget` chooses freely. A replacement parked behind an atomic action is
not modelled: nothing begins one (section 8). A delivery that ends by a fault appears
as one that stops.

| Run | Instance | What it shows |
| --- | --- | --- |
| `scheduling` | 2 Tasks, 4 Plans, two budgets, for 2 Workers and for 1, tranches of 2 calls, 3 calls, 2 Attempts, 1 resume, FairSpec | leases in force are disjoint and within the ceiling under which the last was issued, and closed dispatch when they reached it; dependencies come first and hazards stay apart, also after resumes and grants; no way through the allocations passes a cap; a pause is not overrun; a budget stop is final; what expired stays so; every delivery stops |
| `disjoint`, `retry` | patterns of at most 3 segments; the instance above, delivered again and again | section 7 |

Two Tasks are what a dependency, a hazard, an overlap and a shared cause need; each
cap is reached (the second tranche is the short one, the second Attempt is the last, the
second invalid action pauses); a ceiling of two Workers is reached by both Tasks or by
one Task with a second lease, and lowered to one under either. Two named Attempts are one of
each Task, or a Task's first and the one that a renewed tranche or a resume names; that the
caps hold over more of them is `CapsAreKept`. `Colliding` is a Plan whose Tasks write one path under
different patterns: `LeasesDisjoint` holds because `Accepted` turns it away, since the
creation compares no globs. With the patterns of section 7 it would not.

Fairness. `WF(Runtime)`: a delivery that has begun goes on. `retry` adds
`WF(Deliver)`: a delivery that stopped is followed by another.

### Proved

`PlanScopes_proofs` proves of patterns and paths of any length that `prove_included` is
sound (`IncludedIsSound`), and that `prove_disjoint` is for patterns that have `**` as
their last segment only (`DisjointIsSoundForRooted`). Without that condition it is not
(run `disjoint`). The matcher computes one row per segment from the row behind it; what a
whole match computes is proved from there by the order of the rows (`SmallestElement`,
`UpTo` of `OrderFacts`).

`TaskScheduling_proofs` proves for any Tasks, Plans, ceilings and any number of Attempts,
pauses and leases, under `SchedulingAssumption` and `ScopesAssumption` (patterns are not
empty, which the parser sees to):

| Theorem | Property |
| --- | --- |
| `TypeCorrect` | `TypeOK`, and with it that no counter of a Task passes its cap |
| `PlanIsObeyed` | `TasksApart` |
| `CapsAreKept` | `WithinCaps` |
| `WorkersStayCounted` | `WorkersAreCounted`, a part of `LeasesInForce`: at most the ceiling under which the last lease was issued, whatever was approved since |
| `LeasesHaveOwners` | an ACTIVE lease has an Attempt of its Task that is live or was invalidated |
| `LeasesStayDisjoint` | `LeasesInForce`, if the scopes of the Plans have `**` at their ends only (`RootedScopes`, which the Plans of the run satisfy) |
| `DispatchObeyed` | `DispatchIsObeyed` |
| `LeasesEndForGood` | `LeaseEndsForGood` |

The creation of an Attempt compares the audit sequence and little else. What makes it obey
the Plan and the closing of dispatch is `SelInv`: a selection that no commit has outdated
still stands. `PauseInv` (a pause belongs to a paused Task, a reserved resume to a ready
one) keeps a resume from being counted twice, `TrancheInv` bounds the tranches by the calls
that were allocated.

`LeasesStayDisjoint` does not use the comparison of lease scopes that `IssueLease` and
`RenewLease` make, nor the order of the Attempts: two Tasks of which both may write one path
read it too, so that each is a hazard to the other, and a promotion order that has both before
each other is a cycle, which `Accepted` rejects. With patterns that have `**` at their ends
only, what is proved disjoint has no path in common. The comparison is a second
line of defence. A lease that outlives its Attempt (STALE) is covered by this as well.

`DeliveriesEnd` is liveness and stays with TLC.

## 7. Where the code and its documents disagree

Five disagreements have a run that TLC must find violated; the finding in
`PROJECT.json` quotes the sentence.

| Run | What the code does |
| --- | --- |
| `disjoint` | `prove_disjoint` compares segments by position behind a `**`: `x/y` and `**/x/y`, or `**/x` and `*/y/x`, are proved apart and match the same path |
| `ceiling` | the call that reaches the call ceiling closes dispatch and cannot settle its barrier: the Run becomes INDETERMINATE although the answer was recorded |
| `retry` | a Task whose Attempt failed is selected with the id of that Attempt, whose INSERT raises, in every delivery |
| `worker_order` | a delivery that resumes a recovered action goes on to the scheduler without looking for a granted one |
| `restart` | a process that restarts after `git worktree add` finds its own worktree and refuses the repository: the interrupted creation is never settled |

How `worker_order` comes about: the action of one Task is frozen; the answered turn of
another is recovered after a crash, and a second crash leaves its marker; a budget that is
replaced and reinstated invalidates the permit of the continue that follows, so that the
Grant of the frozen action is accepted. The delivery of that Grant resumes the recovered
action first (`_run_consumed_permit`, `application/runtime.py` 622) and then
`_drive_permitted_phase` asks the scheduler, which selects the Attempt that the Grant
resumed (`sqlite.py` 2346-2371). In its new turn the Attempt may wait again, or finish and
release its lease; a later delivery then performs the granted effect, and its settlement
raises GRANTED_ATTEMPT_NOT_RUNNABLE (4522) at every delivery. `src/PLAN.md` 286 and 21728
promise the lookup before any scheduling. That the effect happens at most once and under its
Grant (`OneEffect`, `Implements`) is not touched by this.

How `restart` comes about: the process dies after ADD and before the settlement.
`runtime_owner_id` stays set, so that begin-planning answers RUNTIME_DELIVERY_PENDING
(`sqlite.py` 8247) until `apply_runtime_continue`, which no shipped entry point calls,
clears it. The run grants it that call, and a new process; but `GitRepositoryPreflight`
raises UNSUPPORTED_LINKED_WORKTREE for any entry of `.git/worktrees`
(`adapters/repository/git.py` 804-805), and so the delivery that would classify what the dead
one left never begins. `src/SPEC.md` 178 and 246 promise that classification, and 525 lets
exactly the recorded entry exist during the Run.

Five more are properties of the modules which TLC refutes under the constants named
here (with the other constants of the run in the third column).

| Property | What the code does | To see it |
| --- | --- | --- |
| `RunControl!ValidPlanAccepted` | a live delivery that receives a valid Plan cannot persist it: the submission demands the marker of a recovery (`src/SPEC.md` 279) | `commands`, 1 thread, `{"submit"}` |
| `RunControl!PlanApprovalTakesEffect` | after a proposal returned an approved Run to DRAFT, its next Plan cannot be approved: the row of the first approval is still there (286) | `commands`, `{"BUDGET"}`, 1 thread, 2 plans, 9 requests, ceiling 3, `{"submit"}`, `ContinueDelivered` |
| `RunControl!PlanningIsApproved` | a proposal during a live delivery returns the Run to DRAFT, and the delivery plans under revisions that nobody approved (116, 278) | `commands`, 1 thread |
| `WorkerActions!ExpiredLeaseGrantsNothing` | a Grant is consumed although the lease of its Attempt has expired (220) | `worker_recovery`, `{"risky"}`, `{"expiry"}` |
| `WorkerActions!WorkerReleasedOnce` | after a crash a settled Worker action is released again; the duplicate faults and its marker blocks the Run for good | `worker_recovery`, `{"direct"}`, `{"crash"}` |

The others were met on the way. The models behave as the code does (the definition
named is where to see it), and no property claims otherwise.

| Definition | What the code does | What `src/SPEC.md` says |
| --- | --- | --- |
| `RunControl!Continue` | continue issues a permit for whatever state the Run is in | 312: it is invalid in DRAFT, READY_TO_START, PAUSED, INDETERMINATE |
| `RunControl!ApplyFailure` | an exact `fail` before the ceiling leaves the Run in PLANNING | 283: PAUSED with PLANNING_FAILED |
| `RunControl!BarrierSettles` | the barrier of the planning request that reaches its ceiling cannot be settled, as in `ceiling` | 282: PAUSED with PLANNING_REQUEST_LIMIT |
| `RunControl!EntryRecover` | a planning read that was performed before a crash is released again | 254 |
| `WorkerActions!GrantedMismatch` | once the budget is replaced, the intent of a consumed Grant makes every delivery fault, and holds back all Grants after it | 262: the journaled intent retains its settlement authority |
| `WorkerActions!EnterUnsettled` | a crash while a tool runs makes every later delivery fault: no recovery strategy is registered | 256: unchanged pre-state replays the journaled intent |
| `WorkerActions!Invalidated` | an Attempt that lapses to STALE keeps its ACTIVE lease | 170: revokes the lease |
| `WorkerActions!FreezePending` | a pending action leaves dispatch open: the next delivery starts another Worker | 216: the first pending action closes the scheduling gate |
| `WorkerActions!SettleTool` | an action that settles after its lease expired leaves the Attempt RUNNING | 172: it terminates FAILED |
| `WorkerActions!TurnRefused` | `next_dispatchable` selects no credential profile (`sqlite.py` 2464) and the reservation denies a turn without one (5923): `CredentialBound` is FALSE in the repository, and no Worker turn is ever reserved | 636: a real-provider Run requires a credential before dispatch |
| `ModelRequests!PlanningIsFull` | only the first attempt of a planning turn counts against the eight planning requests | 188: eight model requests including retries |
| `ModelRequests!SettleAttempt` | a budget replaced while a call is under way takes effect at once, the paid call cannot be settled, and the Run becomes INDETERMINATE | 116: revisions do not change while the runtime is active |
| `ModelRequests!SettleAttempt` | an outcome that is unknown is charged in full, and the turn ends as denied | 254: it becomes INDETERMINATE |
| `ModelRequests!Crossed` | a budget replaced by a lower one, under which the use already is above 80 percent, gives no warning | 507: at 80 percent of any global ceiling |
| `PlanScopes!Accepted` | two Tasks that write overlapping globs are hazards of each other through what they read, a cycle, and no order helps | 166: they must have one explicitly proposed promotion order |
| `TaskScheduling!Eligible` | a hazard edge holds a Task back while the other has an Attempt | 166: hazard edges constrain promotion, not execution readiness |
| `TaskScheduling!PauseTask` | a paused Task closes dispatch and leaves the Run ACTIVE, in which the resume command is refused with RESUME_REQUIRES_PAUSED (`sqlite.py` 9641-9647) | 509: it pauses the Run |
| `TaskScheduling!CausesAfterResume` | all paused Tasks share the cause TASK_PAUSED, and a resume of one reopens dispatch for the others | 509 |
| `TaskScheduling!OutOfTranche` | an Attempt made from a resume allocation names that as its tranche, which is never the active one: its first call pauses the Run. So does the Attempt that was running when its tranche was renewed | 505, 509: resume allocates the next tranche |
| `TaskScheduling!Checkpoint` | a pause leaves the Attempt RUNNING and its lease ACTIVE | 120: the Attempt becomes CANCELLED, its lease is revoked |
| `TaskScheduling!SelectExisting` | an Attempt whose lease has lapsed is selected before anything else, and denied, until the lease is marked expired | 172: it terminates FAILED |
| `TaskScheduling!SelectTask` | a Task at its ceiling of Attempts stops the scheduler for the Tasks that come after it | 505: the ceiling is the Task's |
| `TaskScheduling!Full` | to reach the concurrent Worker ceiling closes dispatch as BUDGET_EXHAUSTED, and no transaction reopens it | 168, 507 |
| `TaskScheduling!Heard` | the resume command omits the checks of Attempts and of usage that the service makes | 509: only while all hard caps remain |

## 8. Checked only, and not modelled

Every invariant and every action property that a passing run checks is also a theorem
(for `LeasesInForce` under `RootedScopes`). What TLC alone checks is

* liveness under fairness: `Progress` of RunControl and of WorkerActions,
  `DeliveryResolves`, `ReservationResolves`, `DeliveriesEnd`. The prover has no
  rules for weak fairness that reach these;
* the runs that expect a violation, which are counterexamples;
* that the bounded instances can reach what the theorems are about: every action
  of every module fires in a passing run, and each property has a variant that breaks it.

The proofs rest on the assumptions that the modules state about their constants, which TLC
evaluates for each instance, and on the models: what a section lists as abstraction is
outside them. `OrderFacts` holds the two facts about natural numbers they share.

Proving changed the models in these places. `Classify` of TargetReservation and `Evaluate` of
ModelRequests were CASEs with overlapping arms, which TLA+ does not order; they are now the
IF chains that the code has. `SettleGranted` of WorkerActions has the raising branch.
`CommittedByItsLast` of ModelRequests names the last attempt of a turn instead of comparing
positions. `SchedulingAssumption` says that Tasks is a sequence of the Tasks, and
`ScopesAssumption` is new. The others are only in form: type invariants in named parts, the
matcher of PlanScopes by rows.

Not modelled, and why:

* `DurableModelClient.complete`: the package never constructs it; the requests go
  through `AuthorityModelClient`.
* Action deadlines and active time: nothing opens a deadline (`open_action_deadline`
  has no caller), so a check that asks for one always raises
  CURRENT_CHECK_DEADLINE_REQUIRED.
* Pause and cancel requests: the store reads `runtime_interrupts` (4137, 10061), and no
  statement inserts into it.
* Atomic actions and parked budgets: nothing begins an atomic action, so every approved
  budget is in force at once, and no statement
  applies a row of `pending_revision_replacements` (it is inserted, read and deleted).
* Cleanup of a reservation, Candidate, evidence and freshness: the runtime does not
  reach them, no Run gets past ACTIVE.
* The read models and queries (no state); retention and indeterminate records (value
  types without transitions that the runtime reaches); the in-memory store (the test
  twin of the tables that the models translate); policy (a pure classification).
* The no-follow file access, executors, model and credential adapters: I/O, whose
  outcomes are inputs of the models.
* The command line, web UI, replay and demo: parsing and rendering.

## 9. Plan

Done: RunControl over RunDelivery, WorkerActions over ApprovedActions,
TargetReservation, ModelRequests (with the part of the budget that model calls use),
PlanScopes, TaskScheduling (with dispatch closing by Tasks and Workers).

Left to model, once the code has them: pause and cancel requests, atomic actions and
the journey after ACTIVE.

Theorems worth proving next: that a Plan which `Accepted` passes leaves the scheduler
something to do (no set of Tasks waits for each other), which is the safety half of
`DeliveriesEnd`; that the steps of one delivery decrease a measure, the half of `Progress`
that needs no fairness; and that the permit and phase of WorkerActions agree with those of
RunControl in ACTIVE, which the two modules share by construction only.
