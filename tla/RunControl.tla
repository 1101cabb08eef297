------------------------------ MODULE RunControl ------------------------------
(***************************************************************************)
(* One Run of ApexCrew: the control commands a human sends to CrewControl, *)
(* the Runtime Permits that accepted commands mint, the single runtime     *)
(* that consumes a permit and drives the Run through planning to ACTIVE,   *)
(* and the durable rows of state/sqlite.py that all of them read and       *)
(* compare-and-set.                                                        *)
(*                                                                         *)
(* Every action is one SQLite transaction (or one read) of the store.  A   *)
(* control command is TWO steps, Decide and Commit, because                *)
(* apply_control_command reads, decides, and only then opens the IMMEDIATE *)
(* transaction that compares expected_sequence.  The runtime takes one     *)
(* step per store call, so that commands interleave with it everywhere.    *)
(***************************************************************************)
EXTENDS Naturals, Sequences

CONSTANTS
    Classes,           \* revision classes of the Run
    Revisions,         \* digests a revision document may have
    InitialRevision,   \* digest that create_run gives each class
    Plans,             \* plan digests the Coordinator may submit
    None,              \* SQL NULL
    Threads,           \* threads that handle control commands
    MaxRequests,       \* bound: control requests ever sent
    PlanningCeiling,   \* planning_request_ceiling of the approved budget
    PlanningActions,   \* what the model answers to a planning request
    ContinueDelivered  \* does `continue` reach apply_runtime_continue?

ASSUME ConstantsAssumption ==
    /\ "BUDGET" \in Classes
    /\ Classes \subseteq {"POLICY", "BUDGET", "MODEL_CONFIGURATION"}
    /\ InitialRevision \in Revisions
    /\ None \notin Revisions \cup Plans
    /\ MaxRequests \in Nat
    /\ PlanningCeiling \in Nat \ {0}
    /\ PlanningActions \subseteq {"read", "submit", "fail", "invalid"}
    /\ ContinueDelivered \in BOOLEAN

VARIABLES
    \* the durable row of the Run and of the tables keyed by it
    st,           \* runs.state
    seq,          \* run_sequences.current_sequence
    current,      \* runs.current_<class>_digest
    plan,         \* runs.current_plan_digest
    docs,         \* revision_documents: the state of each class and digest
    approved,     \* revision_approvals rows
    budgetRow,    \* approved_budgets_for_test: the budget that is enforced
    pending,      \* pending_revision_replacements
    plans,        \* plans rows: the revisions each proposal is bound to
    planApproval, \* plan_approvals row of the Run (one per run_id)
    runRef,       \* run_refs row: its state and its guard binding
    reservation,  \* target_reservations.phase, binding of its intent
    unsettled,    \* kinds of effect_intents in state UNSETTLED
    permits,      \* runtime_permits, by generation
    owner,        \* runs.runtime_owner_id, named by the permit it consumed
    progress,     \* runs.runtime_progress_generation
    dispatchOpen, \* runs.new_dispatch_open
    barrier,      \* runtime_barriers.state
    requests,     \* run_authority_counters.planning_requests
    turns,        \* committed planning turns, in commit order
    \* control commands
    sent,         \* request ids handed out so far
    claims,       \* control_request_claims: ids that have an outcome
    handler,      \* what each thread holds between Decide and Commit
    \* the one live runtime, which holds the Run's ownership lock
    pc, held, view, drafted, started

revisionVars == <<current, docs, approved, budgetRow, pending>>
planVars     == <<plan, plans, planApproval, runRef>>
permitVars   == <<permits, owner, progress>>
effectVars   == <<reservation, unsettled>>
turnVars     == <<barrier, requests, turns>>
commandVars  == <<sent, claims, handler>>
runtimeVars  == <<pc, held, view, drafted, started>>

vars == <<st, seq, dispatchOpen, revisionVars, planVars, permitVars,
          effectVars, turnVars, commandVars, runtimeVars>>

-----------------------------------------------------------------------------
(* Values *)

RunStates == {"DRAFT", "PLANNING", "AWAITING_PLAN_APPROVAL", "READY_TO_START",
              "ACTIVE", "PAUSED", "INDETERMINATE"}

ExecutionRevisionStates == {"ACTIVE", "PAUSED", "INDETERMINATE"}

RuntimeAllowedPhase == RunStates \ {"AWAITING_PLAN_APPROVAL"}

Bindings == [plan : Plans \cup {None}, rev : [Classes -> Revisions]]

Permits == [id : Nat, source : {"begin", "start", "continue"},
            phase : RuntimeAllowedPhase, bind : Bindings, target : BOOLEAN,
            progress : Nat, state : {"UNCONSUMED", "CONSUMED", "INVALIDATED"}]

\* "other" is a command that CrewControl does not offer (continue included) or
\* an envelope that does not name its bindings exactly; a start without a plan
\* is an inexact start, which is refused in a way of its own.
Commands ==
    [kind : {"propose", "approve"}, class : Classes, rev : Revisions,
     plan : {None}]
    \cup [kind : {"begin", "other"}, class : {None}, rev : {None}, plan : {None}]
    \cup [kind : {"approvePlan"}, class : {None}, rev : {None}, plan : Plans]
    \cup [kind : {"start"}, class : {None}, rev : {None}, plan : Plans \cup {None}]

\* A thread between Decide and Commit: the request, the sequence it expects,
\* the outcome it decided and what the decision was read from.
Decisions == [id : Nat, cmd : Commands, exp : Nat,
              verdict : {"ACCEPT", "REJECT", "CLAIM"},
              state : RunStates, bind : Bindings, target : BOOLEAN]

Proposals == [rev : [Classes -> Revisions], state : {"PROPOSED", "APPROVED"}]

Turns == [bind : Bindings, act : PlanningActions, plan : Plans, read : BOOLEAN,
          state : {"COMPLETION_COMMITTED", "DOWNSTREAM_INTENT_RECORDED",
                   "RELEASED"}]

-----------------------------------------------------------------------------
(* What the store reads in one transaction *)

Current == [plan |-> plan, rev |-> current]

\* target_authority_digest changes exactly once, when admin_binding_digest
\* is set.
Target == reservation.phase = "REGISTERED_LOCKED"

CurrentApproved == \A c \in Classes : <<c, current[c]>> \in approved

Unconsumed == {g \in DOMAIN permits : permits[g].state = "UNCONSUMED"}

\* Variants: an outstanding permit, or a dead owner, is forgotten.
DeliveryPendingOwnerOnly == owner # 0
DeliveryPendingPermitOnly == Unconsumed # {}

DeliveryPending == owner # 0 \/ Unconsumed # {}

\* Variant: a state that the readers of permits do not know.
MintedIssued(id, source, phase) ==
    [id |-> id, source |-> source, phase |-> phase, bind |-> Current,
     target |-> Target, progress |-> progress, state |-> "ISSUED"]

Minted(id, source, phase) ==
    [id |-> id, source |-> source, phase |-> phase, bind |-> Current,
     target |-> Target, progress |-> progress, state |-> "UNCONSUMED"]

WithState(gens, s) ==
    [g \in DOMAIN permits |->
        IF g \in gens THEN [permits[g] EXCEPT !.state = s] ELSE permits[g]]

NoView == [bind |-> None, seq |-> 0, turn |-> 0, recovered |-> FALSE]

-----------------------------------------------------------------------------
\* The Run as create_bootstrap_run leaves it.
Init ==
    /\ st = "DRAFT" /\ seq = 1 /\ dispatchOpen = TRUE
    /\ current = [c \in Classes |-> InitialRevision]
    /\ docs = [c \in Classes |-> [r \in Revisions |->
                  IF r = InitialRevision THEN "CURRENT" ELSE "ABSENT"]]
    /\ approved = {} /\ budgetRow = None
    /\ pending = [c \in Classes |-> None]
    /\ plan = None /\ plans = [p \in Plans |-> None] /\ planApproval = None
    /\ runRef = [state |-> "NONE", guard |-> None]
    /\ permits = <<>> /\ owner = 0 /\ progress = 0
    /\ reservation = [phase |-> "ALLOCATED", bind |-> None]
    /\ unsettled = {}
    /\ barrier = "IDLE" /\ requests = 0 /\ turns = <<>>
    /\ sent = 0 /\ claims = {} /\ handler = [t \in Threads |-> None]
    /\ pc = "idle" /\ held = 0
    /\ view = NoView
    /\ drafted = FALSE /\ started = FALSE

-----------------------------------------------------------------------------
(* Control commands: decide, outside the write transaction                 *)

Frozen(class) == st \in ExecutionRevisionStates /\ class = "POLICY"

Acceptable(cmd) ==
    CASE cmd.kind = "propose" -> ~Frozen(cmd.class)
      [] cmd.kind = "approve" ->
           /\ ~Frozen(cmd.class)
           /\ docs[cmd.class][cmd.rev] \in {"PROPOSED", "CURRENT"}
      [] cmd.kind = "begin" -> st = "DRAFT" /\ CurrentApproved
      [] cmd.kind = "approvePlan" ->
           /\ st = "AWAITING_PLAN_APPROVAL" /\ plan = None
           /\ plans[cmd.plan] # None /\ plans[cmd.plan].rev = current
      [] cmd.kind = "start" ->
           /\ st = "READY_TO_START" /\ cmd.plan # None
           /\ cmd.plan = plan /\ planApproval = plan
      [] OTHER -> FALSE

\* A start refused after its state check is claimed without a sequence.
Verdict(cmd) ==
    IF Acceptable(cmd) THEN "ACCEPT"
    ELSE IF cmd.kind = "start" /\ st = "READY_TO_START" THEN "CLAIM"
    ELSE "REJECT"

Decision(id, cmd, verdict) ==
    [id |-> id, cmd |-> cmd, exp |-> seq, verdict |-> verdict,
     state |-> st, bind |-> Current, target |-> Target]

\* A new request arrives with the current sequence.  (One with an older
\* sequence is claimed STALE and changes nothing else.)
Decide(t, cmd) ==
    /\ handler[t] = None
    /\ sent < MaxRequests
    /\ sent' = sent + 1
    /\ handler' = [handler EXCEPT ![t] =
                      Decision(sent + 1, cmd, Verdict(cmd))]
    /\ UNCHANGED <<st, seq, dispatchOpen, revisionVars, planVars, permitVars,
                   effectVars, turnVars, claims, runtimeVars>>

\* A client that saw no answer sends the same envelope again while the first
\* delivery is still between its read and its transaction.
Redeliver(t, u) ==
    /\ handler[t] = None /\ handler[u] # None
    /\ handler[u].exp = seq /\ handler[u].id \notin claims
    /\ handler' = [handler EXCEPT ![t] = handler[u]]
    /\ UNCHANGED <<st, seq, dispatchOpen, revisionVars, planVars, permitVars,
                   effectVars, turnVars, sent, claims, runtimeVars>>

-----------------------------------------------------------------------------
(* Control commands: the IMMEDIATE transaction                             *)

\* Variants: both checks made before the transaction only; the sequence
\* compared before the transaction only.
InTimeUnchecked(h) == TRUE
InTimeUnsequenced(h) == h.id \notin claims

\* _record_control_outcome up to the mutation: not yet claimed, and the
\* expected sequence is still the current one.
InTime(h) == h.id \notin claims /\ h.exp = seq

Record(t) ==
    /\ claims' = claims \cup {handler[t].id}
    /\ handler' = [handler EXCEPT ![t] = None]
    /\ seq' = seq + 1
    /\ UNCHANGED <<sent, runtimeVars>>

\* Replay of a claimed request, STALE_SEQUENCE, or an unsequenced claim.
CommitUnsequenced(t) ==
    LET h == handler[t] IN
    /\ h # None
    /\ ~InTime(h) \/ h.verdict = "CLAIM"
    /\ claims' = claims \cup {h.id}
    /\ handler' = [handler EXCEPT ![t] = None]
    /\ UNCHANGED <<st, seq, dispatchOpen, revisionVars, planVars, permitVars,
                   effectVars, turnVars, sent, runtimeVars>>

\* INVALID, DENIED, STALE and CONFLICT outcomes are receipts too.
CommitRejection(t) ==
    /\ handler[t] # None /\ InTime(handler[t])
    /\ handler[t].verdict = "REJECT"
    /\ Record(t)
    /\ UNCHANGED <<st, dispatchOpen, revisionVars, planVars, permitVars,
                   effectVars, turnVars>>

Accepting(t, kind) ==
    /\ handler[t] # None /\ InTime(handler[t])
    /\ handler[t].verdict = "ACCEPT" /\ handler[t].cmd.kind = kind

CommitProposeUnchanged(t) ==
    /\ Accepting(t, "propose")
    /\ handler[t].cmd.rev = current[handler[t].cmd.class]
    /\ Record(t)
    /\ UNCHANGED <<st, dispatchOpen, revisionVars, planVars, permitVars,
                   effectVars, turnVars>>

\* What a proposal before activation does to the documents of its class.
\* Variant: the superseded ones stay CURRENT.
SupersededKept(class, rev) == [docs EXCEPT ![class][rev] = "CURRENT"]

Superseded(class, rev) ==
    [docs EXCEPT ![class] = [r \in Revisions |->
        IF r = rev THEN "CURRENT"
        ELSE IF @[r] = "ABSENT" THEN "ABSENT" ELSE "STALE"]]

\* Variant: the outstanding permit stays usable.
WithdrawnKept == permits

Withdrawn == WithState(Unconsumed, "INVALIDATED")

\* Variant: the Run stays in its phase.
ProposalPhaseKept == st

ProposalPhase == "DRAFT"

\* Before activation a proposal replaces the revision at once, withdraws the
\* approvals of the class and of the plan, returns the Run to DRAFT and
\* invalidates the outstanding permit.
CommitProposeBootstrap(t) ==
    LET class == handler[t].cmd.class
        rev   == handler[t].cmd.rev
    IN
    /\ Accepting(t, "propose")
    /\ rev # current[class]
    /\ handler[t].state \notin ExecutionRevisionStates
    /\ docs' = Superseded(class, rev)
    /\ current' = [current EXCEPT ![class] = rev]
    /\ st' = ProposalPhase /\ plan' = None
    /\ approved' = {a \in approved : a[1] # class}
    /\ permits' = Withdrawn
    /\ Record(t)
    /\ UNCHANGED <<dispatchOpen, budgetRow, pending, plans, planApproval, runRef,
                   owner, progress, effectVars, turnVars>>

CommitProposeExecution(t) ==
    LET class == handler[t].cmd.class
        rev   == handler[t].cmd.rev
    IN
    /\ Accepting(t, "propose")
    /\ rev # current[class]
    /\ handler[t].state \in ExecutionRevisionStates
    /\ docs' = [docs EXCEPT ![class][rev] = "PROPOSED"]
    /\ Record(t)
    /\ UNCHANGED <<st, dispatchOpen, current, approved, budgetRow, pending,
                   planVars, permitVars, effectVars, turnVars>>

\* While an atomic action is in flight (only Workers of an ACTIVE Run have
\* one) an approved replacement is parked and dispatch closes.
CommitApprove(t, actionInFlight) ==
    LET class  == handler[t].cmd.class
        rev    == handler[t].cmd.rev
        parked == /\ handler[t].state \in ExecutionRevisionStates
                  /\ current[class] # rev /\ actionInFlight
    IN
    /\ Accepting(t, "approve")
    /\ actionInFlight => st = "ACTIVE"
    /\ approved' = approved \cup {<<class, rev>>}
    /\ IF parked
       THEN /\ pending' = [pending EXCEPT ![class] = rev]
            /\ dispatchOpen' = FALSE
            /\ UNCHANGED <<docs, current, budgetRow>>
       ELSE /\ pending' = [pending EXCEPT ![class] = None]
            /\ docs' = [docs EXCEPT ![class] = [r \in Revisions |->
                           IF r = rev THEN "CURRENT"
                           ELSE IF @[r] = "CURRENT" THEN "STALE" ELSE @[r]]]
            /\ current' = [current EXCEPT ![class] = rev]
            /\ budgetRow' = IF class = "BUDGET" THEN rev ELSE budgetRow
            /\ UNCHANGED dispatchOpen
    /\ Record(t)
    /\ UNCHANGED <<st, planVars, permitVars, effectVars, turnVars>>

\* _issue_runtime_permit_in_transaction: the Run is still in the phase and
\* under the bindings the command was decided on.
Issuable(phase, bind, target) ==
    st = phase /\ Current = bind /\ Target = target

Issue(id, source, phase) == permits' = Append(permits, Minted(id, source, phase))

CommitBegin(t) ==
    /\ Accepting(t, "begin")
    /\ Issuable("DRAFT", handler[t].bind, handler[t].target)
    /\ ~DeliveryPending
    /\ Issue(handler[t].id, "begin", "DRAFT")
    /\ Record(t)
    /\ UNCHANGED <<st, dispatchOpen, revisionVars, planVars, owner, progress,
                   effectVars, turnVars>>

\* RUNTIME_DELIVERY_PENDING rolls the transaction back; the CONFLICT outcome
\* is recorded by a second one.
BeginConflict(t) ==
    /\ Accepting(t, "begin")
    /\ Issuable("DRAFT", handler[t].bind, handler[t].target)
    /\ DeliveryPending
    /\ handler' = [handler EXCEPT ![t].verdict = "REJECT"]
    /\ UNCHANGED <<st, seq, dispatchOpen, revisionVars, planVars, permitVars,
                   effectVars, turnVars, sent, claims, runtimeVars>>

\* plan_approvals and run_refs have one row per Run: a second INSERT raises.
PlanApprovable(h) ==
    /\ st = "AWAITING_PLAN_APPROVAL" /\ plan = None
    /\ plans[h.cmd.plan] # None
    /\ plans[h.cmd.plan].state = "PROPOSED"
    /\ plans[h.cmd.plan].rev = h.bind.rev
    /\ planApproval = None

CommitApprovePlan(t) ==
    /\ Accepting(t, "approvePlan")
    /\ PlanApprovable(handler[t])
    /\ planApproval' = handler[t].cmd.plan
    /\ plans' = [plans EXCEPT ![handler[t].cmd.plan].state = "APPROVED"]
    /\ st' = "READY_TO_START" /\ plan' = handler[t].cmd.plan
    /\ runRef' = [state |-> "ABSENT_EXPECTED", guard |-> None]
    /\ Record(t)
    /\ UNCHANGED <<dispatchOpen, revisionVars, permitVars, effectVars, turnVars>>

CommitStart(t) ==
    /\ Accepting(t, "start")
    /\ runRef.state = "ABSENT_EXPECTED"
    /\ Issuable("READY_TO_START", handler[t].bind, handler[t].target)
    /\ ~DeliveryPending
    /\ runRef' = [runRef EXCEPT !.guard = handler[t].bind]
    /\ Issue(handler[t].id, "start", "READY_TO_START")
    /\ Record(t)
    /\ UNCHANGED <<st, dispatchOpen, revisionVars, plan, plans, planApproval,
                   owner, progress, effectVars, turnVars>>

\* Any other exception inside the transaction: rolled back, never claimed.
Raises(h) ==
    CASE h.cmd.kind = "begin" -> ~Issuable("DRAFT", h.bind, h.target)
      [] h.cmd.kind = "approvePlan" -> ~PlanApprovable(h)
      [] h.cmd.kind = "start" -> \/ runRef.state # "ABSENT_EXPECTED"
                                 \/ ~Issuable("READY_TO_START", h.bind, h.target)
                                 \/ DeliveryPending
      [] OTHER -> FALSE

CommitRaises(t) ==
    /\ handler[t] # None /\ InTime(handler[t]) /\ handler[t].verdict = "ACCEPT"
    /\ Raises(handler[t])
    /\ handler' = [handler EXCEPT ![t] = None]
    /\ UNCHANGED <<st, seq, dispatchOpen, revisionVars, planVars, permitVars,
                   effectVars, turnVars, sent, claims, runtimeVars>>

\* The Run's ownership lock is free: process death releases it.
\* Variant: a runtime that holds it is overlooked.
OwnershipOverlooked == TRUE

OwnershipFree == pc = "idle"

\* apply_runtime_continue, called while the caller holds the ownership lock:
\* clears the owner that a dead runtime left and issues a permit for the
\* phase the Run is in.
Continue ==
    /\ ContinueDelivered /\ OwnershipFree /\ sent < MaxRequests
    /\ st \in RuntimeAllowedPhase /\ Unconsumed = {}
    /\ sent' = sent + 1 /\ claims' = claims \cup {sent + 1}
    /\ owner' = 0
    /\ Issue(sent + 1, "continue", st)
    /\ seq' = seq + 1
    /\ UNCHANGED <<st, dispatchOpen, revisionVars, planVars, progress,
                   effectVars, turnVars, handler, runtimeVars>>

Commit(t) ==
    \/ CommitUnsequenced(t) \/ CommitRejection(t)
    \/ CommitProposeUnchanged(t) \/ CommitProposeBootstrap(t)
    \/ CommitProposeExecution(t)
    \/ \E inFlight \in BOOLEAN : CommitApprove(t, inFlight)
    \/ CommitBegin(t) \/ BeginConflict(t) \/ CommitApprovePlan(t)
    \/ CommitStart(t) \/ CommitRaises(t)

-----------------------------------------------------------------------------
(* The runtime: acquiring the Run                                          *)

PermitCurrent(p) ==
    /\ p.phase = st /\ p.bind = Current /\ p.target = Target
    /\ p.progress = progress

\* run_until_blocked takes the ownership lock and consumes the permit.
Consume(g) ==
    /\ OwnershipFree /\ g \in Unconsumed
    /\ PermitCurrent(permits[g]) /\ owner = 0
    /\ permits' = WithState({g}, "CONSUMED")
    /\ owner' = g /\ progress' = progress + 1 /\ seq' = seq + 1
    /\ pc' = "entry" /\ held' = g
    /\ drafted' = FALSE /\ started' = FALSE
    /\ UNCHANGED <<st, dispatchOpen, revisionVars, planVars, effectVars,
                   turnVars, commandVars, view>>

InvalidateStalePermit(g) ==
    /\ OwnershipFree /\ g \in Unconsumed
    /\ ~PermitCurrent(permits[g])
    /\ permits' = WithState({g}, "INVALIDATED")
    /\ seq' = seq + 1
    /\ UNCHANGED <<st, dispatchOpen, revisionVars, planVars, owner, progress,
                   effectVars, turnVars, commandVars, runtimeVars>>

\* A runtime step that only moves the runtime (a read, or an exception).
Goto(to) ==
    /\ pc' = to
    /\ UNCHANGED <<st, seq, dispatchOpen, revisionVars, planVars, permitVars,
                   effectVars, turnVars, commandVars, held, view, drafted,
                   started>>

TurnsIn(s) == {i \in DOMAIN turns : turns[i].state = s}

Oldest(S) == CHOOSE i \in S : \A j \in S : i <= j

Reopening(i) == view' = [view EXCEPT !.bind = Current, !.turn = i,
                                     !.recovered = TRUE]

\* _run_consumed_permit, in its order: a Run in DRAFT skips recovery; then a
\* recorded but unreleased model action; then unsettled effects, for which
\* RecoveryService has no strategy and raises; then a committed turn.
EntryDrive ==
    /\ pc = "entry"
    /\ \/ st = "DRAFT"
       \/ /\ TurnsIn("DOWNSTREAM_INTENT_RECORDED") = {} /\ unsettled = {}
          /\ TurnsIn("COMPLETION_COMMITTED") = {}
    /\ Goto("loop")

EntryResume ==
    LET recorded == TurnsIn("DOWNSTREAM_INTENT_RECORDED") IN
    /\ pc = "entry" /\ st # "DRAFT" /\ recorded # {}
    /\ Reopening(Oldest(recorded))
    /\ pc' = "apply"
    /\ UNCHANGED <<st, seq, dispatchOpen, revisionVars, planVars, permitVars,
                   effectVars, turnVars, commandVars, held, drafted, started>>

EntryUnsettled ==
    /\ pc = "entry"
    /\ st # "DRAFT" /\ TurnsIn("DOWNSTREAM_INTENT_RECORDED") = {}
    /\ unsettled # {}
    /\ Goto("fault")

RecoverableTurn ==
    /\ st # "DRAFT" /\ TurnsIn("DOWNSTREAM_INTENT_RECORDED") = {}
    /\ unsettled = {} /\ TurnsIn("COMPLETION_COMMITTED") # {}

\* recover_committed: a turn bound to other revisions is not released.
EntryBlocked ==
    /\ pc = "entry"
    /\ RecoverableTurn
    /\ turns[Oldest(TurnsIn("COMPLETION_COMMITTED"))].bind # Current
    /\ Goto("stop")

EntryRecover ==
    LET i == Oldest(TurnsIn("COMPLETION_COMMITTED")) IN
    /\ pc = "entry" /\ RecoverableTurn
    /\ turns[i].bind = Current
    /\ turns' = [turns EXCEPT ![i].state = "DOWNSTREAM_INTENT_RECORDED"]
    /\ Reopening(i)
    /\ seq' = seq + 1 /\ pc' = "apply"
    /\ UNCHANGED <<st, dispatchOpen, revisionVars, planVars, permitVars,
                   effectVars, barrier, requests, commandVars, held, drafted,
                   started>>

-----------------------------------------------------------------------------
(* The runtime: _drive_permitted_phase                                     *)

\* The phase of the permit, or the phase this very delivery moved the Run to.
PhaseAllowed ==
    \/ st = permits[held].phase
    \/ permits[held].phase = "DRAFT" /\ drafted /\ st = "PLANNING"
    \/ permits[held].phase = "READY_TO_START" /\ started /\ st = "ACTIVE"

Driver == CASE st = "DRAFT" -> "reserve"
            [] st = "PLANNING" -> "planning"
            [] st = "READY_TO_START" -> "refInit"
            [] OTHER -> "leave"   \* schedule and resume_resolution stop

LoopNotAllowed == pc = "loop" /\ ~PhaseAllowed /\ Goto("stop")

\* The active-time boundary needs the approved budget.
LoopNoBudget == pc = "loop" /\ PhaseAllowed /\ budgetRow = None /\ Goto("fault")

LoopDrive == pc = "loop" /\ PhaseAllowed /\ budgetRow # None /\ Goto(Driver)

\* The boundary is also evaluated after each driver, whatever it decided.
TimeExhausted ==
    /\ \/ pc = "loop" /\ PhaseAllowed /\ budgetRow # None
       \/ pc = "leave"
    /\ dispatchOpen' = FALSE /\ seq' = seq + 1 /\ pc' = "stop"
    /\ UNCHANGED <<st, revisionVars, planVars, permitVars, effectVars, turnVars,
                   commandVars, held, view, drafted, started>>

Leave == pc = "leave" /\ Goto("stop")

-----------------------------------------------------------------------------
(* The runtime: the target reservation (detail in TargetReservation)       *)

\* _require_consumed_draft_reservation_permit
UnderDraftPermit ==
    owner = held /\ permits[held].phase = "DRAFT" /\ st = "DRAFT"

\* Variant: whatever the worktree was left as.
ReusableUnregistered == reservation.phase # "CREATION_INTENT_RECORDED"

Reusable == reservation.phase = "REGISTERED_LOCKED"

ReserveReuse ==
    /\ pc = "reserve" /\ Reusable
    /\ UnderDraftPermit
    /\ st' = "PLANNING" /\ drafted' = TRUE /\ seq' = seq + 1 /\ pc' = "loop"
    /\ UNCHANGED <<dispatchOpen, revisionVars, planVars, permitVars, effectVars,
                   turnVars, commandVars, held, view, started>>

\* The worktree is not as the recorded phase says: no intent is recorded.
ReservePreIntentStop(observable) ==
    /\ pc = "reserve" /\ reservation.phase # "CREATION_INTENT_RECORDED"
    /\ UnderDraftPermit
    /\ st' = IF observable THEN st ELSE "INDETERMINATE"
    /\ dispatchOpen' = (dispatchOpen /\ observable)
    /\ seq' = seq + 1 /\ pc' = "leave" /\ drafted' = FALSE
    /\ UNCHANGED <<revisionVars, planVars, permitVars, effectVars, turnVars,
                   commandVars, held, view, started>>

ReserveRecordIntent ==
    /\ pc = "reserve" /\ reservation.phase = "ALLOCATED"
    /\ UnderDraftPermit
    /\ reservation' = [phase |-> "CREATION_INTENT_RECORDED",
                       bind |-> permits[held].bind]
    /\ unsettled' = unsettled \cup {"reservation"}
    /\ seq' = seq + 1 /\ pc' = "settle"
    /\ UNCHANGED <<st, dispatchOpen, revisionVars, planVars, permitVars,
                   turnVars, commandVars, held, view, drafted, started>>

ReserveLoadIntent ==
    /\ pc = "reserve"
    /\ reservation.phase = "CREATION_INTENT_RECORDED"
    /\ "reservation" \in unsettled
    /\ Goto("settle")

Settleable == UnderDraftPermit /\ reservation.bind = permits[held].bind

\* The phase of the Run after the creation of the worktree was observed.
\* Variant: an unobservable creation is settled like a refused one.
DraftAfterUnclassified ==
    [REGISTERED_LOCKED |-> "PLANNING", CONFLICT |-> "DRAFT", UNOBSERVABLE |-> "DRAFT"]

DraftAfter == [REGISTERED_LOCKED |-> "PLANNING", CONFLICT |-> "DRAFT",
               UNOBSERVABLE |-> "INDETERMINATE"]

ReserveSettle(result) ==
    /\ pc = "settle" /\ Settleable
    /\ unsettled' = unsettled \ {"reservation"}
    /\ reservation' = [reservation EXCEPT !.phase =
                          CASE result = "REGISTERED_LOCKED" -> result
                            [] result = "CONFLICT" -> "ALLOCATED"
                            [] OTHER -> @]
    /\ st' = DraftAfter[result] /\ drafted' = (result = "REGISTERED_LOCKED")
    /\ dispatchOpen' = (dispatchOpen /\ result # "UNOBSERVABLE")
    /\ seq' = seq + 1
    /\ pc' = IF result = "REGISTERED_LOCKED" THEN "loop" ELSE "leave"
    /\ UNCHANGED <<revisionVars, planVars, permitVars, turnVars, commandVars,
                   held, view, started>>

SettleRaises == pc = "settle" /\ ~Settleable /\ Goto("fault")

-----------------------------------------------------------------------------
(* The runtime: one planning turn                                          *)

\* The authorization provider refuses (it must at the planning ceiling).
PlanNotAuthorized == pc = "planning" /\ Goto("leave")

PlanContextOverflow ==
    /\ pc = "planning" /\ requests < PlanningCeiling
    /\ st' = "DRAFT" /\ seq' = seq + 1 /\ pc' = "leave"
    /\ UNCHANGED <<dispatchOpen, revisionVars, planVars, permitVars, effectVars,
                   turnVars, commandVars, held, view, drafted, started>>

\* begin_runtime_barrier, for the bindings that are current now.
PlanBeginBarrier ==
    /\ pc = "planning" /\ requests < PlanningCeiling
    /\ dispatchOpen /\ barrier # "IN_FLIGHT"
    /\ barrier' = "IN_FLIGHT"
    /\ view' = [view EXCEPT !.bind = Current, !.turn = 0, !.recovered = FALSE]
    /\ seq' = seq + 1 /\ pc' = "reserveModel"
    /\ UNCHANGED <<st, dispatchOpen, revisionVars, planVars, permitVars,
                   effectVars, requests, turns, commandVars, held, drafted,
                   started>>

PlanBarrierRaises ==
    /\ pc = "planning"
    /\ ~dispatchOpen \/ barrier = "IN_FLIGHT"
    /\ Goto("fault")

Reservable ==
    /\ view.bind = Current /\ view.bind.rev["BUDGET"] = budgetRow
    /\ dispatchOpen /\ st \in {"PLANNING", "ACTIVE"}

\* The reservation that reaches a ceiling (of planning requests, or of calls,
\* tokens or cost) is granted and closes dispatch.
PlanReserve(otherCeiling) ==
    /\ pc = "reserveModel" /\ Reservable
    /\ requests' = requests + 1
    /\ dispatchOpen' = (requests + 1 < PlanningCeiling /\ ~otherCeiling)
    /\ seq' = seq + 1 /\ pc' = "provider"
    /\ UNCHANGED <<st, revisionVars, planVars, permitVars, effectVars, barrier,
                   turns, commandVars, held, view, drafted, started>>

PlanReserveDenied == pc = "reserveModel" /\ ~Reservable /\ Goto("settleBarrier")

\* A token, cost or call ceiling that the request would exceed.
PlanReservePaused ==
    /\ pc = "reserveModel" /\ Reservable
    /\ st' = "PAUSED" /\ dispatchOpen' = FALSE
    /\ seq' = seq + 1 /\ pc' = "settleBarrier"
    /\ UNCHANGED <<revisionVars, planVars, permitVars, effectVars, turnVars,
                   commandVars, held, view, drafted, started>>

\* settle_model_attempt: charges the budget the request was bound to, and
\* commits the turn when the answer is releasable.
PlanProviderAnswer(act, p) ==
    /\ pc = "provider" /\ view.bind.rev["BUDGET"] = budgetRow
    /\ turns' = Append(turns, [bind |-> view.bind, act |-> act, plan |-> p,
                               read |-> FALSE, state |-> "COMPLETION_COMMITTED"])
    /\ view' = [view EXCEPT !.turn = Len(turns) + 1]
    /\ seq' = seq + 1 /\ pc' = "settleBarrier"
    /\ UNCHANGED <<st, dispatchOpen, revisionVars, planVars, permitVars,
                   effectVars, barrier, requests, commandVars, held, drafted,
                   started>>

PlanProviderNoAnswer ==
    /\ pc = "provider" /\ view.bind.rev["BUDGET"] = budgetRow
    /\ seq' = seq + 1 /\ pc' = "settleBarrier"
    /\ UNCHANGED <<st, dispatchOpen, revisionVars, planVars, permitVars,
                   effectVars, turnVars, commandVars, held, view, drafted,
                   started>>

PlanProviderRaises == pc = "provider" /\ view.bind.rev["BUDGET"] # budgetRow /\ Goto("fault")

\* settle_runtime_barrier derives the stop cause from the MODEL_CALLS metric
\* alone: a dispatch that something else closed does not match it.
BarrierSettles == dispatchOpen /\ current["BUDGET"] = budgetRow

PlanSettleBarrier ==
    /\ pc = "settleBarrier" /\ BarrierSettles
    /\ barrier' = "SETTLED" /\ seq' = seq + 1
    /\ pc' = IF view.turn = 0 THEN "leave" ELSE "apply"
    /\ UNCHANGED <<st, dispatchOpen, revisionVars, planVars, permitVars,
                   effectVars, requests, turns, commandVars, held, view, drafted,
                   started>>

PlanSettleBarrierRaises == pc = "settleBarrier" /\ ~BarrierSettles /\ Goto("fault")

-----------------------------------------------------------------------------
(* The runtime: PlanningActionApplier, live or recovered                   *)

Turn == turns[view.turn]

\* Variant: a recovered action under a permit for any phase.
MarkerMatchesAnyPhase ==
    view.recovered =>
        /\ owner = held
        /\ permits[held].bind = view.bind /\ Turn.bind = view.bind

\* _settle_recovered_planning_marker
MarkerMatches ==
    view.recovered =>
        /\ owner = held /\ permits[held].phase = "PLANNING"
        /\ permits[held].bind = view.bind /\ Turn.bind = view.bind

Released(turn) == [turn EXCEPT !.state = IF view.recovered THEN "RELEASED" ELSE @]

\* The intent of a read is unique per logical turn.
ApplyRead ==
    /\ pc = "apply" /\ Turn.act = "read"
    /\ ~Turn.read /\ MarkerMatches
    /\ turns' = [turns EXCEPT ![view.turn] = [Released(@) EXCEPT !.read = TRUE]]
    /\ unsettled' = unsettled \cup {"read"}
    /\ seq' = seq + 1 /\ pc' = "settleRead"
    /\ UNCHANGED <<st, dispatchOpen, revisionVars, planVars, permitVars,
                   reservation, barrier, requests, commandVars, held, view,
                   drafted, started>>

SettleRead(overflow) ==
    /\ pc = "settleRead"
    /\ unsettled' = unsettled \ {"read"}
    /\ st' = IF overflow THEN "PAUSED" ELSE st
    /\ dispatchOpen' = (dispatchOpen /\ ~overflow)
    /\ seq' = seq + 1 /\ pc' = IF overflow THEN "leave" ELSE "loop"
    /\ UNCHANGED <<revisionVars, planVars, permitVars, reservation, turnVars,
                   commandVars, held, view, drafted, started>>

\* persist_submitted_plan always passes the logical turn, and
\* persist_plan_proposal takes it only together with a marker and a permit.
Submittable ==
    /\ view.recovered /\ MarkerMatches
    /\ st = "PLANNING" /\ Current = view.bind
    /\ view.bind.rev["BUDGET"] = budgetRow
    /\ dispatchOpen /\ plans[Turn.plan] = None

\* Variant: the state moves on and the row of the plan is left to be written.
ApplySubmitUnrecorded(tasksAtCeiling) ==
    /\ pc = "apply" /\ Turn.act = "submit" /\ Submittable
    /\ st' = IF tasksAtCeiling THEN "PAUSED" ELSE "AWAITING_PLAN_APPROVAL"
    /\ dispatchOpen' = ~tasksAtCeiling
    /\ turns' = [turns EXCEPT ![view.turn] = Released(@)]
    /\ seq' = seq + 1 /\ pc' = "leave"
    /\ UNCHANGED <<revisionVars, planVars, permitVars, effectVars, barrier,
                   requests, commandVars, held, view, drafted, started>>

ApplySubmit(tasksAtCeiling) ==
    /\ pc = "apply" /\ Turn.act = "submit" /\ Submittable
    /\ plans' = [plans EXCEPT ![Turn.plan] =
                    [rev |-> view.bind.rev, state |-> "PROPOSED"]]
    /\ st' = IF tasksAtCeiling THEN "PAUSED" ELSE "AWAITING_PLAN_APPROVAL"
    /\ dispatchOpen' = ~tasksAtCeiling
    /\ turns' = [turns EXCEPT ![view.turn] = Released(@)]
    /\ seq' = seq + 1 /\ pc' = "leave"
    /\ UNCHANGED <<revisionVars, plan, planApproval, runRef, permitVars,
                   effectVars, barrier, requests, commandVars, held, view,
                   drafted, started>>

\* A `fail` or an invalid action: only at the ceiling does it pause the Run.
ApplyFailure ==
    LET last == requests >= PlanningCeiling IN
    /\ pc = "apply" /\ Turn.act \in {"fail", "invalid"} /\ MarkerMatches
    /\ st' = IF last THEN "PAUSED" ELSE st
    /\ dispatchOpen' = (dispatchOpen /\ ~last)
    /\ turns' = [turns EXCEPT ![view.turn] = Released(@)]
    /\ seq' = seq + 1
    /\ pc' = IF Turn.act = "fail" \/ last THEN "leave" ELSE "loop"
    /\ UNCHANGED <<revisionVars, planVars, permitVars, effectVars, barrier,
                   requests, commandVars, held, view, drafted, started>>

\* current_for_recovery refuses: the recorded action stays unsettled.
ApplyNotAuthorized == pc = "apply" /\ view.recovered /\ Goto("leave")

ApplyRaises ==
    /\ pc = "apply"
    /\ CASE Turn.act = "read" -> Turn.read \/ ~MarkerMatches
         [] Turn.act = "submit" -> ~Submittable
         [] OTHER -> ~MarkerMatches
    /\ Goto("fault")

-----------------------------------------------------------------------------
(* The runtime: initializing the private ref                               *)

\* runtime_start_binding, then validate_consumed against the start guard.
RefInitBind ==
    /\ pc = "refInit" /\ st = "READY_TO_START"
    /\ runRef.guard # None /\ permits[held].bind = runRef.guard
    /\ view' = [view EXCEPT !.seq = seq] /\ pc' = "refRecord"
    /\ UNCHANGED <<st, seq, dispatchOpen, revisionVars, planVars, permitVars,
                   effectVars, turnVars, commandVars, held, drafted, started>>

\* The guard denies: the target moved, or the private ref exists.
RefInitDenied ==
    /\ pc = "refInit"
    /\ st = "READY_TO_START" /\ runRef.guard # None
    /\ Goto("leave")

RefInitRaises ==
    /\ pc = "refInit"
    /\ st # "READY_TO_START" \/ runRef.guard = None
    /\ Goto("fault")

\* Variant: the start binding is trusted once it has been read.
StartBindingTrusted == runRef.state = "ABSENT_EXPECTED"

StartBindingCurrent ==
    st = "READY_TO_START" /\ seq = view.seq /\ runRef.state = "ABSENT_EXPECTED"

RefRecordIntent ==
    /\ pc = "refRecord" /\ StartBindingCurrent
    /\ runRef' = [runRef EXCEPT !.state = "INIT_INTENT_RECORDED"]
    /\ unsettled' = unsettled \cup {"ref"}
    /\ st' = "ACTIVE" /\ seq' = seq + 1 /\ pc' = "refCas"
    /\ UNCHANGED <<dispatchOpen, revisionVars, plan, plans, planApproval,
                   permitVars, reservation, turnVars, commandVars, held, view,
                   drafted, started>>

RefRecordRaises == pc = "refRecord" /\ ~StartBindingCurrent /\ Goto("fault")

RefAfter == [PRESENT |-> "ACTIVE", CONFLICT |-> "PAUSED",
             ABSENT_EXPECTED |-> "PAUSED", INIT_INTENT_RECORDED |-> "INDETERMINATE"]

\* settle_private_ref_init for each outcome of the ref CAS: initialized,
\* conflict, absent after a failure, unobservable.
RefSettle(outcome) ==
    /\ pc = "refCas"
    /\ runRef.state = "INIT_INTENT_RECORDED"
    /\ runRef' = [runRef EXCEPT !.state = outcome]
    /\ unsettled' = unsettled \ {"ref"}
    /\ st' = IF st = "ACTIVE" THEN RefAfter[outcome] ELSE st
    /\ started' = (outcome = "PRESENT")
    /\ seq' = seq + 1 /\ pc' = IF outcome = "PRESENT" THEN "loop" ELSE "leave"
    /\ UNCHANGED <<dispatchOpen, revisionVars, plan, plans, planApproval,
                   permitVars, reservation, turnVars, commandVars, held, view,
                   drafted>>

-----------------------------------------------------------------------------
(* The runtime: stopping, faults and crashes                               *)

\* The lock is released and the locals of run_until_blocked are gone.
Exit ==
    /\ pc' = "idle" /\ held' = 0 /\ view' = NoView
    /\ drafted' = FALSE /\ started' = FALSE

\* record_runtime_delivery_stop: two events, the owner released with the
\* second.
DeliveryStop ==
    /\ pc = "stop" /\ owner = held /\ barrier # "IN_FLIGHT"
    /\ owner' = 0 /\ seq' = seq + 2
    /\ Exit
    /\ UNCHANGED <<st, dispatchOpen, revisionVars, planVars, permits, progress,
                   effectVars, turnVars, commandVars>>

\* Nothing durable is written: the owner stays.
Vanish ==
    /\ Exit
    /\ UNCHANGED <<st, seq, dispatchOpen, revisionVars, planVars, permitVars,
                   effectVars, turnVars, commandVars>>

\* Variant: the stop waits for the barrier instead.
StopWaits == FALSE

\* The stop refuses a barrier that a dead runtime left in flight, and the
\* error escapes.
StopRaises == pc = "stop" /\ barrier = "IN_FLIGHT" /\ Vanish

RecordFault ==
    /\ pc = "fault" /\ owner = held
    /\ IF barrier = "IN_FLIGHT"
       THEN barrier' = "INDETERMINATE" /\ st' = "INDETERMINATE"
       ELSE UNCHANGED <<barrier, st>>
    /\ dispatchOpen' = FALSE /\ seq' = seq + 1 /\ pc' = "stop"
    /\ UNCHANGED <<revisionVars, planVars, permitVars, effectVars, requests,
                   turns, commandVars, held, view, drafted, started>>

\* Any store call, git call or provider call may raise; so does a write whose
\* expected_sequence lost the race with a command.
Fault(at) == pc = at /\ at \notin {"idle", "stop", "fault"} /\ Goto("fault")

\* The process dies, or the exception is raised while the fault or the stop is
\* being recorded and escapes run_until_blocked.
Die(at) == pc = at /\ at # "idle" /\ Vanish

-----------------------------------------------------------------------------
PCs == {"idle", "entry", "loop", "leave", "reserve", "settle", "planning",
        "reserveModel", "provider", "settleBarrier", "apply", "settleRead",
        "refInit", "refRecord", "refCas", "stop", "fault"}

Acquire == \E g \in DOMAIN permits : Consume(g) \/ InvalidateStalePermit(g)

Drive ==
    \/ EntryDrive \/ EntryResume \/ EntryUnsettled \/ EntryBlocked \/ EntryRecover
    \/ LoopNotAllowed \/ LoopNoBudget \/ LoopDrive \/ TimeExhausted \/ Leave
    \/ ReserveReuse \/ ReserveRecordIntent \/ ReserveLoadIntent
    \/ \E observable \in BOOLEAN : ReservePreIntentStop(observable)
    \/ \E result \in DOMAIN DraftAfter : ReserveSettle(result)
    \/ SettleRaises
    \/ PlanNotAuthorized \/ PlanContextOverflow
    \/ PlanBeginBarrier \/ PlanBarrierRaises
    \/ \E otherCeiling \in BOOLEAN : PlanReserve(otherCeiling)
    \/ PlanReserveDenied \/ PlanReservePaused
    \/ \E act \in PlanningActions, p \in Plans : PlanProviderAnswer(act, p)
    \/ PlanProviderNoAnswer \/ PlanProviderRaises
    \/ PlanSettleBarrier \/ PlanSettleBarrierRaises
    \/ ApplyRead \/ \E overflow \in BOOLEAN : SettleRead(overflow)
    \/ \E tasksAtCeiling \in BOOLEAN : ApplySubmit(tasksAtCeiling)
    \/ ApplyFailure \/ ApplyNotAuthorized \/ ApplyRaises
    \/ RefInitBind \/ RefInitDenied \/ RefInitRaises
    \/ RefRecordIntent \/ RefRecordRaises
    \/ \E outcome \in DOMAIN RefAfter : RefSettle(outcome)
    \/ DeliveryStop \/ StopRaises \/ RecordFault

Command == \E t \in Threads :
              \/ \E cmd \in Commands : Decide(t, cmd)
              \/ \E u \in Threads : Redeliver(t, u)
              \/ Commit(t)

Next == Command \/ Continue \/ Acquire \/ Drive
        \/ \E at \in PCs : Fault(at) \/ Die(at)

Spec == Init /\ [][Next]_vars

\* A runtime that was started keeps running, and the composition that issued a
\* permit calls run_until_blocked until the permit is gone.
FairSpec == Spec /\ WF_vars(Drive) /\ WF_vars(Acquire)

-----------------------------------------------------------------------------
(* Type invariant *)

TypeRun == st \in RunStates /\ seq \in Nat \ {0} /\ dispatchOpen \in BOOLEAN

TypeRevisions ==
    /\ current \in [Classes -> Revisions]
    /\ docs \in [Classes -> [Revisions -> {"ABSENT", "PROPOSED", "CURRENT", "STALE"}]]
    /\ approved \subseteq Classes \X Revisions
    /\ budgetRow \in Revisions \cup {None}
    /\ pending \in [Classes -> Revisions \cup {None}]

TypePlans ==
    /\ plan \in Plans \cup {None}
    /\ plans \in [Plans -> Proposals \cup {None}]
    /\ planApproval \in Plans \cup {None}
    /\ runRef \in [state : {"NONE", "ABSENT_EXPECTED", "INIT_INTENT_RECORDED",
                            "PRESENT", "CONFLICT"},
                   guard : Bindings \cup {None}]

TypePermits == permits \in Seq(Permits) /\ owner \in Nat /\ progress \in Nat

TypeEffects ==
    /\ reservation \in [phase : {"ALLOCATED", "CREATION_INTENT_RECORDED",
                                 "REGISTERED_LOCKED"},
                        bind : Bindings \cup {None}]
    /\ unsettled \subseteq {"reservation", "read", "ref"}

TypeTurns ==
    /\ barrier \in {"IDLE", "IN_FLIGHT", "SETTLED", "INDETERMINATE"}
    /\ requests \in Nat /\ turns \in Seq(Turns)

TypeCommands ==
    /\ sent \in Nat /\ claims \subseteq Nat
    /\ handler \in [Threads -> Decisions \cup {None}]

TypeRuntime ==
    /\ pc \in PCs /\ held \in Nat
    /\ view \in [bind : Bindings \cup {None}, seq : Nat, turn : Nat,
                 recovered : BOOLEAN]
    /\ drafted \in BOOLEAN /\ started \in BOOLEAN

TypeOK ==
    /\ TypeRun /\ TypeRevisions /\ TypePlans /\ TypePermits
    /\ TypeEffects /\ TypeTurns /\ TypeCommands /\ TypeRuntime

-----------------------------------------------------------------------------
(* Safety *)

\* "At most one permit may be unconsumed for a Run" (SPEC 4.1), and none is
\* minted while a runtime, live or dead, still owns the Run: commands that
\* race with each other and with the runtime never hand out a second delivery.
OneDelivery ==
    /\ \A g, h \in Unconsumed : g = h
    /\ Unconsumed # {} => owner = 0

\* A runtime that is alive owns the Run durably, by the permit it consumed; no
\* command and no other delivery takes the Run away from it.
LiveRuntimeOwns ==
    pc # "idle" =>
        owner = held /\ held \in DOMAIN permits /\ permits[held].state = "CONSUMED"

\* A request, however often it is delivered, mints at most one permit.
OnePermitPerRequest ==
    \A g, h \in DOMAIN permits : permits[g].id = permits[h].id => g = h

\* The permit of a begin or a start that waits to be consumed is consumable:
\* every command that changes what it was issued under withdraws it (also when
\* a later command changes it back).  A begin permit is under approved
\* revisions only.
OutstandingIsCurrent ==
    \A g \in Unconsumed :
        /\ permits[g].source \in {"begin", "start"} => PermitCurrent(permits[g])
        /\ permits[g].source = "begin" => CurrentApproved

\* The document marked CURRENT is the one the Run points to, for every class.
CurrentDocument ==
    \A c \in Classes, r \in Revisions : docs[c][r] = "CURRENT" <=> r = current[c]

\* A Run plans, or goes further, only with its worktree registered and locked.
ReservedBeforePlanning ==
    st \in {"PLANNING", "AWAITING_PLAN_APPROVAL", "READY_TO_START", "ACTIVE"} => Target

\* After any crash the journal still knows the effect that a row says is under
\* way, or the Run is INDETERMINATE; no settled row has an intent left over.
EffectsJournaled ==
    /\ "ref" \in unsettled => runRef.state = "INIT_INTENT_RECORDED"
    /\ runRef.state = "INIT_INTENT_RECORDED" =>
            "ref" \in unsettled \/ st = "INDETERMINATE"
    /\ "reservation" \in unsettled => reservation.phase = "CREATION_INTENT_RECORDED"
    /\ reservation.phase = "CREATION_INTENT_RECORDED" =>
            "reservation" \in unsettled \/ st = "INDETERMINATE"

\* A Run that awaits the approval of a plan has one to approve under the
\* current revisions, and one that may start has it approved under them.
PlanBinding ==
    /\ st = "AWAITING_PLAN_APPROVAL" =>
            \E p \in Plans : plans[p] = [rev |-> current, state |-> "PROPOSED"]
    /\ st = "READY_TO_START" =>
            /\ plan # None /\ planApproval = plan
            /\ plans[plan] = [rev |-> current, state |-> "APPROVED"]

\* A Run is ACTIVE only under its approved plan, although commands may come
\* between the reading of the start binding and the transaction that uses it.
ActiveUnderApprovedPlan ==
    st = "ACTIVE" =>
        /\ plan # None /\ planApproval = plan /\ plans[plan].state = "APPROVED"
        /\ runRef.state \in {"INIT_INTENT_RECORDED", "PRESENT"}

\* Once the Run executes it never goes back to the phases before activation,
\* and its Policy stays the one it was activated under.
PolicyFrozen ==
    [][(st \in ExecutionRevisionStates) =>
         /\ st' \in ExecutionRevisionStates
         /\ \A c \in Classes \cap {"POLICY"} : current'[c] = current[c]]_vars

\* A Run whose provider call has an unknown outcome stays INDETERMINATE,
\* whatever committed turns a later delivery recovers.
UncertainCallSticks ==
    [][barrier = "INDETERMINATE" => st = "INDETERMINATE" /\ st' = st]_vars

-----------------------------------------------------------------------------
(* The permits of a Run implement the delivery of RunDelivery *)

Slot == IF owner # 0 THEN IF pc = "idle" THEN "orphaned" ELSE "running"
        ELSE IF Unconsumed # {} THEN "pending" ELSE "none"

Delivery == INSTANCE RunDelivery WITH
                slot      <- Slot,
                granted   <- Len(permits),
                delivered <- {g \in DOMAIN permits : permits[g].state = "CONSUMED"}

\* Commands, runtimes, crashes and continues together keep the promise of
\* RunDelivery: one generation at a time, each delivered at most once, none
\* taken from a runtime that is alive, from whichever moment one looks on.
ImplementsDelivery == Delivery!Rest

\* Permits in order: one outcome for a request however often it is delivered,
\* and no permit left that a proposal or another command has made stale.
PermitsInOrder == OnePermitPerRequest /\ OutstandingIsCurrent

\* The rows of the reservation and of the private ref agree with the journal
\* of effects after any crash, and no Run plans without its worktree.
EffectsAccounted == ReservedBeforePlanning /\ EffectsJournaled

\* From the submission of a plan to its execution, what a Run is bound to is
\* one plan, proposed and approved under the revisions that are current.
PlanApproved == PlanBinding /\ ActiveUnderApprovedPlan

-----------------------------------------------------------------------------
(* Liveness *)

\* A delivery ends: the loop over the phases makes progress or stops.
DeliveryEnds == pc # "idle" ~> pc = "idle"

\* A permit does not stay outstanding.
PermitIsUsed == Unconsumed # {} ~> Unconsumed = {}

\* The loop and the permits together: whatever a dead runtime left, the next
\* delivery ends and the permit that asked for it is used or withdrawn.
Progress == DeliveryEnds /\ PermitIsUsed

-----------------------------------------------------------------------------
(* What the documents say and the code does not do *)

\* SPEC 6.1: "Exact begin-planning command passes approved bootstrap and
\* pinned-target guards | PLANNING": a Run plans under approved revisions only.
PlanningIsApproved == st = "PLANNING" => CurrentApproved

\* SPEC 6.1: "Coordinator submits a valid bounded Plan proposal under current
\* bindings | AWAITING_PLAN_APPROVAL".
ValidPlanAccepted ==
    ( /\ pc = "apply" /\ Turn.act = "submit"
      /\ st = "PLANNING" /\ dispatchOpen
      /\ Turn.bind = Current /\ Turn.bind.rev["BUDGET"] = budgetRow
      /\ plans[Turn.plan] = None
      /\ ~view.recovered ) => Submittable

\* SPEC 6.1: "Human approves the exact Plan and every proposal binding remains
\* current | READY_TO_START".
PlanApprovalTakesEffect ==
    \A t \in Threads :
        ( /\ handler[t] # None /\ InTime(handler[t])
          /\ handler[t].verdict = "ACCEPT"
          /\ handler[t].cmd.kind = "approvePlan" ) => ~Raises(handler[t])

=============================================================================
