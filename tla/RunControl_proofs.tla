-------------------------- MODULE RunControl_proofs --------------------------
(***************************************************************************)
(* Theorems about RunControl for every set of classes, revisions, plans and *)
(* threads, any number of requests and any planning ceiling.                *)
(*                                                                         *)
(* The first inductive invariant, Inv, is TypeOK together with              *)
(*   ViewInv        what the live runtime holds is usable where it is used, *)
(*   LiveRuntimeOwns  the live runtime is the durable owner,                *)
(*   OnlyLatest     an unconsumed permit is the latest one, and nobody owns *)
(*                  the Run while there is one.                             *)
(* The parts need each other: what a step of the runtime writes is typed    *)
(* because of the permit it holds, and the permit it holds stays consumed   *)
(* because nobody else takes the Run.                                       *)
(*                                                                         *)
(* The second, RowsInv, adds what the rows of the Run promise each other:   *)
(*   DecisionInv    a command whose expected sequence is the current one    *)
(*                  was decided on the rows as they are now,                *)
(*   PhaseInv       the states the Run can be in at each place of the       *)
(*                  runtime,                                                *)
(*   DocumentsInv, EffectsInv, PlanApproved, PermitsInv.                    *)
(* They rest on one another in that order: a proposal or an approval is     *)
(* harmless because it commits what it decided, and the places of the       *)
(* runtime bound the states because commands are.                           *)
(***************************************************************************)
EXTENDS RunControl, SequenceTheorems, OrderFacts, TLAPS

(* The auxiliary invariants *)

ViewInv ==
    /\ view.turn \in 0 .. Len(turns)
    /\ pc = "apply" => view.turn # 0
    /\ pc \in {"reserveModel", "provider", "settleBarrier", "apply"} =>
            view.bind \in Bindings

OnlyLatest ==
    /\ Unconsumed \subseteq {Len(permits)}
    /\ Unconsumed # {} => owner = 0

Inv == TypeOK /\ ViewInv /\ LiveRuntimeOwns /\ OnlyLatest

-----------------------------------------------------------------------------
(* What typed values contain *)

LEMMA CurrentType == TypeRevisions /\ TypePlans => Current \in Bindings
BY DEF TypeRevisions, TypePlans, Current, Bindings

LEMMA PermitsType ==
    ASSUME TypePermits
    PROVE  /\ DOMAIN permits = 1 .. Len(permits) /\ Len(permits) \in Nat
           /\ \A g \in DOMAIN permits : permits[g] \in Permits
BY DEF TypePermits

LEMMA TurnsType ==
    ASSUME TypeTurns
    PROVE  /\ DOMAIN turns = 1 .. Len(turns) /\ Len(turns) \in Nat
           /\ \A i \in DOMAIN turns : turns[i] \in Turns
BY DEF TypeTurns

LEMMA OldestType ==
    ASSUME TypeTurns, NEW S, S \subseteq DOMAIN turns, S # {}
    PROVE  Oldest(S) \in S
<1>1. S \in SUBSET Nat
  BY TurnsType
<1>2. \E i \in S : \A j \in S : i <= j
  BY <1>1, SmallestElement
<1> QED
  BY <1>2 DEF Oldest

LEMMA HandlerType ==
    ASSUME TypeCommands, NEW t \in Threads, handler[t] # None
    PROVE  LET h == handler[t] IN
           /\ h.id \in Nat /\ h.exp \in Nat /\ h.cmd \in Commands
           /\ h.state \in RunStates /\ h.bind \in Bindings
           /\ h.cmd.kind \in {"propose", "approve"} =>
                  h.cmd.class \in Classes /\ h.cmd.rev \in Revisions
           /\ h.cmd.kind = "approvePlan" => h.cmd.plan \in Plans
<1>1. handler[t] \in Decisions
  BY DEF TypeCommands
<1>2. handler[t].cmd \in Commands
  BY <1>1 DEF Decisions
<1> QED
  BY <1>1, <1>2 DEF Decisions, Commands

-----------------------------------------------------------------------------
(* What the building blocks of the actions preserve *)

LEMMA WithStateType ==
    ASSUME NEW gens, NEW s \in {"UNCONSUMED", "CONSUMED", "INVALIDATED"},
           TypePermits
    PROVE  /\ WithState(gens, s) \in Seq(Permits)
           /\ Len(WithState(gens, s)) = Len(permits)
           /\ DOMAIN WithState(gens, s) = DOMAIN permits
<1>1. \A g \in DOMAIN permits : [permits[g] EXCEPT !.state = s] \in Permits
  BY PermitsType DEF Permits
<1>2. WithState(gens, s) \in [1 .. Len(permits) -> Permits]
  BY <1>1, PermitsType DEF WithState
<1>3. WithState(gens, s) \in Seq(Permits)
  BY <1>2, PermitsType, IsASeq
<1>4. DOMAIN WithState(gens, s) = 1 .. Len(permits)
  BY <1>2
<1> QED
  BY <1>3, <1>4, PermitsType, LenProperties

LEMMA MintedType ==
    ASSUME NEW id \in Nat, NEW source \in {"begin", "start", "continue"},
           NEW phase \in RuntimeAllowedPhase,
           TypeRevisions, TypePlans, TypePermits
    PROVE  Minted(id, source, phase) \in Permits
BY CurrentType DEF Minted, Permits, TypePermits, Target

LEMMA Frame ==
    /\ TypeRun /\ UNCHANGED <<st, seq, dispatchOpen>> => TypeRun'
    /\ TypeRevisions /\ UNCHANGED revisionVars => TypeRevisions'
    /\ TypePlans /\ UNCHANGED planVars => TypePlans'
    /\ TypePermits /\ UNCHANGED permitVars => TypePermits'
    /\ TypeEffects /\ UNCHANGED effectVars => TypeEffects'
    /\ TypeTurns /\ UNCHANGED turnVars => TypeTurns'
    /\ TypeCommands /\ UNCHANGED commandVars => TypeCommands'
    /\ TypeRuntime /\ UNCHANGED runtimeVars => TypeRuntime'
BY DEF TypeRun, TypeRevisions, TypePlans, TypePermits, TypeEffects, TypeTurns,
       TypeCommands, TypeRuntime, revisionVars, planVars, permitVars, effectVars,
       turnVars, commandVars, runtimeVars

LEMMA GotoType ==
    ASSUME TypeOK, NEW to \in PCs, Goto(to)
    PROVE  TypeOK'
<1>1. TypeRuntime'
  BY DEF TypeOK, TypeRuntime, Goto
<1> QED
  BY <1>1, Frame DEF TypeOK, Goto

LEMMA ExitType ==
    ASSUME Exit
    PROVE  TypeRuntime'
BY DEF Exit, TypeRuntime, NoView, PCs

LEMMA VanishType ==
    ASSUME TypeOK, Vanish
    PROVE  TypeOK'
BY ExitType, Frame DEF TypeOK, Vanish

LEMMA RecordType ==
    ASSUME TypeOK, NEW t \in Threads, handler[t] # None, Record(t)
    PROVE  TypeCommands' /\ TypeRuntime' /\ seq' \in Nat \ {0}
<1>1. TypeCommands'
  BY HandlerType DEF TypeOK, TypeCommands, Record
<1>2. TypeRuntime'
  BY Frame DEF TypeOK, Record
<1>3. seq' \in Nat \ {0}
  BY DEF TypeOK, TypeRun, Record
<1> QED
  BY <1>1, <1>2, <1>3

LEMMA ReleasedType ==
    ASSUME NEW turn \in Turns
    PROVE  /\ Released(turn) \in Turns
           /\ [Released(turn) EXCEPT !.read = TRUE] \in Turns
BY DEF Released, Turns

-----------------------------------------------------------------------------
(* Type correctness, one lemma for each family of actions *)

LEMMA DecideType ==
    ASSUME TypeOK, NEW t \in Threads
    PROVE  /\ \A cmd \in Commands : Decide(t, cmd) => TypeOK'
           /\ \A u \in Threads : Redeliver(t, u) => TypeOK'
<1>1. ASSUME NEW cmd \in Commands, Decide(t, cmd) PROVE TypeOK'
  <2>1. Verdict(cmd) \in {"ACCEPT", "REJECT", "CLAIM"}
    BY DEF Verdict
  <2>2. Decision(sent + 1, cmd, Verdict(cmd)) \in Decisions
    BY <2>1, CurrentType
    DEF TypeOK, TypeRun, TypeCommands, Decision, Decisions, Target
  <2>3. TypeCommands'
    BY <1>1, <2>2 DEF TypeOK, TypeCommands, Decide
  <2> QED
    BY <1>1, <2>3, Frame DEF TypeOK, Decide
<1>2. ASSUME NEW u \in Threads, Redeliver(t, u) PROVE TypeOK'
  <2>1. TypeCommands'
    BY <1>2 DEF TypeOK, TypeCommands, Redeliver
  <2> QED
    BY <1>2, <2>1, Frame DEF TypeOK, Redeliver
<1> QED
  BY <1>1, <1>2

LEMMA UnacceptedType ==
    ASSUME TypeOK, NEW t \in Threads,
           CommitUnsequenced(t) \/ CommitRejection(t)
           \/ CommitProposeUnchanged(t) \/ BeginConflict(t) \/ CommitRaises(t)
    PROVE  TypeOK'
<1>1. CASE CommitUnsequenced(t)
  <2>1. TypeCommands'
    BY <1>1, HandlerType DEF TypeOK, TypeCommands, CommitUnsequenced
  <2> QED
    BY <1>1, <2>1, Frame DEF TypeOK, CommitUnsequenced
<1>2. CASE CommitRejection(t)
  <2>1. TypeCommands' /\ TypeRuntime' /\ seq' \in Nat \ {0}
    BY <1>2, RecordType DEF CommitRejection
  <2>2. TypeRun'
    BY <1>2, <2>1 DEF TypeOK, TypeRun, CommitRejection
  <2> QED
    BY <1>2, <2>1, <2>2, Frame DEF TypeOK, CommitRejection
<1>3. CASE CommitProposeUnchanged(t)
  <2>1. TypeCommands' /\ TypeRuntime' /\ seq' \in Nat \ {0}
    BY <1>3, RecordType DEF CommitProposeUnchanged, Accepting
  <2>2. TypeRun'
    BY <1>3, <2>1 DEF TypeOK, TypeRun, CommitProposeUnchanged
  <2> QED
    BY <1>3, <2>1, <2>2, Frame DEF TypeOK, CommitProposeUnchanged
<1>4. CASE BeginConflict(t)
  <2>1. handler[t] \in Decisions
    BY <1>4 DEF TypeOK, TypeCommands, BeginConflict, Accepting
  <2>2. [handler[t] EXCEPT !.verdict = "REJECT"] \in Decisions
    BY <2>1 DEF Decisions
  <2>3. TypeCommands'
    BY <1>4, <2>2 DEF TypeOK, TypeCommands, BeginConflict
  <2> QED
    BY <1>4, <2>3, Frame DEF TypeOK, BeginConflict
<1>5. CASE CommitRaises(t)
  <2>1. TypeCommands'
    BY <1>5 DEF TypeOK, TypeCommands, CommitRaises
  <2> QED
    BY <1>5, <2>1, Frame DEF TypeOK, CommitRaises
<1> QED
  BY <1>1, <1>2, <1>3, <1>4, <1>5

LEMMA ProposeType ==
    ASSUME TypeOK, NEW t \in Threads,
           CommitProposeBootstrap(t) \/ CommitProposeExecution(t)
    PROVE  TypeOK'
<1>1. handler[t] # None /\ handler[t].cmd.class \in Classes
      /\ handler[t].cmd.rev \in Revisions
  BY HandlerType
  DEF TypeOK, CommitProposeBootstrap, CommitProposeExecution, Accepting
<1>2. TypeCommands' /\ TypeRuntime' /\ seq' \in Nat \ {0}
  BY <1>1, RecordType DEF CommitProposeBootstrap, CommitProposeExecution
<1>3. CASE CommitProposeBootstrap(t)
  <2>1. Superseded(handler[t].cmd.class, handler[t].cmd.rev)
          \in [Classes -> [Revisions -> {"ABSENT", "PROPOSED", "CURRENT", "STALE"}]]
    BY <1>1 DEF TypeOK, TypeRevisions, Superseded
  <2>2. TypeRevisions'
    BY <1>1, <1>3, <2>1 DEF TypeOK, TypeRevisions, CommitProposeBootstrap
  <2>3. TypePlans'
    BY <1>3 DEF TypeOK, TypePlans, CommitProposeBootstrap
  <2>4. TypePermits'
    BY <1>3, WithStateType
    DEF TypeOK, TypePermits, CommitProposeBootstrap, Withdrawn
  <2>5. TypeRun'
    BY <1>2, <1>3
    DEF TypeOK, TypeRun, RunStates, CommitProposeBootstrap, ProposalPhase
  <2> QED
    BY <1>2, <1>3, <2>2, <2>3, <2>4, <2>5, Frame
    DEF TypeOK, CommitProposeBootstrap
<1>4. CASE CommitProposeExecution(t)
  <2>1. TypeRevisions'
    BY <1>1, <1>4 DEF TypeOK, TypeRevisions, CommitProposeExecution
  <2>2. TypeRun'
    BY <1>2, <1>4 DEF TypeOK, TypeRun, CommitProposeExecution
  <2> QED
    BY <1>2, <1>4, <2>1, <2>2, Frame DEF TypeOK, CommitProposeExecution
<1> QED
  BY <1>3, <1>4

LEMMA ApproveType ==
    ASSUME TypeOK, NEW t \in Threads, NEW inFlight \in BOOLEAN,
           CommitApprove(t, inFlight)
    PROVE  TypeOK'
<1> DEFINE class == handler[t].cmd.class
           rev == handler[t].cmd.rev
<1>1. handler[t] # None /\ class \in Classes /\ rev \in Revisions
  BY HandlerType DEF TypeOK, CommitApprove, Accepting
<1>2. TypeCommands' /\ TypeRuntime' /\ seq' \in Nat \ {0}
  BY <1>1, RecordType DEF CommitApprove
<1>3. approved' \subseteq Classes \X Revisions
  BY <1>1 DEF TypeOK, TypeRevisions, CommitApprove
<1>4. CASE pending' = [pending EXCEPT ![class] = rev] /\ dispatchOpen' = FALSE
           /\ UNCHANGED <<docs, current, budgetRow>>
  <2>1. TypeRevisions'
    BY <1>1, <1>3, <1>4 DEF TypeOK, TypeRevisions
  <2>2. TypeRun'
    BY <1>2, <1>4 DEF TypeOK, TypeRun, CommitApprove
  <2> QED
    BY <1>2, <2>1, <2>2, Frame DEF TypeOK, CommitApprove
<1>5. CASE /\ pending' = [pending EXCEPT ![class] = None]
           /\ docs' = [docs EXCEPT ![class] = [r \in Revisions |->
                          IF r = rev THEN "CURRENT"
                          ELSE IF @[r] = "CURRENT" THEN "STALE" ELSE @[r]]]
           /\ current' = [current EXCEPT ![class] = rev]
           /\ budgetRow' = IF class = "BUDGET" THEN rev ELSE budgetRow
           /\ UNCHANGED dispatchOpen
  <2>1. docs' \in [Classes -> [Revisions -> {"ABSENT", "PROPOSED", "CURRENT", "STALE"}]]
    BY <1>1, <1>5 DEF TypeOK, TypeRevisions
  <2>2. TypeRevisions'
    BY <1>1, <1>3, <1>5, <2>1 DEF TypeOK, TypeRevisions
  <2>3. TypeRun'
    BY <1>2, <1>5 DEF TypeOK, TypeRun, CommitApprove
  <2> QED
    BY <1>2, <2>2, <2>3, Frame DEF TypeOK, CommitApprove
<1> QED
  BY <1>4, <1>5 DEF CommitApprove

LEMMA IssueType ==
    ASSUME TypeOK, NEW id \in Nat, NEW source \in {"begin", "start", "continue"},
           NEW phase \in RuntimeAllowedPhase, Issue(id, source, phase)
    PROVE  permits' \in Seq(Permits)
BY MintedType DEF TypeOK, TypePermits, Issue

LEMMA IssuingType ==
    ASSUME TypeOK, NEW t \in Threads,
           CommitBegin(t) \/ CommitStart(t) \/ CommitApprovePlan(t)
    PROVE  TypeOK'
<1>1. CASE CommitBegin(t)
  <2>1. handler[t] # None /\ handler[t].id \in Nat
    BY <1>1, HandlerType DEF TypeOK, CommitBegin, Accepting
  <2>2. TypeCommands' /\ TypeRuntime' /\ seq' \in Nat \ {0}
    BY <1>1, <2>1, RecordType DEF CommitBegin
  <2>3. TypePermits'
    BY <1>1, <2>1, IssueType
    DEF TypeOK, TypePermits, CommitBegin, RuntimeAllowedPhase, RunStates
  <2>4. TypeRun'
    BY <1>1, <2>2 DEF TypeOK, TypeRun, CommitBegin
  <2> QED
    BY <1>1, <2>2, <2>3, <2>4, Frame DEF TypeOK, CommitBegin
<1>2. CASE CommitStart(t)
  <2>1. handler[t] # None /\ handler[t].id \in Nat /\ handler[t].bind \in Bindings
    BY <1>2, HandlerType DEF TypeOK, CommitStart, Accepting
  <2>2. TypeCommands' /\ TypeRuntime' /\ seq' \in Nat \ {0}
    BY <1>2, <2>1, RecordType DEF CommitStart
  <2>3. TypePermits'
    BY <1>2, <2>1, IssueType
    DEF TypeOK, TypePermits, CommitStart, RuntimeAllowedPhase, RunStates
  <2>4. TypePlans'
    BY <1>2, <2>1 DEF TypeOK, TypePlans, CommitStart
  <2>5. TypeRun'
    BY <1>2, <2>2 DEF TypeOK, TypeRun, CommitStart
  <2> QED
    BY <1>2, <2>2, <2>3, <2>4, <2>5, Frame DEF TypeOK, CommitStart
<1>3. CASE CommitApprovePlan(t)
  <2>1. handler[t] # None /\ handler[t].cmd.plan \in Plans
    BY <1>3, HandlerType DEF TypeOK, CommitApprovePlan, Accepting
  <2>2. TypeCommands' /\ TypeRuntime' /\ seq' \in Nat \ {0}
    BY <1>3, <2>1, RecordType DEF CommitApprovePlan
  <2>3. [plans[handler[t].cmd.plan] EXCEPT !.state = "APPROVED"] \in Proposals
    <3>1. plans[handler[t].cmd.plan] \in Proposals
      BY <1>3, <2>1 DEF TypeOK, TypePlans, CommitApprovePlan, PlanApprovable
    <3> QED
      BY <3>1 DEF Proposals
  <2>4. plans' \in [Plans -> Proposals \cup {None}]
    BY <1>3, <2>1, <2>3 DEF TypeOK, TypePlans, CommitApprovePlan
  <2>5. TypePlans'
    BY <1>3, <2>1, <2>4 DEF TypeOK, TypePlans, CommitApprovePlan
  <2>6. TypeRun'
    BY <1>3, <2>2 DEF TypeOK, TypeRun, RunStates, CommitApprovePlan
  <2> QED
    BY <1>3, <2>2, <2>5, <2>6, Frame DEF TypeOK, CommitApprovePlan
<1> QED
  BY <1>1, <1>2, <1>3

LEMMA ContinueType ==
    ASSUME TypeOK, Continue
    PROVE  TypeOK'
<1>1. TypePermits'
  BY IssueType DEF TypeOK, TypePermits, TypeCommands, Continue
<1>2. TypeCommands'
  BY DEF TypeOK, TypeCommands, Continue
<1>3. TypeRun'
  BY DEF TypeOK, TypeRun, Continue
<1> QED
  BY <1>1, <1>2, <1>3, Frame DEF TypeOK, Continue

LEMMA AcquireType ==
    ASSUME TypeOK, NEW g \in DOMAIN permits,
           Consume(g) \/ InvalidateStalePermit(g)
    PROVE  TypeOK'
<1>1. g \in Nat
  BY PermitsType DEF TypeOK
<1>2. CASE Consume(g)
  <2>1. TypePermits'
    BY <1>1, <1>2, WithStateType DEF TypeOK, TypePermits, Consume
  <2>2. TypeRuntime'
    BY <1>1, <1>2 DEF TypeOK, TypeRuntime, Consume, PCs
  <2>3. TypeRun'
    BY <1>2 DEF TypeOK, TypeRun, Consume
  <2> QED
    BY <1>2, <2>1, <2>2, <2>3, Frame DEF TypeOK, Consume
<1>3. CASE InvalidateStalePermit(g)
  <2>1. TypePermits'
    BY <1>3, WithStateType DEF TypeOK, TypePermits, InvalidateStalePermit
  <2>2. TypeRun'
    BY <1>3 DEF TypeOK, TypeRun, InvalidateStalePermit
  <2> QED
    BY <1>3, <2>1, <2>2, Frame DEF TypeOK, InvalidateStalePermit
<1> QED
  BY <1>2, <1>3

LEMMA EntryType ==
    ASSUME TypeOK,
           EntryDrive \/ EntryResume \/ EntryUnsettled \/ EntryBlocked \/ EntryRecover
    PROVE  TypeOK'
<1>1. \A s : TurnsIn(s) \subseteq DOMAIN turns
  BY DEF TurnsIn
<1>2. Current \in Bindings
  BY CurrentType DEF TypeOK
<1>3. ASSUME NEW i \in DOMAIN turns, Reopening(i)
      PROVE  view' \in [bind : Bindings \cup {None}, seq : Nat, turn : Nat,
                        recovered : BOOLEAN]
  <2>1. i \in Nat
    BY TurnsType DEF TypeOK
  <2>2. view \in [bind : Bindings \cup {None}, seq : Nat, turn : Nat,
                  recovered : BOOLEAN]
    BY DEF TypeOK, TypeRuntime
  <2>3. view' = [view EXCEPT !.bind = Current, !.turn = i, !.recovered = TRUE]
    BY <1>3 DEF Reopening
  <2> QED
    BY <1>2, <2>1, <2>2, <2>3
<1>4. CASE EntryDrive \/ EntryUnsettled \/ EntryBlocked
  BY <1>4, GotoType DEF EntryDrive, EntryUnsettled, EntryBlocked, PCs
<1>5. CASE EntryResume
  <2> DEFINE i == Oldest(TurnsIn("DOWNSTREAM_INTENT_RECORDED"))
  <2>1. i \in DOMAIN turns
    BY <1>1, <1>5, OldestType DEF TypeOK, EntryResume
  <2>2. TypeRuntime'
    BY <1>3, <1>5, <2>1 DEF TypeOK, TypeRuntime, EntryResume, PCs
  <2> QED
    BY <1>5, <2>2, Frame DEF TypeOK, EntryResume
<1>6. CASE EntryRecover
  <2> DEFINE i == Oldest(TurnsIn("COMPLETION_COMMITTED"))
  <2>1. i \in DOMAIN turns
    BY <1>1, <1>6, OldestType DEF TypeOK, EntryRecover, RecoverableTurn
  <2>2. [turns[i] EXCEPT !.state = "DOWNSTREAM_INTENT_RECORDED"] \in Turns
    BY <2>1, TurnsType DEF TypeOK, Turns
  <2>3. turns' = [turns EXCEPT ![i] =
                     [turns[i] EXCEPT !.state = "DOWNSTREAM_INTENT_RECORDED"]]
    BY <1>6, <2>1 DEF EntryRecover
  <2>4. TypeTurns'
    BY <1>6, <2>1, <2>2, <2>3, ExceptSeq DEF TypeOK, TypeTurns, EntryRecover
  <2>5. TypeRuntime'
    BY <1>3, <1>6, <2>1 DEF TypeOK, TypeRuntime, EntryRecover, PCs
  <2>6. TypeRun'
    BY <1>6 DEF TypeOK, TypeRun, EntryRecover
  <2> QED
    BY <1>6, <2>4, <2>5, <2>6, Frame DEF TypeOK, EntryRecover
<1> QED
  BY <1>4, <1>5, <1>6

LEMMA LoopType ==
    ASSUME TypeOK,
           LoopNotAllowed \/ LoopNoBudget \/ LoopDrive \/ TimeExhausted \/ Leave
    PROVE  TypeOK'
<1>1. Driver \in PCs
  BY DEF Driver, PCs
<1>2. CASE LoopNotAllowed \/ LoopNoBudget \/ LoopDrive \/ Leave
  BY <1>1, <1>2, GotoType DEF LoopNotAllowed, LoopNoBudget, LoopDrive, Leave, PCs
<1>3. CASE TimeExhausted
  <2>1. TypeRun'
    <3>1. dispatchOpen' \in BOOLEAN
      BY <1>3 DEF TimeExhausted
    <3> QED
      BY <1>3, <3>1 DEF TypeOK, TypeRun, TimeExhausted
  <2>2. TypeRuntime'
    BY <1>3 DEF TypeOK, TypeRuntime, TimeExhausted, PCs
  <2> QED
    BY <1>3, <2>1, <2>2, Frame DEF TypeOK, TimeExhausted
<1> QED
  BY <1>2, <1>3

LEMMA ReserveType ==
    ASSUME TypeOK, LiveRuntimeOwns,
           \/ ReserveReuse \/ ReserveRecordIntent \/ ReserveLoadIntent
           \/ \E observable \in BOOLEAN : ReservePreIntentStop(observable)
           \/ \E result \in DOMAIN DraftAfter : ReserveSettle(result)
           \/ SettleRaises
    PROVE  TypeOK'
<1>1. CASE ReserveReuse
  <2>1. TypeRun'
    BY <1>1 DEF TypeOK, TypeRun, RunStates, ReserveReuse
  <2>2. TypeRuntime'
    BY <1>1 DEF TypeOK, TypeRuntime, ReserveReuse, PCs
  <2> QED
    BY <1>1, <2>1, <2>2, Frame DEF TypeOK, ReserveReuse
<1>2. CASE ReserveRecordIntent
  <2>1. permits[held].bind \in Bindings
    BY <1>2, PermitsType DEF TypeOK, Permits, LiveRuntimeOwns, ReserveRecordIntent
  <2>2. TypeEffects'
    BY <1>2, <2>1 DEF TypeOK, TypeEffects, ReserveRecordIntent
  <2>3. TypeRun'
    BY <1>2 DEF TypeOK, TypeRun, ReserveRecordIntent
  <2>4. TypeRuntime'
    BY <1>2 DEF TypeOK, TypeRuntime, ReserveRecordIntent, PCs
  <2> QED
    BY <1>2, <2>2, <2>3, <2>4, Frame DEF TypeOK, ReserveRecordIntent
<1>3. CASE ReserveLoadIntent \/ SettleRaises
  BY <1>3, GotoType DEF ReserveLoadIntent, SettleRaises, PCs
<1>4. ASSUME NEW observable \in BOOLEAN, ReservePreIntentStop(observable)
      PROVE  TypeOK'
  <2>1. TypeRun'
    BY <1>4 DEF TypeOK, TypeRun, RunStates, ReservePreIntentStop
  <2>2. TypeRuntime'
    BY <1>4 DEF TypeOK, TypeRuntime, ReservePreIntentStop, PCs
  <2> QED
    BY <1>4, <2>1, <2>2, Frame DEF TypeOK, ReservePreIntentStop
<1>5. ASSUME NEW result \in DOMAIN DraftAfter, ReserveSettle(result)
      PROVE  TypeOK'
  <2>1. DraftAfter[result] \in RunStates
    BY DEF DraftAfter, RunStates
  <2>2. TypeRun'
    BY <1>5, <2>1 DEF TypeOK, TypeRun, ReserveSettle
  <2>3. TypeEffects'
    BY <1>5 DEF TypeOK, TypeEffects, ReserveSettle
  <2>4. TypeRuntime'
    BY <1>5 DEF TypeOK, TypeRuntime, ReserveSettle, PCs
  <2> QED
    BY <1>5, <2>2, <2>3, <2>4, Frame DEF TypeOK, ReserveSettle
<1> QED
  BY <1>1, <1>2, <1>3, <1>4, <1>5

LEMMA PlanningType ==
    ASSUME TypeOK, ViewInv,
           \/ PlanNotAuthorized \/ PlanContextOverflow
           \/ PlanBeginBarrier \/ PlanBarrierRaises
           \/ \E otherCeiling \in BOOLEAN : PlanReserve(otherCeiling)
           \/ PlanReserveDenied \/ PlanReservePaused
           \/ \E act \in PlanningActions, p \in Plans : PlanProviderAnswer(act, p)
           \/ PlanProviderNoAnswer \/ PlanProviderRaises
           \/ PlanSettleBarrier \/ PlanSettleBarrierRaises
    PROVE  TypeOK'
<1>1. CASE PlanNotAuthorized \/ PlanBarrierRaises \/ PlanReserveDenied
           \/ PlanProviderRaises \/ PlanSettleBarrierRaises
  BY <1>1, GotoType
  DEF PlanNotAuthorized, PlanBarrierRaises, PlanReserveDenied,
      PlanProviderRaises, PlanSettleBarrierRaises, PCs
<1>2. CASE PlanContextOverflow
  <2>1. TypeRun'
    BY <1>2 DEF TypeOK, TypeRun, RunStates, PlanContextOverflow
  <2>2. TypeRuntime'
    BY <1>2 DEF TypeOK, TypeRuntime, PlanContextOverflow, PCs
  <2> QED
    BY <1>2, <2>1, <2>2, Frame DEF TypeOK, PlanContextOverflow
<1>3. CASE PlanBeginBarrier
  <2>1. TypeRun'
    BY <1>3 DEF TypeOK, TypeRun, PlanBeginBarrier
  <2>2. TypeTurns'
    BY <1>3 DEF TypeOK, TypeTurns, PlanBeginBarrier
  <2>3. Current \in Bindings
    BY CurrentType DEF TypeOK
  <2>4. TypeRuntime'
    BY <1>3, <2>3 DEF TypeOK, TypeRuntime, PlanBeginBarrier, PCs
  <2> QED
    BY <1>3, <2>1, <2>2, <2>4, Frame DEF TypeOK, PlanBeginBarrier
<1>4. ASSUME NEW otherCeiling \in BOOLEAN, PlanReserve(otherCeiling)
      PROVE  TypeOK'
  <2>1. TypeRun'
    BY <1>4 DEF TypeOK, TypeRun, PlanReserve
  <2>2. TypeTurns'
    BY <1>4 DEF TypeOK, TypeTurns, PlanReserve
  <2>3. TypeRuntime'
    BY <1>4 DEF TypeOK, TypeRuntime, PlanReserve, PCs
  <2> QED
    BY <1>4, <2>1, <2>2, <2>3, Frame DEF TypeOK, PlanReserve
<1>5. CASE PlanReservePaused
  <2>1. TypeRun'
    <3>1. dispatchOpen' \in BOOLEAN
      BY <1>5 DEF PlanReservePaused
    <3> QED
      BY <1>5, <3>1 DEF TypeOK, TypeRun, RunStates, PlanReservePaused
  <2>2. TypeRuntime'
    BY <1>5 DEF TypeOK, TypeRuntime, PlanReservePaused, PCs
  <2> QED
    BY <1>5, <2>1, <2>2, Frame DEF TypeOK, PlanReservePaused
<1>6. ASSUME NEW act \in PlanningActions, NEW p \in Plans, PlanProviderAnswer(act, p)
      PROVE  TypeOK'
  <2>1. [bind |-> view.bind, act |-> act, plan |-> p, read |-> FALSE,
         state |-> "COMPLETION_COMMITTED"] \in Turns
    BY <1>6 DEF ViewInv, PlanProviderAnswer, Turns
  <2>2. TypeTurns'
    BY <1>6, <2>1 DEF TypeOK, TypeTurns, PlanProviderAnswer
  <2>3. TypeRuntime'
    BY <1>6, TurnsType DEF TypeOK, TypeRuntime, PlanProviderAnswer, PCs
  <2>4. TypeRun'
    BY <1>6 DEF TypeOK, TypeRun, PlanProviderAnswer
  <2> QED
    BY <1>6, <2>2, <2>3, <2>4, Frame DEF TypeOK, PlanProviderAnswer
<1>7. CASE PlanProviderNoAnswer
  <2>1. TypeRun'
    BY <1>7 DEF TypeOK, TypeRun, PlanProviderNoAnswer
  <2>2. TypeRuntime'
    BY <1>7 DEF TypeOK, TypeRuntime, PlanProviderNoAnswer, PCs
  <2> QED
    BY <1>7, <2>1, <2>2, Frame DEF TypeOK, PlanProviderNoAnswer
<1>8. CASE PlanSettleBarrier
  <2>1. TypeRun'
    BY <1>8 DEF TypeOK, TypeRun, PlanSettleBarrier
  <2>2. TypeTurns'
    BY <1>8 DEF TypeOK, TypeTurns, PlanSettleBarrier
  <2>3. TypeRuntime'
    BY <1>8 DEF TypeOK, TypeRuntime, PlanSettleBarrier, PCs
  <2> QED
    BY <1>8, <2>1, <2>2, <2>3, Frame DEF TypeOK, PlanSettleBarrier
<1> QED
  BY <1>1, <1>2, <1>3, <1>4, <1>5, <1>6, <1>7, <1>8

LEMMA ApplyType ==
    ASSUME TypeOK, ViewInv,
           \/ ApplyRead \/ \E overflow \in BOOLEAN : SettleRead(overflow)
           \/ \E tasksAtCeiling \in BOOLEAN : ApplySubmit(tasksAtCeiling)
           \/ ApplyFailure \/ ApplyNotAuthorized \/ ApplyRaises
    PROVE  TypeOK'
<1>1. ASSUME pc = "apply"
      PROVE  view.turn \in 1 .. Len(turns) /\ turns[view.turn] \in Turns
  BY <1>1, TurnsType DEF TypeOK, ViewInv
<1>2. ASSUME pc = "apply", NEW turn \in Turns, turns' = [turns EXCEPT ![view.turn] = turn]
      PROVE  turns' \in Seq(Turns)
  BY <1>1, <1>2, ExceptSeq DEF TypeOK, TypeTurns
<1>3. CASE ApplyNotAuthorized \/ ApplyRaises
  BY <1>3, GotoType DEF ApplyNotAuthorized, ApplyRaises, PCs
<1>4. CASE ApplyRead
  <2>1. turns' = [turns EXCEPT ![view.turn] =
                     [Released(turns[view.turn]) EXCEPT !.read = TRUE]]
    BY <1>1, <1>4, TurnsType DEF TypeOK, ApplyRead
  <2>2. TypeTurns'
    BY <1>1, <1>2, <1>4, <2>1, ReleasedType DEF TypeOK, TypeTurns, ApplyRead
  <2>3. TypeEffects'
    BY <1>4 DEF TypeOK, TypeEffects, ApplyRead
  <2>4. TypeRuntime'
    BY <1>4 DEF TypeOK, TypeRuntime, ApplyRead, PCs
  <2>5. TypeRun'
    BY <1>4 DEF TypeOK, TypeRun, ApplyRead
  <2> QED
    BY <1>4, <2>2, <2>3, <2>4, <2>5, Frame DEF TypeOK, ApplyRead
<1>5. ASSUME NEW overflow \in BOOLEAN, SettleRead(overflow) PROVE TypeOK'
  <2>1. TypeRun'
    BY <1>5 DEF TypeOK, TypeRun, RunStates, SettleRead
  <2>2. TypeEffects'
    BY <1>5 DEF TypeOK, TypeEffects, SettleRead
  <2>3. TypeRuntime'
    BY <1>5 DEF TypeOK, TypeRuntime, SettleRead, PCs
  <2> QED
    BY <1>5, <2>1, <2>2, <2>3, Frame DEF TypeOK, SettleRead
<1>6. ASSUME NEW tasksAtCeiling \in BOOLEAN, ApplySubmit(tasksAtCeiling)
      PROVE  TypeOK'
  <2>1. Turn.plan \in Plans /\ view.bind.rev \in [Classes -> Revisions]
    BY <1>1, <1>6 DEF ApplySubmit, Turn, Turns, ViewInv, Bindings
  <2>2. TypePlans'
    <3>1. [rev |-> view.bind.rev, state |-> "PROPOSED"] \in Proposals
      BY <2>1 DEF Proposals
    <3>2. plans' = [plans EXCEPT ![Turn.plan] =
                       [rev |-> view.bind.rev, state |-> "PROPOSED"]]
      BY <1>6 DEF ApplySubmit
    <3>3. plans' \in [Plans -> Proposals \cup {None}]
      BY <2>1, <3>1, <3>2 DEF TypeOK, TypePlans
    <3> QED
      BY <1>6, <3>3 DEF TypeOK, TypePlans, ApplySubmit
  <2>3. TypeTurns'
    <3>1. turns' = [turns EXCEPT ![view.turn] = Released(turns[view.turn])]
      BY <1>1, <1>6, TurnsType DEF TypeOK, ApplySubmit
    <3> QED
      BY <1>1, <1>2, <1>6, <3>1, ReleasedType DEF TypeOK, TypeTurns, ApplySubmit
  <2>4. TypeRun'
    <3>1. st' \in RunStates /\ seq' = seq + 1 /\ dispatchOpen' = ~tasksAtCeiling
      BY <1>6 DEF ApplySubmit, RunStates
    <3> QED
      BY <3>1 DEF TypeOK, TypeRun
  <2>5. TypeRuntime'
    BY <1>6 DEF TypeOK, TypeRuntime, ApplySubmit, PCs
  <2> QED
    BY <1>6, <2>2, <2>3, <2>4, <2>5, Frame DEF TypeOK, ApplySubmit
<1>7. CASE ApplyFailure
  <2>1. TypeTurns'
    <3>1. turns' = [turns EXCEPT ![view.turn] = Released(turns[view.turn])]
      BY <1>1, <1>7, TurnsType DEF TypeOK, ApplyFailure
    <3> QED
      BY <1>1, <1>2, <1>7, <3>1, ReleasedType DEF TypeOK, TypeTurns, ApplyFailure
  <2>2. TypeRun'
    BY <1>7 DEF TypeOK, TypeRun, RunStates, ApplyFailure
  <2>3. TypeRuntime'
    BY <1>7 DEF TypeOK, TypeRuntime, ApplyFailure, PCs
  <2> QED
    BY <1>7, <2>1, <2>2, <2>3, Frame DEF TypeOK, ApplyFailure
<1> QED
  BY <1>3, <1>4, <1>5, <1>6, <1>7

LEMMA RefInitType ==
    ASSUME TypeOK,
           \/ RefInitBind \/ RefInitDenied \/ RefInitRaises
           \/ RefRecordIntent \/ RefRecordRaises
           \/ \E outcome \in DOMAIN RefAfter : RefSettle(outcome)
    PROVE  TypeOK'
<1>1. CASE RefInitBind
  <2>1. TypeRuntime'
    <3>1. view' = [view EXCEPT !.seq = seq] /\ pc' = "refRecord"
          /\ UNCHANGED <<held, drafted, started>>
      BY <1>1 DEF RefInitBind
    <3> QED
      BY <3>1 DEF TypeOK, TypeRun, TypeRuntime, PCs
  <2> QED
    BY <1>1, <2>1, Frame DEF TypeOK, RefInitBind
<1>2. CASE RefInitDenied \/ RefInitRaises \/ RefRecordRaises
  BY <1>2, GotoType DEF RefInitDenied, RefInitRaises, RefRecordRaises, PCs
<1>3. CASE RefRecordIntent
  <2>1. TypePlans'
    BY <1>3 DEF TypeOK, TypePlans, RefRecordIntent
  <2>2. TypeEffects'
    BY <1>3 DEF TypeOK, TypeEffects, RefRecordIntent
  <2>3. TypeRun'
    BY <1>3 DEF TypeOK, TypeRun, RunStates, RefRecordIntent
  <2>4. TypeRuntime'
    BY <1>3 DEF TypeOK, TypeRuntime, RefRecordIntent, PCs
  <2> QED
    BY <1>3, <2>1, <2>2, <2>3, <2>4, Frame DEF TypeOK, RefRecordIntent
<1>4. ASSUME NEW outcome \in DOMAIN RefAfter, RefSettle(outcome) PROVE TypeOK'
  <2>1. /\ outcome \in {"PRESENT", "CONFLICT", "ABSENT_EXPECTED", "INIT_INTENT_RECORDED"}
        /\ RefAfter[outcome] \in RunStates
    BY DEF RefAfter, RunStates
  <2>2. TypePlans'
    BY <1>4, <2>1 DEF TypeOK, TypePlans, RefSettle
  <2>3. TypeEffects'
    BY <1>4 DEF TypeOK, TypeEffects, RefSettle
  <2>4. TypeRun'
    BY <1>4, <2>1 DEF TypeOK, TypeRun, RefSettle
  <2>5. TypeRuntime'
    BY <1>4 DEF TypeOK, TypeRuntime, RefSettle, PCs
  <2> QED
    BY <1>4, <2>2, <2>3, <2>4, <2>5, Frame DEF TypeOK, RefSettle
<1> QED
  BY <1>1, <1>2, <1>3, <1>4

LEMMA StopType ==
    ASSUME TypeOK,
           \/ DeliveryStop \/ StopRaises \/ RecordFault
           \/ \E at \in PCs : Fault(at) \/ Die(at)
    PROVE  TypeOK'
<1>1. CASE DeliveryStop
  <2>1. TypeRuntime'
    BY <1>1, ExitType DEF DeliveryStop
  <2>2. TypePermits'
    BY <1>1 DEF TypeOK, TypePermits, DeliveryStop
  <2>3. TypeRun'
    BY <1>1 DEF TypeOK, TypeRun, DeliveryStop
  <2> QED
    BY <1>1, <2>1, <2>2, <2>3, Frame DEF TypeOK, DeliveryStop
<1>2. CASE RecordFault
  <2>1. /\ st' \in RunStates
        /\ barrier' \in {"IDLE", "IN_FLIGHT", "SETTLED", "INDETERMINATE"}
    BY <1>2 DEF TypeOK, TypeRun, TypeTurns, RunStates, RecordFault
  <2>2. TypeTurns'
    BY <1>2, <2>1 DEF TypeOK, TypeTurns, RecordFault
  <2>3. TypeRun'
    <3>1. dispatchOpen' \in BOOLEAN
      BY <1>2 DEF RecordFault
    <3> QED
      BY <1>2, <2>1, <3>1 DEF TypeOK, TypeRun, RecordFault
  <2>4. TypeRuntime'
    BY <1>2 DEF TypeOK, TypeRuntime, RecordFault, PCs
  <2> QED
    BY <1>2, <2>2, <2>3, <2>4, Frame DEF TypeOK, RecordFault
<1>3. CASE StopRaises \/ \E at \in PCs : Die(at)
  BY <1>3, VanishType DEF StopRaises, Die
<1>4. CASE \E at \in PCs : Fault(at)
  BY <1>4, GotoType DEF Fault, PCs
<1> QED
  BY <1>1, <1>2, <1>3, <1>4

-----------------------------------------------------------------------------
(* Every step keeps the types *)

LEMMA InitType == Init => TypeOK
<1> SUFFICES ASSUME Init PROVE TypeOK
  OBVIOUS
<1> USE ConstantsAssumption
<1>1. TypeRun /\ TypeTurns /\ TypeCommands
  BY DEF Init, TypeRun, RunStates, TypeTurns, TypeCommands
<1>2. TypeRevisions
  BY DEF Init, TypeRevisions
<1>3. TypePlans
  BY DEF Init, TypePlans
<1>4. TypePermits /\ TypeEffects
  BY DEF Init, TypePermits, TypeEffects
<1>5. TypeRuntime
  BY DEF Init, TypeRuntime, NoView, PCs
<1> QED
  BY <1>1, <1>2, <1>3, <1>4, <1>5 DEF TypeOK

LEMMA CommitType ==
    ASSUME TypeOK, NEW t \in Threads, Commit(t)
    PROVE  TypeOK'
BY UnacceptedType, ProposeType, ApproveType, IssuingType DEF Commit

LEMMA DriveType ==
    ASSUME TypeOK, ViewInv, LiveRuntimeOwns, Drive
    PROVE  TypeOK'
BY EntryType, LoopType, ReserveType, PlanningType, ApplyType, RefInitType,
   StopType DEF Drive

LEMMA NextType ==
    ASSUME TypeOK, ViewInv, LiveRuntimeOwns, [Next]_vars
    PROVE  TypeOK'
<1>1. CASE Command
  BY <1>1, DecideType, CommitType DEF Command
<1>2. CASE Continue
  BY <1>2, ContinueType
<1>3. CASE Acquire
  BY <1>3, AcquireType DEF Acquire
<1>4. CASE Drive
  BY <1>4, DriveType
<1>5. CASE \E at \in PCs : Fault(at) \/ Die(at)
  BY <1>5, StopType
<1>6. CASE UNCHANGED vars
  BY <1>6, Frame DEF TypeOK, vars
<1> QED
  BY <1>1, <1>2, <1>3, <1>4, <1>5, <1>6 DEF Next

-----------------------------------------------------------------------------
(* What the runtime holds is usable where it is used *)

\* Only the last bounded step of a turn changes the number of turns.
LEMMA ViewFrame ==
    ASSUME ViewInv, TypeOK, UNCHANGED <<view, turns>>,
           pc' \notin {"reserveModel", "provider", "settleBarrier", "apply"} \/ pc' = pc
    PROVE  ViewInv'
BY DEF ViewInv

LEMMA GotoView ==
    ASSUME ViewInv, TypeOK, NEW to \in PCs, Goto(to),
           to \notin {"reserveModel", "provider", "settleBarrier", "apply"}
    PROVE  ViewInv'
BY ViewFrame DEF Goto, turnVars

LEMMA CommandKeepsRuntime ==
    ASSUME Command
    PROVE  UNCHANGED <<turnVars, runtimeVars>>
<1>1. ASSUME NEW t \in Threads, NEW cmd \in Commands, Decide(t, cmd)
      PROVE  UNCHANGED <<turnVars, runtimeVars>>
  BY <1>1 DEF Decide
<1>2. ASSUME NEW t \in Threads, NEW u \in Threads, Redeliver(t, u)
      PROVE  UNCHANGED <<turnVars, runtimeVars>>
  BY <1>2 DEF Redeliver
<1>3. ASSUME NEW t \in Threads, Commit(t) PROVE UNCHANGED <<turnVars, runtimeVars>>
  <2>1. CASE CommitUnsequenced(t) \/ CommitRejection(t) \/ CommitRaises(t)
    BY <2>1 DEF CommitUnsequenced, CommitRejection, CommitRaises, Record
  <2>2. CASE CommitProposeUnchanged(t) \/ CommitProposeBootstrap(t) \/ CommitProposeExecution(t)
    BY <2>2 DEF CommitProposeUnchanged, CommitProposeBootstrap, CommitProposeExecution, Record
  <2>3. CASE \E inFlight \in BOOLEAN : CommitApprove(t, inFlight)
    BY <2>3 DEF CommitApprove, Record
  <2>4. CASE CommitBegin(t) \/ BeginConflict(t) \/ CommitApprovePlan(t) \/ CommitStart(t)
    BY <2>4 DEF CommitBegin, BeginConflict, CommitApprovePlan, CommitStart, Record
  <2> QED
    BY <1>3, <2>1, <2>2, <2>3, <2>4 DEF Commit
<1> QED
  BY <1>1, <1>2, <1>3 DEF Command

LEMMA CommandOrAcquireView ==
    ASSUME ViewInv, TypeOK, Command \/ Continue \/ Acquire
    PROVE  ViewInv'
<1>1. CASE Command
  BY <1>1, CommandKeepsRuntime, ViewFrame DEF turnVars, runtimeVars
<1>2. CASE Continue
  BY <1>2, ViewFrame DEF Continue, turnVars, runtimeVars
<1>3. CASE Acquire
  BY <1>3, ViewFrame
  DEF Acquire, Consume, InvalidateStalePermit, turnVars, runtimeVars
<1> QED
  BY <1>1, <1>2, <1>3

LEMMA EntryView ==
    ASSUME ViewInv, TypeOK,
           EntryDrive \/ EntryResume \/ EntryUnsettled \/ EntryBlocked \/ EntryRecover
    PROVE  ViewInv'
<1>1. \A s : TurnsIn(s) \subseteq DOMAIN turns
  BY DEF TurnsIn
<1>2. Current \in Bindings
  BY CurrentType DEF TypeOK
<1>3. ASSUME NEW i \in DOMAIN turns, Reopening(i), Len(turns') = Len(turns)
      PROVE  ViewInv'
  <2>1. view'.turn = i /\ view'.bind = Current
    BY <1>3 DEF TypeOK, TypeRuntime, Reopening
  <2>2. i \in 1 .. Len(turns)
    BY TurnsType DEF TypeOK
  <2> QED
    BY <1>2, <1>3, <2>1, <2>2, TurnsType DEF TypeOK, ViewInv
<1>4. CASE EntryDrive \/ EntryUnsettled \/ EntryBlocked
  BY <1>4, GotoView DEF EntryDrive, EntryUnsettled, EntryBlocked, PCs
<1>5. CASE EntryResume
  <2>1. Oldest(TurnsIn("DOWNSTREAM_INTENT_RECORDED")) \in DOMAIN turns
    BY <1>1, <1>5, OldestType DEF TypeOK, EntryResume
  <2> QED
    BY <1>3, <1>5, <2>1 DEF EntryResume, turnVars
<1>6. CASE EntryRecover
  <2>1. Oldest(TurnsIn("COMPLETION_COMMITTED")) \in DOMAIN turns
    BY <1>1, <1>6, OldestType DEF TypeOK, EntryRecover, RecoverableTurn
  <2>2. Len(turns') = Len(turns)
    BY <1>6, TurnsType DEF TypeOK, TypeTurns, EntryRecover
  <2> QED
    BY <1>3, <1>6, <2>1, <2>2 DEF EntryRecover
<1> QED
  BY <1>4, <1>5, <1>6

LEMMA PlanningView ==
    ASSUME ViewInv, TypeOK,
           \/ PlanNotAuthorized \/ PlanContextOverflow
           \/ PlanBeginBarrier \/ PlanBarrierRaises
           \/ \E otherCeiling \in BOOLEAN : PlanReserve(otherCeiling)
           \/ PlanReserveDenied \/ PlanReservePaused
           \/ \E act \in PlanningActions, p \in Plans : PlanProviderAnswer(act, p)
           \/ PlanProviderNoAnswer \/ PlanProviderRaises
           \/ PlanSettleBarrier \/ PlanSettleBarrierRaises
    PROVE  ViewInv'
<1>1. CASE PlanNotAuthorized \/ PlanBarrierRaises \/ PlanProviderRaises
           \/ PlanSettleBarrierRaises
  BY <1>1, GotoView
  DEF PlanNotAuthorized, PlanBarrierRaises, PlanProviderRaises,
      PlanSettleBarrierRaises, PCs
<1>2. CASE PlanContextOverflow
  BY <1>2, ViewFrame DEF PlanContextOverflow, turnVars
<1>3. CASE PlanBeginBarrier
  <2>1. view'.turn = 0 /\ view'.bind = Current /\ pc' = "reserveModel"
        /\ turns' = turns
    BY <1>3 DEF TypeOK, TypeRuntime, PlanBeginBarrier
  <2>2. Current \in Bindings /\ Len(turns) \in Nat
    BY CurrentType, TurnsType DEF TypeOK
  <2> QED
    BY <2>1, <2>2 DEF ViewInv
<1>4. ASSUME NEW act \in PlanningActions, NEW p \in Plans, PlanProviderAnswer(act, p)
      PROVE  ViewInv'
  <2>1. view'.turn = Len(turns) + 1 /\ view'.bind = view.bind
        /\ pc' = "settleBarrier" /\ view.bind \in Bindings
    BY <1>4 DEF TypeOK, TypeRuntime, ViewInv, PlanProviderAnswer
  <2>2. Len(turns') = Len(turns) + 1 /\ Len(turns) \in Nat
    BY <1>4, TurnsType DEF TypeOK, TypeTurns, PlanProviderAnswer
  <2> QED
    BY <2>1, <2>2 DEF ViewInv
<1>5. CASE PlanReserveDenied \/ PlanReservePaused \/ PlanProviderNoAnswer
           \/ \E otherCeiling \in BOOLEAN : PlanReserve(otherCeiling)
  BY <1>5
  DEF ViewInv, PlanReserveDenied, PlanReservePaused, PlanProviderNoAnswer,
      PlanReserve, Goto, turnVars
<1>6. CASE PlanSettleBarrier
  BY <1>6 DEF ViewInv, PlanSettleBarrier
<1> QED
  BY <1>1, <1>2, <1>3, <1>4, <1>5, <1>6

LEMMA ApplyView ==
    ASSUME ViewInv, TypeOK,
           \/ ApplyRead \/ \E overflow \in BOOLEAN : SettleRead(overflow)
           \/ \E tasksAtCeiling \in BOOLEAN : ApplySubmit(tasksAtCeiling)
           \/ ApplyFailure \/ ApplyNotAuthorized \/ ApplyRaises
    PROVE  ViewInv'
<1>1. ASSUME UNCHANGED view, Len(turns') = Len(turns),
             pc' \notin {"reserveModel", "provider", "settleBarrier", "apply"}
      PROVE  ViewInv'
  BY <1>1 DEF ViewInv
<1>2. CASE ApplyRead \/ ApplyFailure
  BY <1>1, <1>2, TurnsType DEF TypeOK, TypeTurns, ApplyRead, ApplyFailure
<1>3. CASE \E tasksAtCeiling \in BOOLEAN : ApplySubmit(tasksAtCeiling)
  BY <1>1, <1>3, TurnsType DEF TypeOK, TypeTurns, ApplySubmit
<1>4. CASE \E overflow \in BOOLEAN : SettleRead(overflow)
  BY <1>1, <1>4 DEF SettleRead, turnVars
<1>5. CASE ApplyNotAuthorized \/ ApplyRaises
  BY <1>5, GotoView DEF ApplyNotAuthorized, ApplyRaises, PCs
<1> QED
  BY <1>2, <1>3, <1>4, <1>5

LEMMA ExitView ==
    ASSUME TypeOK, Exit, UNCHANGED turns
    PROVE  ViewInv'
BY TurnsType DEF TypeOK, Exit, NoView, ViewInv

LEMMA OtherView ==
    ASSUME ViewInv, TypeOK,
           \/ LoopNotAllowed \/ LoopNoBudget \/ LoopDrive \/ TimeExhausted \/ Leave
           \/ ReserveReuse \/ ReserveRecordIntent \/ ReserveLoadIntent
           \/ \E observable \in BOOLEAN : ReservePreIntentStop(observable)
           \/ \E result \in DOMAIN DraftAfter : ReserveSettle(result)
           \/ SettleRaises
           \/ RefInitBind \/ RefInitDenied \/ RefInitRaises
           \/ RefRecordIntent \/ RefRecordRaises
           \/ \E outcome \in DOMAIN RefAfter : RefSettle(outcome)
           \/ DeliveryStop \/ StopRaises \/ RecordFault
           \/ \E at \in PCs : Fault(at) \/ Die(at)
    PROVE  ViewInv'
<1>1. Driver \in PCs \ {"reserveModel", "provider", "settleBarrier", "apply"}
  BY DEF Driver, PCs
<1>2. CASE LoopNotAllowed \/ LoopNoBudget \/ LoopDrive \/ Leave \/ ReserveLoadIntent
           \/ SettleRaises \/ RefInitDenied \/ RefInitRaises \/ RefRecordRaises
           \/ \E at \in PCs : Fault(at)
  BY <1>1, <1>2, GotoView
  DEF LoopNotAllowed, LoopNoBudget, LoopDrive, Leave, ReserveLoadIntent,
      SettleRaises, RefInitDenied, RefInitRaises, RefRecordRaises, Fault, PCs
<1>3. CASE TimeExhausted \/ ReserveReuse \/ ReserveRecordIntent \/ RefRecordIntent
  BY <1>3, ViewFrame
  DEF TimeExhausted, ReserveReuse, ReserveRecordIntent, RefRecordIntent, turnVars
<1>4. CASE \E observable \in BOOLEAN : ReservePreIntentStop(observable)
  BY <1>4, ViewFrame DEF ReservePreIntentStop, turnVars
<1>5. CASE \E result \in DOMAIN DraftAfter : ReserveSettle(result)
  BY <1>5, ViewFrame DEF ReserveSettle, turnVars
<1>6. CASE \E outcome \in DOMAIN RefAfter : RefSettle(outcome)
  BY <1>6, ViewFrame DEF RefSettle, turnVars
<1>7. CASE RefInitBind
  <2>1. view'.turn = view.turn /\ view'.bind = view.bind /\ turns' = turns
        /\ pc' = "refRecord"
    BY <1>7 DEF TypeOK, TypeRuntime, RefInitBind, turnVars
  <2> QED
    BY <2>1 DEF ViewInv
<1>8. CASE RecordFault
  BY <1>8, ViewFrame DEF RecordFault
<1>9. CASE DeliveryStop \/ StopRaises \/ \E at \in PCs : Die(at)
  BY <1>9, ExitView DEF DeliveryStop, StopRaises, Die, Vanish, turnVars
<1> QED
  BY <1>2, <1>3, <1>4, <1>5, <1>6, <1>7, <1>8, <1>9

LEMMA NextView ==
    ASSUME ViewInv, TypeOK, [Next]_vars
    PROVE  ViewInv'
<1>1. CASE Command \/ Continue \/ Acquire
  BY <1>1, CommandOrAcquireView
<1>2. CASE Drive
  BY <1>2, EntryView, PlanningView, ApplyView, OtherView DEF Drive
<1>3. CASE \E at \in PCs : Fault(at) \/ Die(at)
  BY <1>3, OtherView
<1>4. CASE UNCHANGED vars
  BY <1>4, ViewFrame DEF vars, turnVars, runtimeVars
<1> QED
  BY <1>1, <1>2, <1>3, <1>4 DEF Next

-----------------------------------------------------------------------------
(* The six things a step may do to the delivery of the Run *)

\* Nothing: the permits, the owner and the live runtime stay.
Quiet ==
    /\ UNCHANGED <<permits, owner, held>>
    /\ pc = "idle" <=> pc' = "idle"

\* A new generation, when nobody drives the Run.
Grants ==
    /\ Unconsumed = {} /\ pc = "idle" /\ owner' = 0
    /\ UNCHANGED <<pc, held>>
    /\ \E id, source, phase : Issue(id, source, phase)

\* The outstanding generation is withdrawn.
Withdraws == permits' = Withdrawn /\ UNCHANGED <<owner, pc, held>>

\* A runtime takes the outstanding generation.
Delivers ==
    /\ pc = "idle" /\ pc' # "idle" /\ owner = 0
    /\ \E g \in Unconsumed : /\ permits' = WithState({g}, "CONSUMED")
                             /\ owner' = g /\ held' = g

\* The runtime gives the Run back, or vanishes and stays its owner.
Releases == pc # "idle" /\ pc' = "idle" /\ owner' = 0 /\ UNCHANGED permits

Abandons == pc # "idle" /\ pc' = "idle" /\ UNCHANGED <<permits, owner>>

LEMMA HeldIsOwner ==
    ASSUME TypeOK, LiveRuntimeOwns, pc # "idle"
    PROVE  owner # 0 /\ owner = held /\ held \in DOMAIN permits
BY PermitsType DEF TypeOK, LiveRuntimeOwns

LEMMA CommandKind ==
    ASSUME Inv, Command
    PROVE  Quiet \/ Grants \/ Withdraws
<1>1. PICK t \in Threads :
          \/ \E cmd \in Commands : Decide(t, cmd)
          \/ \E u \in Threads : Redeliver(t, u)
          \/ Commit(t)
  BY DEF Command
<1>2. UNCHANGED <<pc, held>>
  BY CommandKeepsRuntime DEF runtimeVars
<1>3. CASE (\E cmd \in Commands : Decide(t, cmd)) \/ \E u \in Threads : Redeliver(t, u)
  BY <1>2, <1>3 DEF Decide, Redeliver, permitVars, Quiet
<1>4. CASE CommitUnsequenced(t) \/ CommitRejection(t) \/ CommitProposeUnchanged(t)
           \/ CommitProposeExecution(t) \/ BeginConflict(t)
           \/ CommitApprovePlan(t) \/ CommitRaises(t)
  BY <1>2, <1>4
  DEF CommitUnsequenced, CommitRejection, CommitProposeUnchanged,
      CommitProposeExecution, BeginConflict, CommitApprovePlan, CommitRaises,
      permitVars, Quiet
<1>5. CASE \E inFlight \in BOOLEAN : CommitApprove(t, inFlight)
  BY <1>2, <1>5 DEF CommitApprove, permitVars, Quiet
<1>6. CASE CommitProposeBootstrap(t)
  BY <1>2, <1>6 DEF CommitProposeBootstrap, Withdraws
<1>7. CASE CommitBegin(t) \/ CommitStart(t)
  <2>1. Unconsumed = {} /\ owner = 0 /\ owner' = 0
    BY <1>7 DEF CommitBegin, CommitStart, DeliveryPending
  <2>2. pc = "idle"
    BY <2>1, HeldIsOwner DEF Inv
  <2>3. \E id, source, phase : Issue(id, source, phase)
    BY <1>7 DEF CommitBegin, CommitStart
  <2> QED
    BY <1>2, <2>1, <2>2, <2>3 DEF Grants
<1> QED
  BY <1>1, <1>3, <1>4, <1>5, <1>6, <1>7 DEF Commit

LEMMA ContinueKind ==
    ASSUME Inv, Continue
    PROVE  Grants
BY DEF Continue, OwnershipFree, Grants, runtimeVars

LEMMA AcquireKind ==
    ASSUME Inv, Acquire
    PROVE  Withdraws \/ Delivers
<1>1. PICK g \in DOMAIN permits : Consume(g) \/ InvalidateStalePermit(g)
  BY DEF Acquire
<1>2. CASE Consume(g)
  BY <1>2 DEF Consume, OwnershipFree, Delivers
<1>3. CASE InvalidateStalePermit(g)
  <2>1. Unconsumed = {g}
    BY <1>3 DEF Inv, OnlyLatest, InvalidateStalePermit
  <2> QED
    BY <1>3, <2>1 DEF InvalidateStalePermit, Withdrawn, Withdraws, runtimeVars
<1> QED
  BY <1>1, <1>2, <1>3

\* A step of the live runtime that does not stop it.
LEMMA DriveKind ==
    ASSUME Drive
    PROVE  Quiet \/ Releases \/ Abandons
<1>1. ASSUME NEW to, to # "idle", pc # "idle", Goto(to)
      PROVE  Quiet
  BY <1>1 DEF Goto, permitVars, Quiet
<1>2. CASE EntryDrive \/ EntryResume \/ EntryUnsettled \/ EntryBlocked \/ EntryRecover
  BY <1>1, <1>2
  DEF EntryDrive, EntryResume, EntryUnsettled, EntryBlocked, EntryRecover,
      permitVars, Quiet
<1>3. CASE LoopNotAllowed \/ LoopNoBudget \/ LoopDrive \/ TimeExhausted \/ Leave
  <2>1. Driver # "idle"
    BY DEF Driver
  <2> QED
    BY <1>1, <1>3, <2>1
    DEF LoopNotAllowed, LoopNoBudget, LoopDrive, TimeExhausted, Leave,
        permitVars, Quiet
<1>4. CASE \/ ReserveReuse \/ ReserveRecordIntent \/ ReserveLoadIntent
           \/ \E observable \in BOOLEAN : ReservePreIntentStop(observable)
           \/ \E result \in DOMAIN DraftAfter : ReserveSettle(result)
           \/ SettleRaises
  BY <1>1, <1>4
  DEF ReserveReuse, ReserveRecordIntent, ReserveLoadIntent, ReservePreIntentStop,
      ReserveSettle, SettleRaises, permitVars, Quiet
<1>5. CASE \/ PlanNotAuthorized \/ PlanContextOverflow
           \/ PlanBeginBarrier \/ PlanBarrierRaises
           \/ \E otherCeiling \in BOOLEAN : PlanReserve(otherCeiling)
           \/ PlanReserveDenied \/ PlanReservePaused
           \/ \E act \in PlanningActions, p \in Plans : PlanProviderAnswer(act, p)
           \/ PlanProviderNoAnswer \/ PlanProviderRaises
           \/ PlanSettleBarrier \/ PlanSettleBarrierRaises
  BY <1>1, <1>5
  DEF PlanNotAuthorized, PlanContextOverflow, PlanBeginBarrier, PlanBarrierRaises,
      PlanReserve, PlanReserveDenied, PlanReservePaused, PlanProviderAnswer,
      PlanProviderNoAnswer, PlanProviderRaises, PlanSettleBarrier,
      PlanSettleBarrierRaises, permitVars, Quiet
<1>6. CASE \/ ApplyRead \/ \E overflow \in BOOLEAN : SettleRead(overflow)
           \/ \E tasksAtCeiling \in BOOLEAN : ApplySubmit(tasksAtCeiling)
           \/ ApplyFailure \/ ApplyNotAuthorized \/ ApplyRaises
  BY <1>1, <1>6
  DEF ApplyRead, SettleRead, ApplySubmit, ApplyFailure, ApplyNotAuthorized,
      ApplyRaises, permitVars, Quiet
<1>7. CASE \/ RefInitBind \/ RefInitDenied \/ RefInitRaises
           \/ RefRecordIntent \/ RefRecordRaises
           \/ \E outcome \in DOMAIN RefAfter : RefSettle(outcome)
  BY <1>1, <1>7
  DEF RefInitBind, RefInitDenied, RefInitRaises, RefRecordIntent, RefRecordRaises,
      RefSettle, permitVars, Quiet
<1>8. CASE DeliveryStop
  BY <1>8 DEF DeliveryStop, Exit, Releases
<1>9. CASE StopRaises
  BY <1>9 DEF StopRaises, Vanish, Exit, permitVars, Abandons
<1>10. CASE RecordFault
  BY <1>10 DEF RecordFault, permitVars, Quiet
<1> QED
  BY <1>2, <1>3, <1>4, <1>5, <1>6, <1>7, <1>8, <1>9, <1>10 DEF Drive

LEMMA StepKind ==
    ASSUME Inv, [Next]_vars
    PROVE  Quiet \/ Grants \/ Withdraws \/ Delivers \/ Releases \/ Abandons
<1>1. CASE Command
  BY <1>1, CommandKind
<1>2. CASE Continue
  BY <1>2, ContinueKind
<1>3. CASE Acquire
  BY <1>3, AcquireKind
<1>4. CASE Drive
  BY <1>4, DriveKind
<1>5. CASE \E at \in PCs : Fault(at) \/ Die(at)
  BY <1>5 DEF Fault, Goto, Die, Vanish, Exit, permitVars, Quiet, Abandons
<1>6. CASE UNCHANGED vars
  BY <1>6 DEF vars, permitVars, runtimeVars, Quiet
<1> QED
  BY <1>1, <1>2, <1>3, <1>4, <1>5, <1>6 DEF Next

-----------------------------------------------------------------------------
(* What each of them does to the permits *)

Consumed == {g \in DOMAIN permits : permits[g].state = "CONSUMED"}

LEMMA WithStateEffect ==
    ASSUME TypePermits, NEW gens \in SUBSET Unconsumed,
           NEW s \in {"CONSUMED", "INVALIDATED"}, permits' = WithState(gens, s)
    PROVE  /\ DOMAIN permits' = DOMAIN permits /\ Len(permits') = Len(permits)
           /\ Unconsumed' = Unconsumed \ gens
           /\ Consumed' = Consumed \cup (IF s = "CONSUMED" THEN gens ELSE {})
<1>1. DOMAIN permits' = DOMAIN permits /\ Len(permits') = Len(permits)
  BY WithStateType
<1>2. \A g \in DOMAIN permits :
          permits'[g].state = IF g \in gens THEN s ELSE permits[g].state
  BY PermitsType DEF Permits, WithState
<1> QED
  BY <1>1, <1>2 DEF Unconsumed, Consumed

LEMMA IssueEffect ==
    ASSUME TypePermits, NEW id, NEW source, NEW phase, Issue(id, source, phase)
    PROVE  /\ Len(permits') = Len(permits) + 1
           /\ DOMAIN permits' = DOMAIN permits \cup {Len(permits) + 1}
           /\ Unconsumed' = Unconsumed \cup {Len(permits) + 1}
           /\ Consumed' = Consumed
<1> DEFINE n == Len(permits)
           m == Minted(id, source, phase)
<1>1. /\ permits' = Append(permits, m) /\ n \in Nat /\ DOMAIN permits = 1 .. n
      /\ permits \in Seq(Permits \cup {m})
  BY PermitsType, SeqMonotonic DEF TypePermits, Issue
<1>2. /\ Len(permits') = n + 1 /\ DOMAIN permits' = 1 .. n + 1
      /\ permits'[n + 1] = m /\ \A g \in 1 .. n : permits'[g] = permits[g]
  BY <1>1, AppendProperties
<1>3. 1 .. n + 1 = (1 .. n) \cup {n + 1} /\ n + 1 \notin 1 .. n
  BY <1>1
<1>4. m.state = "UNCONSUMED"
  BY DEF Minted
<1> QED
  BY <1>1, <1>2, <1>3, <1>4 DEF Unconsumed, Consumed

LEMMA QuietEffect ==
    ASSUME UNCHANGED permits
    PROVE  /\ DOMAIN permits' = DOMAIN permits /\ Len(permits') = Len(permits)
           /\ Unconsumed' = Unconsumed /\ Consumed' = Consumed
BY DEF Unconsumed, Consumed

\* LiveRuntimeOwns in terms of the consumed generations.
LEMMA OwnsConsumed ==
    LiveRuntimeOwns <=> (pc # "idle" => owner = held /\ held \in Consumed)
BY DEF LiveRuntimeOwns, Consumed

LEMMA OwnershipStep ==
    ASSUME Inv, [Next]_vars
    PROVE  LiveRuntimeOwns' /\ OnlyLatest'
<1> USE DEF Inv, TypeOK
<1> DEFINE Owns == pc # "idle" => owner = held /\ held \in Consumed
<1>1. Len(permits) \in Nat /\ DOMAIN permits = 1 .. Len(permits) /\ Owns
  BY PermitsType, OwnsConsumed
<1>2. SUFFICES Owns' /\ OnlyLatest'
  BY OwnsConsumed DEF LiveRuntimeOwns, Consumed
<1>3. CASE Quiet
  BY <1>1, <1>3, QuietEffect DEF Quiet, OnlyLatest
<1>4. CASE Grants
  <2>1. PICK id, source, phase : Issue(id, source, phase)
    BY <1>4 DEF Grants
  <2> QED
    BY <1>1, <1>4, <2>1, IssueEffect DEF Grants, OnlyLatest
<1>5. CASE Withdraws
  <2>1. Unconsumed' = {} /\ Consumed' = Consumed
    BY <1>5, WithStateEffect DEF Withdraws, Withdrawn
  <2> QED
    BY <1>1, <1>5, <2>1 DEF Withdraws, OnlyLatest
<1>6. CASE Delivers
  <2>1. PICK g \in Unconsumed : /\ permits' = WithState({g}, "CONSUMED")
                                /\ owner' = g /\ held' = g
    BY <1>6 DEF Delivers
  <2>2. Unconsumed' = Unconsumed \ {g} /\ Consumed' = Consumed \cup {g}
    BY <2>1, WithStateEffect
  <2> QED
    BY <2>1, <2>2 DEF OnlyLatest
<1>7. CASE Releases \/ Abandons
  BY <1>1, <1>7, QuietEffect, HeldIsOwner DEF Releases, Abandons, OnlyLatest
<1> QED
  BY <1>3, <1>4, <1>5, <1>6, <1>7, StepKind

LEMMA InitInv == Init => Inv
<1> SUFFICES ASSUME Init PROVE Inv
  OBVIOUS
<1>1. ViewInv
  BY DEF Init, NoView, ViewInv
<1>2. LiveRuntimeOwns /\ OnlyLatest
  BY DEF Init, LiveRuntimeOwns, OnlyLatest, Unconsumed
<1> QED
  BY <1>1, <1>2, InitType DEF Inv

LEMMA NextInv == Inv /\ [Next]_vars => Inv'
BY NextType, NextView, OwnershipStep DEF Inv

\* The inductive invariant holds in every state of every Run.
THEOREM Invariant == Spec => []Inv
BY InitInv, NextInv, PTL DEF Spec

\* Every variable keeps its type: what a transaction writes is a value that
\* the readers of its row know, for any number of requests.
THEOREM TypeCorrect == Spec => []TypeOK
<1>1. Inv => TypeOK
  BY DEF Inv
<1> QED
  BY <1>1, Invariant, PTL

\* At most one permit of a Run is unconsumed, and none while a runtime, live
\* or dead, owns it: the promise of the permits (SPEC 4.1) for any number of
\* threads and any interleaving of commands, runtime steps and crashes.
THEOREM OneDeliveryHolds == Spec => []OneDelivery
<1>1. Inv => OneDelivery
  BY DEF Inv, OnlyLatest, OneDelivery
<1> QED
  BY <1>1, Invariant, PTL

\* A runtime that is alive is the durable owner of the Run by the very permit
\* it consumed: no command and no second runtime takes the Run from it.
THEOREM LiveRuntimeOwnsHolds == Spec => []LiveRuntimeOwns
<1>1. Inv => LiveRuntimeOwns
  BY DEF Inv
<1> QED
  BY <1>1, Invariant, PTL

-----------------------------------------------------------------------------
(* The permits of a Run implement RunDelivery *)

LEMMA SlotValues ==
    ASSUME Inv
    PROVE  /\ pc # "idle" => Slot = "running"
           /\ pc = "idle" /\ owner # 0 => Slot = "orphaned"
           /\ Unconsumed # {} => Slot = "pending" /\ pc = "idle" /\ owner = 0
           /\ owner = 0 /\ Unconsumed = {} => Slot = "none"
BY HeldIsOwner DEF Inv, OnlyLatest, Slot

LEMMA DeliveryInit == Init => Delivery!Init
BY DEF Init, Delivery!Init, Slot, Unconsumed

LEMMA DeliveryStep ==
    ASSUME Inv, Inv', [Next]_vars
    PROVE  [Delivery!Next]_Delivery!vars
<1> USE DEF Inv, TypeOK, Delivery!Next, Delivery!vars
<1>1. Len(permits) \in Nat
  BY PermitsType
<1>2. CASE Quiet
  <2>1. Slot' = Slot /\ Len(permits') = Len(permits) /\ Consumed' = Consumed
    BY <1>2, QuietEffect DEF Quiet, Slot
  <2> QED
    BY <2>1 DEF Consumed
<1>3. CASE Grants
  <2>1. PICK id, source, phase : Issue(id, source, phase)
    BY <1>3 DEF Grants
  <2>2. /\ Unconsumed' # {} /\ Len(permits') = Len(permits) + 1
        /\ Consumed' = Consumed
    BY <2>1, IssueEffect
  <2>3. Slot \in {"none", "orphaned"} /\ Slot' = "pending"
    BY <1>3, <2>2 DEF Grants, Slot
  <2> QED
    BY <2>2, <2>3 DEF Delivery!Grant, Consumed
<1>4. CASE Withdraws
  <2>1. /\ Unconsumed' = {} /\ Len(permits') = Len(permits)
        /\ Consumed' = Consumed
    BY <1>4, WithStateEffect DEF Withdraws, Withdrawn
  <2>2. CASE Unconsumed = {}
    <3>1. Slot' = Slot
      BY <1>4, <2>1, <2>2 DEF Withdraws, Slot
    <3> QED
      BY <2>1, <3>1 DEF Consumed
  <2>3. CASE Unconsumed # {}
    <3>1. Slot = "pending" /\ Slot' = "none"
      BY <1>4, <2>1, <2>3, SlotValues DEF Withdraws, Slot
    <3> QED
      BY <2>1, <3>1 DEF Delivery!Withdraw, Consumed
  <2> QED
    BY <2>2, <2>3
<1>5. CASE Delivers
  <2>1. PICK g \in Unconsumed : /\ permits' = WithState({g}, "CONSUMED")
                                /\ owner' = g /\ held' = g
    BY <1>5 DEF Delivers
  <2>2. g = Len(permits) /\ g # 0
    <3>1. Unconsumed \subseteq {Len(permits)}
      BY <1>1 DEF OnlyLatest
    <3>2. Unconsumed \subseteq DOMAIN permits
      BY DEF Unconsumed
    <3>3. 0 \notin DOMAIN permits
      BY <1>1, PermitsType
    <3> QED
      BY <2>1, <3>1, <3>2, <3>3
  <2>3. Len(permits') = Len(permits) /\ Consumed' = Consumed \cup {g}
    <3>1. TypePermits /\ {g} \in SUBSET Unconsumed
      OBVIOUS
    <3>2. permits' = WithState({g}, "CONSUMED")
      BY <2>1
    <3> QED
      BY <3>1, <3>2, WithStateEffect
  <2>4. Slot = "pending" /\ Slot' = "running"
    BY <1>5, <2>1, <2>2 DEF Delivers, Slot
  <2> QED
    BY <2>2, <2>3, <2>4 DEF Delivery!Deliver, Consumed
<1>6. CASE Releases
  <2>1. /\ Unconsumed' = Unconsumed /\ Len(permits') = Len(permits)
        /\ Consumed' = Consumed
    BY <1>6, QuietEffect DEF Releases
  <2>2. Unconsumed = {}
    BY <1>6, SlotValues DEF Releases
  <2>3. Slot = "running" /\ Slot' = "none"
    BY <1>6, <2>1, <2>2, SlotValues DEF Releases, Slot
  <2> QED
    BY <2>1, <2>3 DEF Delivery!Release, Consumed
<1>7. CASE Abandons
  <2>1. Len(permits') = Len(permits) /\ Consumed' = Consumed
    BY <1>7, QuietEffect DEF Abandons
  <2>2. Slot = "running" /\ Slot' = "orphaned"
    BY <1>7, HeldIsOwner DEF Abandons, Slot
  <2> QED
    BY <2>1, <2>2 DEF Delivery!Crash, Consumed
<1> QED
  BY <1>2, <1>3, <1>4, <1>5, <1>6, <1>7, StepKind

\* Commands, deliveries, crashes and continues of one Run implement the
\* abstract delivery, from its beginning and from every later moment on: every
\* step of RunControl is a step of RunDelivery or changes nothing that
\* RunDelivery shows.
THEOREM RunControlImplementsDelivery ==
    Spec => Delivery!Spec /\ ImplementsDelivery
<1>1. Delivery!Init => Slot \in Delivery!Slots /\ Len(permits) \in Nat
                       /\ Delivery!PendingIsFresh
  BY DEF Delivery!Init, Delivery!Slots, Delivery!PendingIsFresh
<1> QED
  BY <1>1, DeliveryInit, DeliveryStep, Invariant, PTL
  DEF Spec, ImplementsDelivery, Delivery!Spec, Delivery!Rest

-----------------------------------------------------------------------------
(* What a step writes to the rows of the Run *)

rowVars == <<st, revisionVars, planVars, effectVars>>

\* A step that leaves the rows alone; the sequence may move all the same.
KeepsRows == UNCHANGED rowVars /\ seq' >= seq

CommandWrites ==
    \E t \in Threads :
        \/ CommitProposeBootstrap(t) \/ CommitProposeExecution(t)
        \/ \E inFlight \in BOOLEAN : CommitApprove(t, inFlight)
        \/ CommitApprovePlan(t) \/ CommitStart(t)

ReservationWrites ==
    \/ ReserveReuse \/ ReserveRecordIntent
    \/ \E observable \in BOOLEAN : ReservePreIntentStop(observable)
    \/ \E result \in DOMAIN DraftAfter : ReserveSettle(result)

PlanningWrites ==
    \/ PlanContextOverflow \/ PlanReservePaused
    \/ ApplyRead \/ \E overflow \in BOOLEAN : SettleRead(overflow)
    \/ \E tasksAtCeiling \in BOOLEAN : ApplySubmit(tasksAtCeiling)
    \/ ApplyFailure

RefWrites ==
    RefRecordIntent \/ RecordFault \/ \E outcome \in DOMAIN RefAfter : RefSettle(outcome)

WritesRows ==
    /\ seq' > seq
    /\ CommandWrites \/ ReservationWrites \/ PlanningWrites \/ RefWrites

LEMMA CommandRows ==
    ASSUME TypeOK, Command
    PROVE  KeepsRows \/ WritesRows
<1> USE DEF KeepsRows, rowVars
<1>0. seq \in Nat
  BY DEF TypeOK, TypeRun
<1>1. PICK t \in Threads :
          \/ \E cmd \in Commands : Decide(t, cmd)
          \/ \E u \in Threads : Redeliver(t, u)
          \/ Commit(t)
  BY DEF Command
<1>2. CASE (\E cmd \in Commands : Decide(t, cmd)) \/ \E u \in Threads : Redeliver(t, u)
  BY <1>0, <1>2 DEF Decide, Redeliver
<1>3. CASE CommitUnsequenced(t) \/ CommitRejection(t) \/ CommitProposeUnchanged(t)
  BY <1>0, <1>3 DEF CommitUnsequenced, CommitRejection, CommitProposeUnchanged, Record
<1>4. CASE BeginConflict(t) \/ CommitRaises(t) \/ CommitBegin(t)
  BY <1>0, <1>4 DEF BeginConflict, CommitRaises, CommitBegin, Record
<1>5. CASE \/ CommitProposeBootstrap(t) \/ CommitProposeExecution(t)
           \/ \E inFlight \in BOOLEAN : CommitApprove(t, inFlight)
           \/ CommitApprovePlan(t) \/ CommitStart(t)
  <2>1. Record(t)
    BY <1>5 DEF CommitProposeBootstrap, CommitProposeExecution, CommitApprove,
                CommitApprovePlan, CommitStart
  <2>2. seq' > seq
    BY <1>0, <2>1 DEF Record
  <2> QED
    BY <1>5, <2>2 DEF WritesRows, CommandWrites
<1> QED
  BY <1>1, <1>2, <1>3, <1>4, <1>5 DEF Commit

LEMMA DriveRows ==
    ASSUME TypeOK, Drive
    PROVE  KeepsRows \/ WritesRows
<1> USE DEF KeepsRows, rowVars
<1>0. seq \in Nat
  BY DEF TypeOK, TypeRun
<1>1. ASSUME NEW to, Goto(to)
      PROVE  KeepsRows
  BY <1>0, <1>1 DEF Goto
<1>2. CASE EntryDrive \/ EntryResume \/ EntryUnsettled \/ EntryBlocked \/ EntryRecover
  BY <1>0, <1>1, <1>2
  DEF EntryDrive, EntryResume, EntryUnsettled, EntryBlocked, EntryRecover
<1>3. CASE LoopNotAllowed \/ LoopNoBudget \/ LoopDrive \/ TimeExhausted \/ Leave
  BY <1>0, <1>1, <1>3
  DEF LoopNotAllowed, LoopNoBudget, LoopDrive, TimeExhausted, Leave
<1>4. CASE ReserveLoadIntent \/ SettleRaises
  BY <1>1, <1>4 DEF ReserveLoadIntent, SettleRaises
<1>5. CASE ReservationWrites
  <2>1. seq' = seq + 1
    BY <1>5 DEF ReservationWrites, ReserveReuse, ReserveRecordIntent,
                ReservePreIntentStop, ReserveSettle
  <2> QED
    BY <1>0, <1>5, <2>1 DEF WritesRows
<1>6. CASE \/ PlanNotAuthorized \/ PlanBarrierRaises \/ PlanReserveDenied
           \/ PlanProviderRaises \/ PlanSettleBarrierRaises
  BY <1>1, <1>6
  DEF PlanNotAuthorized, PlanBarrierRaises, PlanReserveDenied,
      PlanProviderRaises, PlanSettleBarrierRaises
<1>11. CASE PlanBeginBarrier \/ PlanSettleBarrier \/ PlanProviderNoAnswer
  BY <1>0, <1>11 DEF PlanBeginBarrier, PlanSettleBarrier, PlanProviderNoAnswer
<1>12. CASE \E otherCeiling \in BOOLEAN : PlanReserve(otherCeiling)
  BY <1>0, <1>12 DEF PlanReserve
<1>13. CASE \E act \in PlanningActions, p \in Plans : PlanProviderAnswer(act, p)
  <2>1. seq' = seq + 1 /\ UNCHANGED <<st, revisionVars, planVars, effectVars>>
    BY <1>13 DEF PlanProviderAnswer
  <2> QED
    BY <1>0, <2>1
<1>7. CASE PlanningWrites
  <2>1. seq' = seq + 1
    BY <1>7 DEF PlanningWrites, PlanContextOverflow, PlanReservePaused, ApplyRead,
                SettleRead, ApplySubmit, ApplyFailure
  <2> QED
    BY <1>0, <1>7, <2>1 DEF WritesRows
<1>8. CASE ApplyNotAuthorized \/ ApplyRaises \/ RefInitDenied \/ RefInitRaises
           \/ RefRecordRaises
  BY <1>1, <1>8
  DEF ApplyNotAuthorized, ApplyRaises, RefInitDenied, RefInitRaises, RefRecordRaises
<1>9. CASE RefInitBind \/ DeliveryStop \/ StopRaises
  BY <1>0, <1>9 DEF RefInitBind, DeliveryStop, StopRaises, Vanish
<1>10. CASE RefWrites
  <2>1. seq' = seq + 1
    BY <1>10 DEF RefWrites, RefRecordIntent, RecordFault, RefSettle
  <2> QED
    BY <1>0, <1>10, <2>1 DEF WritesRows
<1> QED
  BY <1>2, <1>3, <1>4, <1>5, <1>6, <1>7, <1>8, <1>9, <1>10, <1>11, <1>12, <1>13
  DEF Drive, ReservationWrites, PlanningWrites, RefWrites

\* Every step keeps the rows, or is one of the writes and moves the sequence.
LEMMA RowStep ==
    ASSUME TypeOK, [Next]_vars
    PROVE  KeepsRows \/ WritesRows
<1>0. seq \in Nat
  BY DEF TypeOK, TypeRun
<1>1. CASE Command \/ Drive
  BY <1>1, CommandRows, DriveRows
<1>2. CASE Continue
  BY <1>0, <1>2 DEF Continue, KeepsRows, rowVars
<1>3. CASE Acquire
  BY <1>0, <1>3 DEF Acquire, Consume, InvalidateStalePermit, KeepsRows, rowVars
<1>4. CASE \E at \in PCs : Fault(at) \/ Die(at)
  BY <1>0, <1>4 DEF Fault, Goto, Die, Vanish, KeepsRows, rowVars
<1>5. CASE UNCHANGED vars
  BY <1>0, <1>5 DEF vars, KeepsRows, rowVars
<1> QED
  BY <1>1, <1>2, <1>3, <1>4, <1>5 DEF Next

-----------------------------------------------------------------------------
(* What a command decided still holds while the sequence it expects is the *)
(* current one *)

GoodDecision(h) ==
    /\ h.exp <= seq /\ h.id \in 1 .. sent
    /\ h.exp = seq /\ h.verdict = "ACCEPT" =>
            h.state = st /\ h.bind = Current /\ Acceptable(h.cmd)

DecisionInv == \A t \in Threads : handler[t] # None => GoodDecision(handler[t])

LEMMA AcceptableKept ==
    ASSUME UNCHANGED rowVars
    PROVE  /\ Current' = Current
           /\ \A cmd : Acceptable(cmd) => Acceptable(cmd)'
<1>1. UNCHANGED <<st, current, docs, approved, plan, plans, planApproval>>
  BY DEF rowVars, revisionVars, planVars
<1> QED
  BY <1>1 DEF Acceptable, Frozen, CurrentApproved, Current

LEMMA DecisionKept ==
    ASSUME KeepsRows \/ seq' > seq, sent' >= sent, TypeOK, TypeOK'
    PROVE  \A h \in Decisions : GoodDecision(h) => GoodDecision(h)'
<1> SUFFICES ASSUME NEW h \in Decisions, GoodDecision(h) PROVE GoodDecision(h)'
  OBVIOUS
<1>1. h.exp \in Nat /\ h.id \in Nat /\ seq \in Nat /\ sent \in Nat
  <2>1. h.exp \in Nat /\ h.id \in Nat
    BY DEF Decisions
  <2> QED
    BY <2>1 DEF TypeOK, TypeRun, TypeCommands
<1>2. sent' \in Nat /\ seq' \in Nat
  BY DEF TypeOK, TypeRun, TypeCommands
<1>3. seq' >= seq /\ (seq' = seq => UNCHANGED rowVars)
  BY <1>1, <1>2 DEF KeepsRows
<1>4. h.exp <= seq' /\ h.id \in 1 .. sent'
  BY <1>1, <1>3, <1>2 DEF GoodDecision
<1>5. ASSUME h.exp = seq', h.verdict = "ACCEPT"
      PROVE  h.state = st' /\ h.bind = Current' /\ Acceptable(h.cmd)'
  <2>1. seq' = seq /\ UNCHANGED rowVars
    BY <1>1, <1>3, <1>2, <1>5 DEF GoodDecision
  <2>2. h.state = st /\ h.bind = Current /\ Acceptable(h.cmd)
    BY <1>5, <2>1 DEF GoodDecision
  <2>3. st' = st
    BY <2>1 DEF rowVars
  <2> QED
    BY <2>1, <2>2, <2>3, AcceptableKept
<1> QED
  BY <1>4, <1>5 DEF GoodDecision

LEMMA DriveCommands == Drive => UNCHANGED commandVars
<1>1. SUFFICES ASSUME Drive PROVE UNCHANGED commandVars
  OBVIOUS
<1>3. ASSUME NEW to, Goto(to)
      PROVE  UNCHANGED commandVars
  BY <1>3 DEF Goto
<1>2. CASE EntryDrive \/ EntryResume \/ EntryUnsettled \/ EntryBlocked \/ EntryRecover
  BY <1>3, <1>2
  DEF EntryDrive, EntryResume, EntryUnsettled, EntryBlocked, EntryRecover
<1>4. CASE LoopNotAllowed \/ LoopNoBudget \/ LoopDrive \/ TimeExhausted \/ Leave
  BY <1>3, <1>4
  DEF LoopNotAllowed, LoopNoBudget, LoopDrive, TimeExhausted, Leave
<1>5. CASE \/ ReserveReuse \/ ReserveRecordIntent \/ ReserveLoadIntent
           \/ \E observable \in BOOLEAN : ReservePreIntentStop(observable)
           \/ \E result \in DOMAIN DraftAfter : ReserveSettle(result)
           \/ SettleRaises
  BY <1>3, <1>5
  DEF ReserveReuse, ReserveRecordIntent, ReserveLoadIntent, ReservePreIntentStop,
      ReserveSettle, SettleRaises
<1>6. CASE \/ PlanNotAuthorized \/ PlanContextOverflow
           \/ PlanBeginBarrier \/ PlanBarrierRaises
           \/ \E otherCeiling \in BOOLEAN : PlanReserve(otherCeiling)
           \/ PlanReserveDenied \/ PlanReservePaused
           \/ \E act \in PlanningActions, p \in Plans : PlanProviderAnswer(act, p)
           \/ PlanProviderNoAnswer \/ PlanProviderRaises
           \/ PlanSettleBarrier \/ PlanSettleBarrierRaises
  BY <1>3, <1>6
  DEF PlanNotAuthorized, PlanContextOverflow, PlanBeginBarrier, PlanBarrierRaises,
      PlanReserve, PlanReserveDenied, PlanReservePaused, PlanProviderAnswer,
      PlanProviderNoAnswer, PlanProviderRaises, PlanSettleBarrier,
      PlanSettleBarrierRaises
<1>7. CASE \/ ApplyRead \/ \E overflow \in BOOLEAN : SettleRead(overflow)
           \/ \E tasksAtCeiling \in BOOLEAN : ApplySubmit(tasksAtCeiling)
           \/ ApplyFailure \/ ApplyNotAuthorized \/ ApplyRaises
  BY <1>3, <1>7
  DEF ApplyRead, SettleRead, ApplySubmit, ApplyFailure, ApplyNotAuthorized,
      ApplyRaises
<1>8. CASE \/ RefInitBind \/ RefInitDenied \/ RefInitRaises
           \/ RefRecordIntent \/ RefRecordRaises
           \/ \E outcome \in DOMAIN RefAfter : RefSettle(outcome)
           \/ DeliveryStop \/ StopRaises \/ RecordFault
  BY <1>3, <1>8
  DEF RefInitBind, RefInitDenied, RefInitRaises, RefRecordIntent, RefRecordRaises,
      RefSettle, DeliveryStop, StopRaises, Vanish, RecordFault
<1> QED
  BY <1>1, <1>2, <1>4, <1>5, <1>6, <1>7, <1>8 DEF Drive

\* Where what a thread holds after a step comes from.
HandlerMove(u) ==
    \/ \E v \in Threads :
          /\ handler[v] # None
          /\ \/ handler'[u] = handler[v]
             \/ handler'[u] = [handler[v] EXCEPT !.verdict = "REJECT"]
    \/ \E cmd \in Commands :
          /\ handler'[u] = Decision(sent + 1, cmd, Verdict(cmd))
          /\ sent' = sent + 1 /\ seq' = seq /\ UNCHANGED rowVars

LEMMA HandlerMoves ==
    ASSUME TypeOK, [Next]_vars
    PROVE  /\ sent' >= sent
           /\ \A u \in Threads : handler'[u] # None => HandlerMove(u)
<1>0. sent \in Nat /\ DOMAIN handler = Threads
  BY DEF TypeOK, TypeCommands
<1>1. ASSUME UNCHANGED <<sent, handler>>
      PROVE  /\ sent' >= sent
             /\ \A u \in Threads : handler'[u] # None => HandlerMove(u)
  BY <1>0, <1>1 DEF HandlerMove
<1>2. ASSUME NEW t \in Threads, sent' = sent, handler' = [handler EXCEPT ![t] = None]
      PROVE  /\ sent' >= sent
             /\ \A u \in Threads : handler'[u] # None => HandlerMove(u)
  BY <1>0, <1>2 DEF HandlerMove
<1>3. ASSUME NEW t \in Threads, NEW cmd \in Commands, Decide(t, cmd)
      PROVE  /\ sent' >= sent
             /\ \A u \in Threads : handler'[u] # None => HandlerMove(u)
  <2>1. /\ handler' = [handler EXCEPT ![t] = Decision(sent + 1, cmd, Verdict(cmd))]
        /\ sent' = sent + 1 /\ seq' = seq /\ UNCHANGED rowVars
    BY <1>3 DEF Decide, rowVars
  <2> QED
    BY <1>0, <2>1 DEF HandlerMove
<1>4. ASSUME NEW t \in Threads, NEW u \in Threads, Redeliver(t, u)
      PROVE  /\ sent' >= sent
             /\ \A v \in Threads : handler'[v] # None => HandlerMove(v)
  <2>1. handler' = [handler EXCEPT ![t] = handler[u]] /\ handler[u] # None /\ sent' = sent
    BY <1>4 DEF Redeliver
  <2> QED
    BY <1>0, <2>1 DEF HandlerMove
<1>5. ASSUME NEW t \in Threads, BeginConflict(t)
      PROVE  /\ sent' >= sent
             /\ \A u \in Threads : handler'[u] # None => HandlerMove(u)
  <2>1. /\ handler' = [handler EXCEPT ![t] = [handler[t] EXCEPT !.verdict = "REJECT"]]
        /\ handler[t] # None /\ sent' = sent
    BY <1>5 DEF BeginConflict, Accepting
  <2> QED
    BY <1>0, <2>1 DEF HandlerMove
<1>6. ASSUME NEW t \in Threads, Commit(t), ~BeginConflict(t)
      PROVE  sent' = sent /\ handler' = [handler EXCEPT ![t] = None]
  <2>1. CASE Record(t)
    BY <2>1 DEF Record
  <2>2. CASE CommitUnsequenced(t) \/ CommitRaises(t)
    BY <2>2 DEF CommitUnsequenced, CommitRaises
  <2> QED
    BY <1>6, <2>1, <2>2
    DEF Commit, CommitRejection, CommitProposeUnchanged, CommitProposeBootstrap,
        CommitProposeExecution, CommitApprove, CommitBegin, CommitApprovePlan,
        CommitStart
<1>7. CASE Command
  BY <1>2, <1>3, <1>4, <1>5, <1>6, <1>7 DEF Command
<1>8. CASE Continue
  <2>1. sent' = sent + 1 /\ handler' = handler
    BY <1>8 DEF Continue
  <2> QED
    BY <1>0, <2>1 DEF HandlerMove
<1>9. CASE Acquire
  BY <1>1, <1>9 DEF Acquire, Consume, InvalidateStalePermit, commandVars
<1>10. CASE Drive
  BY <1>1, <1>10, DriveCommands DEF commandVars
<1>11. CASE \E at \in PCs : Fault(at) \/ Die(at)
  BY <1>1, <1>11 DEF Fault, Goto, Die, Vanish, commandVars
<1>12. CASE UNCHANGED vars
  BY <1>1, <1>12 DEF vars, commandVars
<1> QED
  BY <1>7, <1>8, <1>9, <1>10, <1>11, <1>12 DEF Next

LEMMA DecisionStep ==
    ASSUME TypeOK, TypeOK', DecisionInv, [Next]_vars
    PROVE  DecisionInv'
<1> SUFFICES ASSUME NEW u \in Threads, handler'[u] # None
             PROVE  GoodDecision(handler[u])'
  BY DEF DecisionInv
<1>1. sent' >= sent /\ HandlerMove(u)
  BY HandlerMoves
<1>2. KeepsRows \/ seq' > seq
  BY RowStep DEF WritesRows
<1>3. \A h \in Decisions : GoodDecision(h) => GoodDecision(h)'
  BY <1>1, <1>2, DecisionKept
<1>4. ASSUME NEW v \in Threads, handler[v] # None,
             \/ handler'[u] = handler[v]
             \/ handler'[u] = [handler[v] EXCEPT !.verdict = "REJECT"]
      PROVE  GoodDecision(handler[u])'
  <2>1. handler[v] \in Decisions
    BY <1>4 DEF TypeOK, TypeCommands
  <2>2. GoodDecision(handler[v])
    BY <1>4 DEF DecisionInv
  <2>3. PICK h \in Decisions : h = handler[v]
    BY <2>1
  <2>4. GoodDecision(h)'
    BY <1>3, <2>2, <2>3
  <2>5. CASE handler'[u] = h
    BY <2>4, <2>5
  <2>6. CASE handler'[u] = [h EXCEPT !.verdict = "REJECT"]
    <3>1. handler'[u].exp = h.exp /\ handler'[u].id = h.id
          /\ handler'[u].verdict # "ACCEPT"
      BY <2>6 DEF Decisions
    <3> QED
      BY <2>4, <3>1 DEF GoodDecision
  <2> QED
    BY <1>4, <2>3, <2>5, <2>6
<1>5. ASSUME NEW cmd \in Commands,
             handler'[u] = Decision(sent + 1, cmd, Verdict(cmd)),
             sent' = sent + 1, seq' = seq, UNCHANGED rowVars
      PROVE  GoodDecision(handler[u])'
  <2>1. sent \in Nat /\ seq \in Nat
    BY DEF TypeOK, TypeRun, TypeCommands
  <2>2. /\ handler'[u].exp = seq /\ handler'[u].id = sent + 1
        /\ handler'[u].verdict = Verdict(cmd) /\ handler'[u].cmd = cmd
        /\ handler'[u].state = st /\ handler'[u].bind = Current
    BY <1>5 DEF Decision
  <2>3. Verdict(cmd) = "ACCEPT" => Acceptable(cmd)
    BY DEF Verdict
  <2>4. st' = st /\ Current' = Current /\ (Acceptable(cmd) => Acceptable(cmd)')
    BY <1>5, AcceptableKept DEF rowVars
  <2> QED
    BY <1>5, <2>1, <2>2, <2>3, <2>4 DEF GoodDecision
<1> QED
  BY <1>1, <1>4, <1>5 DEF HandlerMove

\* A command that commits in time commits what it decided, on the rows it
\* decided it on.
LEMMA CommitsInTime ==
    ASSUME TypeOK, DecisionInv, NEW t \in Threads, NEW kind, Accepting(t, kind)
    PROVE  /\ handler[t].state = st /\ handler[t].bind = Current
           /\ Acceptable(handler[t].cmd) /\ handler[t].cmd.kind = kind
           /\ handler[t].id \in 1 .. sent /\ handler[t].id \notin claims
BY DEF Accepting, InTime, DecisionInv, GoodDecision

-----------------------------------------------------------------------------
(* Where the live runtime can be, for each state of the Run *)

BeforePlan == {"DRAFT", "PLANNING"}

\* From the moment the runtime sees the Run in PLANNING only a proposal, which
\* returns it to DRAFT, changes its state under the runtime; a recovered action
\* that is not under a permit for PLANNING changes nothing.
PhaseInv ==
    /\ pc \in {"planning", "reserveModel", "provider", "settleRead"} => st \in BeforePlan
    /\ pc \in {"reserveModel", "provider"} => view.turn = 0
    /\ pc = "settleBarrier" => \/ st \in BeforePlan
                               \/ st = "PAUSED" /\ view.turn = 0
    /\ pc = "entry" => st \in BeforePlan \/ permits[held].phase # "PLANNING"
    /\ pc = "apply" => \/ st \in BeforePlan
                       \/ view.recovered /\ permits[held].phase # "PLANNING"
    /\ pc = "refCas" => /\ st = "ACTIVE" /\ runRef.state = "INIT_INTENT_RECORDED"
                        /\ "ref" \in unsettled

\* The moves of a Run's state: forward along the phases, back to DRAFT before
\* it executes, aside to PAUSED, and to INDETERMINATE.
StateMove ==
    \/ st' = st
    \/ st \notin ExecutionRevisionStates /\ st' = "DRAFT"
    \/ st = "DRAFT" /\ st' = "PLANNING"
    \/ st \in BeforePlan /\ st' = "PAUSED"
    \/ st = "PLANNING" /\ st' = "AWAITING_PLAN_APPROVAL"
    \/ st = "AWAITING_PLAN_APPROVAL" /\ st' = "READY_TO_START"
    \/ st = "READY_TO_START" /\ st' = "ACTIVE"
    \/ st = "ACTIVE" /\ st' = "PAUSED"
    \/ st' = "INDETERMINATE"

LEMMA AppliedBeforePlan ==
    PhaseInv /\ pc = "apply" /\ MarkerMatches => st \in BeforePlan
BY DEF PhaseInv, MarkerMatches

LEMMA StateMoves ==
    ASSUME TypeOK, DecisionInv, PhaseInv, [Next]_vars
    PROVE  StateMove
<1> USE DEF StateMove
<1>1. CASE KeepsRows
  BY <1>1 DEF KeepsRows, rowVars
<1>2. CASE CommandWrites
  <2>1. PICK t \in Threads :
          \/ CommitProposeBootstrap(t) \/ CommitProposeExecution(t)
          \/ \E inFlight \in BOOLEAN : CommitApprove(t, inFlight)
          \/ CommitApprovePlan(t) \/ CommitStart(t)
    BY <1>2 DEF CommandWrites
  <2>2. CASE CommitProposeBootstrap(t)
    <3>1. handler[t].state = st
      BY <2>2, CommitsInTime DEF CommitProposeBootstrap
    <3> QED
      BY <2>2, <3>1 DEF CommitProposeBootstrap, ProposalPhase
  <2>3. CASE CommitApprovePlan(t)
    BY <2>3 DEF CommitApprovePlan, PlanApprovable
  <2> QED
    BY <2>1, <2>2, <2>3 DEF CommitProposeExecution, CommitApprove, CommitStart
<1>3. CASE ReservationWrites
  BY <1>3
  DEF ReservationWrites, ReserveReuse, ReserveRecordIntent, ReservePreIntentStop,
      ReserveSettle, Settleable, UnderDraftPermit, DraftAfter
<1>4. CASE PlanningWrites
  <2>1. CASE PlanContextOverflow
    BY <2>1 DEF PlanContextOverflow, PhaseInv, BeforePlan, ExecutionRevisionStates
  <2>2. CASE PlanReservePaused
    BY <2>2 DEF PlanReservePaused, PhaseInv
  <2>3. CASE ApplyRead
    BY <2>3 DEF ApplyRead
  <2>4. CASE \E overflow \in BOOLEAN : SettleRead(overflow)
    BY <2>4 DEF SettleRead, PhaseInv
  <2>5. CASE \E tasksAtCeiling \in BOOLEAN : ApplySubmit(tasksAtCeiling)
    BY <2>5 DEF ApplySubmit, Submittable, BeforePlan
  <2>6. CASE ApplyFailure
    BY <2>6, AppliedBeforePlan DEF ApplyFailure
  <2> QED
    BY <1>4, <2>1, <2>2, <2>3, <2>4, <2>5, <2>6 DEF PlanningWrites
<1>5. CASE RefWrites
  <2>1. CASE RefRecordIntent
    BY <2>1 DEF RefRecordIntent, StartBindingCurrent
  <2>2. CASE RecordFault
    BY <2>2 DEF RecordFault
  <2>3. CASE \E outcome \in DOMAIN RefAfter : RefSettle(outcome)
    BY <2>3 DEF RefSettle, RefAfter
  <2> QED
    BY <1>5, <2>1, <2>2, <2>3 DEF RefWrites
<1> QED
  BY <1>1, <1>2, <1>3, <1>4, <1>5, RowStep DEF WritesRows

\* A Run that executes does not go back, and INDETERMINATE is for good.
LEMMA StatesStick ==
    ASSUME StateMove
    PROVE  /\ st \in ExecutionRevisionStates => st' \in ExecutionRevisionStates
           /\ st = "INDETERMINATE" => st' = "INDETERMINATE"
BY DEF StateMove, ExecutionRevisionStates, BeforePlan

\* While a runtime is alive a command leaves it and its permit alone, and
\* moves the Run only back to DRAFT or past the approval of a plan.
LEMMA CommandUnderRuntime ==
    ASSUME Inv, DecisionInv, Command, pc # "idle"
    PROVE  /\ UNCHANGED <<pc, held, view, permits, unsettled>>
           /\ \/ UNCHANGED <<st, runRef>>
              \/ st \notin ExecutionRevisionStates /\ st' = "DRAFT" /\ runRef' = runRef
              \/ st = "AWAITING_PLAN_APPROVAL"
<1> USE DEF Inv, effectVars, permitVars, planVars
<1>0. owner # 0 /\ Unconsumed = {} /\ DeliveryPending
  BY HeldIsOwner DEF OnlyLatest, DeliveryPending
<1>1. UNCHANGED <<pc, held, view>>
  BY CommandKeepsRuntime DEF runtimeVars
<1>2. PICK t \in Threads :
          \/ \E cmd \in Commands : Decide(t, cmd)
          \/ \E u \in Threads : Redeliver(t, u)
          \/ Commit(t)
  BY DEF Command
<1>3. CASE (\E cmd \in Commands : Decide(t, cmd)) \/ \E u \in Threads : Redeliver(t, u)
  BY <1>1, <1>3 DEF Decide, Redeliver
<1>4. CASE CommitUnsequenced(t) \/ CommitRejection(t) \/ CommitProposeUnchanged(t)
           \/ CommitProposeExecution(t) \/ BeginConflict(t) \/ CommitRaises(t)
           \/ \E inFlight \in BOOLEAN : CommitApprove(t, inFlight)
  BY <1>1, <1>4
  DEF CommitUnsequenced, CommitRejection, CommitProposeUnchanged,
      CommitProposeExecution, BeginConflict, CommitRaises, CommitApprove
<1>5. CASE CommitProposeBootstrap(t)
  <2>1. handler[t].state = st
    BY <1>5, CommitsInTime DEF CommitProposeBootstrap
  <2>2. permits' = permits
    <3>1. permits' = [g \in DOMAIN permits |-> permits[g]]
      BY <1>0, <1>5 DEF CommitProposeBootstrap, Withdrawn, WithState
    <3>2. permits = [g \in DOMAIN permits |-> permits[g]]
      BY PermitsType DEF TypeOK, TypePermits
    <3> QED
      BY <3>1, <3>2
  <2> QED
    BY <1>1, <1>5, <2>1, <2>2 DEF CommitProposeBootstrap, ProposalPhase
<1>6. CASE CommitApprovePlan(t)
  BY <1>1, <1>6 DEF CommitApprovePlan, PlanApprovable
<1>7. CASE CommitBegin(t) \/ CommitStart(t)
  BY <1>0, <1>7 DEF CommitBegin, CommitStart
<1> QED
  BY <1>2, <1>3, <1>4, <1>5, <1>6, <1>7 DEF Commit

LEMMA CommandPhase ==
    ASSUME Inv, DecisionInv, PhaseInv, Command
    PROVE  PhaseInv'
<1>1. CASE pc = "idle"
  <2>1. pc' = "idle"
    BY <1>1, CommandKeepsRuntime DEF runtimeVars
  <2> QED
    BY <2>1 DEF PhaseInv
<1>2. CASE pc # "idle"
  BY <1>2, CommandUnderRuntime
  DEF PhaseInv, BeforePlan, ExecutionRevisionStates
<1> QED
  BY <1>1, <1>2

LEMMA AcquirePhase ==
    ASSUME Inv, PhaseInv, Continue \/ Acquire
    PROVE  PhaseInv'
<1>1. CASE Continue
  BY <1>1 DEF Continue, OwnershipFree, runtimeVars, PhaseInv
<1>2. CASE Acquire
  <2>1. PICK g \in DOMAIN permits : Consume(g) \/ InvalidateStalePermit(g)
    BY <1>2 DEF Acquire
  <2>2. CASE Consume(g)
    <3>1. /\ permits[g].phase = st /\ st' = st /\ pc' = "entry" /\ held' = g
          /\ permits' = WithState({g}, "CONSUMED")
      BY <2>2 DEF Consume, PermitCurrent
    <3>2. permits'[g].phase = permits[g].phase
      BY <3>1, PermitsType DEF Inv, TypeOK, WithState, Permits
    <3> QED
      BY <3>1, <3>2 DEF PhaseInv, BeforePlan
  <2>3. CASE InvalidateStalePermit(g)
    BY <2>3 DEF InvalidateStalePermit, OwnershipFree, runtimeVars, PhaseInv
  <2> QED
    BY <2>1, <2>2, <2>3
<1> QED
  BY <1>1, <1>2

\* The places of the runtime at which PhaseInv says nothing.
Unbound == {"idle", "loop", "leave", "reserve", "settle", "refInit", "refRecord",
            "stop", "fault"}

LEMMA UnboundPhase == pc' \in Unbound => PhaseInv'
BY DEF Unbound, PhaseInv

LEMMA EntryPhase ==
    ASSUME PhaseInv, TypeOK,
           EntryDrive \/ EntryResume \/ EntryUnsettled \/ EntryBlocked \/ EntryRecover
    PROVE  PhaseInv'
<1>1. CASE EntryDrive \/ EntryUnsettled \/ EntryBlocked
  BY <1>1, UnboundPhase DEF EntryDrive, EntryUnsettled, EntryBlocked, Goto, Unbound
<1>2. ASSUME pc = "entry", pc' = "apply", UNCHANGED <<st, held, permits>>, view'.recovered
      PROVE  PhaseInv'
  BY <1>2 DEF PhaseInv
<1>3. ASSUME NEW i, Reopening(i) PROVE view'.recovered
  BY <1>3 DEF Reopening, TypeOK, TypeRuntime
<1>4. CASE EntryResume
  BY <1>2, <1>3, <1>4 DEF EntryResume, permitVars
<1>5. CASE EntryRecover
  BY <1>2, <1>3, <1>5 DEF EntryRecover, permitVars
<1> QED
  BY <1>1, <1>4, <1>5

LEMMA PlanningPhase ==
    ASSUME PhaseInv, ViewInv, TypeOK,
           \/ PlanNotAuthorized \/ PlanContextOverflow
           \/ PlanBeginBarrier \/ PlanBarrierRaises
           \/ \E otherCeiling \in BOOLEAN : PlanReserve(otherCeiling)
           \/ PlanReserveDenied \/ PlanReservePaused
           \/ \E act \in PlanningActions, p \in Plans : PlanProviderAnswer(act, p)
           \/ PlanProviderNoAnswer \/ PlanProviderRaises
           \/ PlanSettleBarrier \/ PlanSettleBarrierRaises
    PROVE  PhaseInv'
<1>1. CASE PlanNotAuthorized \/ PlanContextOverflow \/ PlanBarrierRaises
           \/ PlanProviderRaises \/ PlanSettleBarrierRaises
  BY <1>1, UnboundPhase
  DEF PlanNotAuthorized, PlanContextOverflow, PlanBarrierRaises, PlanProviderRaises,
      PlanSettleBarrierRaises, Goto, Unbound
<1>2. CASE PlanBeginBarrier
  <2>1. pc = "planning" /\ pc' = "reserveModel" /\ st' = st /\ view'.turn = 0
    BY <1>2 DEF PlanBeginBarrier, TypeOK, TypeRuntime
  <2> QED
    BY <2>1 DEF PhaseInv
<1>3. CASE \E otherCeiling \in BOOLEAN : PlanReserve(otherCeiling)
  BY <1>3 DEF PlanReserve, PhaseInv
<1>4. CASE PlanReserveDenied
  BY <1>4 DEF PlanReserveDenied, Goto, PhaseInv
<1>5. CASE PlanReservePaused
  BY <1>5 DEF PlanReservePaused, PhaseInv
<1>6. CASE \E act \in PlanningActions, p \in Plans : PlanProviderAnswer(act, p)
  <2>1. pc = "provider" /\ pc' = "settleBarrier" /\ st' = st
    BY <1>6 DEF PlanProviderAnswer
  <2> QED
    BY <2>1 DEF PhaseInv
<1>7. CASE PlanProviderNoAnswer
  BY <1>7 DEF PlanProviderNoAnswer, PhaseInv
<1>8. CASE PlanSettleBarrier
  <2>1. /\ pc = "settleBarrier" /\ UNCHANGED <<st, view>>
        /\ pc' = "leave" \/ (pc' = "apply" /\ view.turn # 0)
    BY <1>8 DEF PlanSettleBarrier
  <2> QED
    BY <2>1 DEF PhaseInv
<1> QED
  BY <1>1, <1>2, <1>3, <1>4, <1>5, <1>6, <1>7, <1>8

LEMMA ApplyPhase ==
    ASSUME PhaseInv, TypeOK,
           \/ ApplyRead \/ \E overflow \in BOOLEAN : SettleRead(overflow)
           \/ \E tasksAtCeiling \in BOOLEAN : ApplySubmit(tasksAtCeiling)
           \/ ApplyFailure \/ ApplyNotAuthorized \/ ApplyRaises
    PROVE  PhaseInv'
<1>1. CASE ApplyRead
  <2>1. st \in BeforePlan /\ st' = st /\ pc' = "settleRead"
    BY <1>1, AppliedBeforePlan DEF ApplyRead
  <2> QED
    BY <2>1 DEF PhaseInv
<1>2. CASE ApplyFailure \/ \E overflow \in BOOLEAN : SettleRead(overflow)
  BY <1>2, UnboundPhase DEF ApplyFailure, SettleRead, Unbound
<1>3. CASE \E tasksAtCeiling \in BOOLEAN : ApplySubmit(tasksAtCeiling)
  BY <1>3, UnboundPhase DEF ApplySubmit, Unbound
<1>4. CASE ApplyNotAuthorized \/ ApplyRaises
  BY <1>4, UnboundPhase DEF ApplyNotAuthorized, ApplyRaises, Goto, Unbound
<1> QED
  BY <1>1, <1>2, <1>3, <1>4

LEMMA OtherPhase ==
    ASSUME PhaseInv, TypeOK,
           \/ LoopNotAllowed \/ LoopNoBudget \/ LoopDrive \/ TimeExhausted \/ Leave
           \/ ReserveReuse \/ ReserveRecordIntent \/ ReserveLoadIntent
           \/ \E observable \in BOOLEAN : ReservePreIntentStop(observable)
           \/ \E result \in DOMAIN DraftAfter : ReserveSettle(result)
           \/ SettleRaises
           \/ RefInitBind \/ RefInitDenied \/ RefInitRaises
           \/ RefRecordIntent \/ RefRecordRaises
           \/ \E outcome \in DOMAIN RefAfter : RefSettle(outcome)
           \/ DeliveryStop \/ StopRaises \/ RecordFault
           \/ \E at \in PCs : Fault(at) \/ Die(at)
    PROVE  PhaseInv'
<1>1. CASE LoopNotAllowed \/ LoopNoBudget \/ TimeExhausted \/ Leave
           \/ ReserveLoadIntent \/ SettleRaises \/ RefInitDenied \/ RefInitRaises
           \/ RefRecordRaises \/ \E at \in PCs : Fault(at)
  BY <1>1, UnboundPhase
  DEF LoopNotAllowed, LoopNoBudget, TimeExhausted, Leave, ReserveLoadIntent,
      SettleRaises, RefInitDenied, RefInitRaises, RefRecordRaises, Fault, Goto, Unbound
<1>2. CASE LoopDrive
  <2>1. pc' = Driver /\ st' = st
    BY <1>2 DEF LoopDrive, Goto
  <2>2. Driver \in Unbound \/ (Driver = "planning" /\ st = "PLANNING")
    BY DEF Driver, Unbound
  <2>3. CASE Driver \in Unbound
    BY <2>1, <2>3, UnboundPhase
  <2>4. CASE Driver = "planning" /\ st = "PLANNING"
    BY <2>1, <2>4 DEF PhaseInv, BeforePlan
  <2> QED
    BY <2>2, <2>3, <2>4
<1>3. CASE \/ ReserveReuse \/ ReserveRecordIntent
           \/ \E observable \in BOOLEAN : ReservePreIntentStop(observable)
           \/ \E result \in DOMAIN DraftAfter : ReserveSettle(result)
  BY <1>3, UnboundPhase
  DEF ReserveReuse, ReserveRecordIntent, ReservePreIntentStop, ReserveSettle, Unbound
<1>4. CASE RefInitBind \/ RecordFault \/ \E outcome \in DOMAIN RefAfter : RefSettle(outcome)
  BY <1>4, UnboundPhase DEF RefInitBind, RefSettle, RecordFault, Unbound
<1>5. CASE RefRecordIntent
  <2>1. /\ pc' = "refCas" /\ st' = "ACTIVE"
        /\ runRef'.state = "INIT_INTENT_RECORDED" /\ "ref" \in unsettled'
    BY <1>5 DEF RefRecordIntent, TypeOK, TypePlans
  <2> QED
    BY <2>1 DEF PhaseInv
<1>6. CASE DeliveryStop \/ StopRaises \/ \E at \in PCs : Die(at)
  BY <1>6, UnboundPhase DEF DeliveryStop, StopRaises, Die, Vanish, Exit, Unbound
<1> QED
  BY <1>1, <1>2, <1>3, <1>4, <1>5, <1>6

LEMMA PhaseStep ==
    ASSUME Inv, DecisionInv, PhaseInv, [Next]_vars
    PROVE  PhaseInv'
<1> USE DEF Inv
<1>1. CASE Command \/ Continue \/ Acquire
  BY <1>1, CommandPhase, AcquirePhase
<1>2. CASE Drive
  BY <1>2, EntryPhase, PlanningPhase, ApplyPhase, OtherPhase DEF Drive
<1>3. CASE \E at \in PCs : Fault(at) \/ Die(at)
  BY <1>3, OtherPhase
<1>4. CASE UNCHANGED vars
  BY <1>4 DEF vars, runtimeVars, permitVars, planVars, effectVars, PhaseInv
<1> QED
  BY <1>1, <1>2, <1>3, <1>4 DEF Next

-----------------------------------------------------------------------------
(* The revision documents *)

\* A proposal that waits for its approval exists only once the Run executes:
\* before that a proposal is current at once.
DocumentsInv ==
    /\ CurrentDocument
    /\ st \notin ExecutionRevisionStates =>
            \A c \in Classes, r \in Revisions : docs[c][r] # "PROPOSED"

\* Before the Run executes an approval finds the revision current already.
LEMMA ApproveKeepsCurrent ==
    ASSUME TypeOK, DecisionInv, DocumentsInv, NEW t \in Threads, NEW inFlight \in BOOLEAN,
           CommitApprove(t, inFlight), st \notin ExecutionRevisionStates
    PROVE  current' = current
<1> DEFINE class == handler[t].cmd.class
           rev == handler[t].cmd.rev
<1>1. class \in Classes /\ rev \in Revisions
  BY HandlerType DEF TypeOK, CommitApprove, Accepting
<1>2. handler[t].state = st /\ docs[class][rev] \in {"PROPOSED", "CURRENT"}
  BY CommitsInTime DEF CommitApprove, Acceptable
<1>3. rev = current[class]
  BY <1>1, <1>2 DEF DocumentsInv, CurrentDocument
<1>4. current' = [current EXCEPT ![class] = rev]
  BY <1>2 DEF CommitApprove
<1> QED
  BY <1>1, <1>3, <1>4 DEF TypeOK, TypeRevisions

\* The runtime proposes and approves nothing.
LEMMA RuntimeWritesKeepRevisions ==
    ReservationWrites \/ PlanningWrites \/ RefWrites => UNCHANGED revisionVars
<1>1. ReservationWrites => UNCHANGED revisionVars
  BY DEF ReservationWrites, ReserveReuse, ReserveRecordIntent, ReservePreIntentStop,
         ReserveSettle
<1>2. PlanningWrites => UNCHANGED revisionVars
  BY DEF PlanningWrites, PlanContextOverflow, PlanReservePaused, ApplyRead, SettleRead,
         ApplySubmit, ApplyFailure
<1>3. RefWrites => UNCHANGED revisionVars
  BY DEF RefWrites, RefRecordIntent, RecordFault, RefSettle
<1> QED
  BY <1>1, <1>2, <1>3

\* While the Run executes no write changes its current Policy.
LEMMA PolicyKept ==
    ASSUME TypeOK, DecisionInv, [Next]_vars, st \in ExecutionRevisionStates,
           NEW c \in Classes \cap {"POLICY"}
    PROVE  current'[c] = current[c]
<1>1. CASE UNCHANGED current
  BY <1>1
<1>2. ASSUME NEW t \in Threads, CommitProposeBootstrap(t) PROVE FALSE
  BY <1>2, CommitsInTime DEF CommitProposeBootstrap
<1>3. ASSUME NEW t \in Threads, NEW inFlight \in BOOLEAN, CommitApprove(t, inFlight)
      PROVE  current'[c] = current[c]
  <2> DEFINE class == handler[t].cmd.class
             rev == handler[t].cmd.rev
  <2>1. class # "POLICY"
    BY <1>3, CommitsInTime DEF CommitApprove, Acceptable, Frozen
  <2>2. current' = current \/ current' = [current EXCEPT ![class] = rev]
    BY <1>3 DEF CommitApprove
  <2> QED
    BY <2>1, <2>2 DEF TypeOK, TypeRevisions
<1>4. CASE KeepsRows
  BY <1>4 DEF KeepsRows, rowVars, revisionVars
<1>5. CASE CommandWrites
  BY <1>1, <1>2, <1>3, <1>5
  DEF CommandWrites, CommitProposeExecution, CommitApprovePlan, CommitStart, revisionVars
<1>6. CASE ReservationWrites \/ PlanningWrites \/ RefWrites
  BY <1>1, <1>6, RuntimeWritesKeepRevisions DEF revisionVars
<1> QED
  BY <1>4, <1>5, <1>6, RowStep DEF WritesRows

LEMMA DocumentsStep ==
    ASSUME TypeOK, DecisionInv, PhaseInv, DocumentsInv, [Next]_vars
    PROVE  DocumentsInv'
<1>0. st' \notin ExecutionRevisionStates => st \notin ExecutionRevisionStates
  BY StateMoves, StatesStick
<1>1. CASE UNCHANGED <<docs, current>>
  BY <1>0, <1>1 DEF DocumentsInv, CurrentDocument
<1>2. ASSUME NEW t \in Threads,
             CommitProposeBootstrap(t) \/ CommitProposeExecution(t)
             \/ \E inFlight \in BOOLEAN : CommitApprove(t, inFlight)
      PROVE  DocumentsInv'
  <2> DEFINE class == handler[t].cmd.class
             rev == handler[t].cmd.rev
  <2>1. class \in Classes /\ rev \in Revisions
    BY <1>2, HandlerType
    DEF TypeOK, CommitProposeBootstrap, CommitProposeExecution, CommitApprove, Accepting
  <2> HIDE DEF class, rev
  <2>2. /\ docs \in [Classes -> [Revisions -> {"ABSENT", "PROPOSED", "CURRENT", "STALE"}]]
        /\ current \in [Classes -> Revisions]
    BY DEF TypeOK, TypeRevisions
  <2>3. CASE CommitProposeBootstrap(t)
    <3>1. /\ docs' = [docs EXCEPT ![class] = [r \in Revisions |->
                          IF r = rev THEN "CURRENT"
                          ELSE IF docs[class][r] = "ABSENT" THEN "ABSENT" ELSE "STALE"]]
          /\ current' = [current EXCEPT ![class] = rev]
      BY <2>3 DEF CommitProposeBootstrap, Superseded, class, rev
    <3>2. \A c \in Classes, r \in Revisions : docs'[c][r] =
              IF c = class
              THEN IF r = rev THEN "CURRENT"
                   ELSE IF docs[c][r] = "ABSENT" THEN "ABSENT" ELSE "STALE"
              ELSE docs[c][r]
      BY <2>1, <2>2, <3>1
    <3>3. \A c \in Classes : current'[c] = IF c = class THEN rev ELSE current[c]
      BY <2>1, <2>2, <3>1
    <3> QED
      BY <1>0, <3>2, <3>3 DEF DocumentsInv, CurrentDocument
  <2>4. CASE CommitProposeExecution(t)
    <3>1. /\ docs' = [docs EXCEPT ![class][rev] = "PROPOSED"]
          /\ current' = current /\ rev # current[class] /\ st' = st
      BY <2>4 DEF CommitProposeExecution, class, rev
    <3>2. \A c \in Classes, r \in Revisions : docs'[c][r] =
              IF c = class /\ r = rev THEN "PROPOSED" ELSE docs[c][r]
      BY <2>1, <2>2, <3>1
    <3>3. st' \in ExecutionRevisionStates
      BY <2>4, <3>1, CommitsInTime DEF CommitProposeExecution
    <3> QED
      BY <3>1, <3>2, <3>3 DEF DocumentsInv, CurrentDocument
  <2>5. ASSUME NEW inFlight \in BOOLEAN, CommitApprove(t, inFlight),
               ~UNCHANGED <<docs, current>>
        PROVE  DocumentsInv'
    <3>1. /\ docs' = [docs EXCEPT ![class] = [r \in Revisions |->
                          IF r = rev THEN "CURRENT"
                          ELSE IF docs[class][r] = "CURRENT" THEN "STALE" ELSE docs[class][r]]]
          /\ current' = [current EXCEPT ![class] = rev]
      BY <2>5 DEF CommitApprove, class, rev
    <3>2. \A c \in Classes, r \in Revisions : docs'[c][r] =
              IF c = class
              THEN IF r = rev THEN "CURRENT"
                   ELSE IF docs[c][r] = "CURRENT" THEN "STALE" ELSE docs[c][r]
              ELSE docs[c][r]
      BY <2>1, <2>2, <3>1
    <3>3. \A c \in Classes : current'[c] = IF c = class THEN rev ELSE current[c]
      BY <2>1, <2>2, <3>1
    <3> QED
      BY <1>0, <3>2, <3>3 DEF DocumentsInv, CurrentDocument
  <2> QED
    BY <1>1, <1>2, <2>3, <2>4, <2>5
<1>3. CASE KeepsRows
  BY <1>1, <1>3 DEF KeepsRows, rowVars, revisionVars
<1>4. CASE CommandWrites
  BY <1>1, <1>2, <1>4 DEF CommandWrites, CommitApprovePlan, CommitStart, revisionVars
<1>5. CASE ReservationWrites \/ PlanningWrites \/ RefWrites
  BY <1>1, <1>5, RuntimeWritesKeepRevisions DEF revisionVars
<1> QED
  BY <1>3, <1>4, <1>5, RowStep DEF WritesRows

-----------------------------------------------------------------------------
(* The reservation, the private ref and the journal of effects *)

EffectsInv ==
    /\ ReservedBeforePlanning /\ EffectsJournaled
    /\ planApproval = None <=> runRef.state = "NONE"
    /\ barrier = "INDETERMINATE" => st = "INDETERMINATE"

\* The rows of the effects, where a step leaves them alone.
LEMMA EffectsKept ==
    ASSUME EffectsInv, StateMove, UNCHANGED <<reservation, planApproval>>,
           \A x \in {"ref", "reservation"} : x \in unsettled' <=> x \in unsettled,
           runRef'.state = runRef.state,
           barrier' = "INDETERMINATE" => barrier = "INDETERMINATE" \/ st' = "INDETERMINATE",
           st = "DRAFT" /\ st' = "PLANNING" => Target
    PROVE  EffectsInv'
<1>1. Target' = Target
  BY DEF Target
<1>2. ReservedBeforePlanning'
  BY <1>1 DEF EffectsInv, ReservedBeforePlanning, StateMove, BeforePlan
<1>3. st = "INDETERMINATE" => st' = "INDETERMINATE"
  BY StatesStick
<1>4. EffectsJournaled'
  BY <1>3 DEF EffectsInv, EffectsJournaled
<1> QED
  BY <1>2, <1>3, <1>4 DEF EffectsInv

\* Only a recorded fault makes the outcome of a provider call uncertain.
LEMMA BarrierMove ==
    ASSUME [Next]_vars
    PROVE  barrier' = "INDETERMINATE" => barrier = "INDETERMINATE" \/ st' = "INDETERMINATE"
<1>1. CASE UNCHANGED barrier
  BY <1>1
<1>2. ASSUME NEW to, Goto(to) PROVE UNCHANGED barrier
  BY <1>2 DEF Goto, turnVars
<1>3. CASE Command
  BY <1>3, CommandKeepsRuntime DEF turnVars
<1>4. CASE Continue \/ Acquire \/ UNCHANGED vars
  BY <1>4 DEF Continue, Acquire, Consume, InvalidateStalePermit, vars, turnVars
<1>5. CASE EntryDrive \/ EntryResume \/ EntryUnsettled \/ EntryBlocked \/ EntryRecover
  BY <1>1, <1>2, <1>5
  DEF EntryDrive, EntryResume, EntryUnsettled, EntryBlocked, EntryRecover, turnVars
<1>6. CASE LoopNotAllowed \/ LoopNoBudget \/ LoopDrive \/ TimeExhausted \/ Leave
  BY <1>1, <1>2, <1>6
  DEF LoopNotAllowed, LoopNoBudget, LoopDrive, TimeExhausted, Leave, turnVars
<1>7. CASE ReservationWrites \/ ReserveLoadIntent \/ SettleRaises
  BY <1>1, <1>2, <1>7
  DEF ReservationWrites, ReserveReuse, ReserveRecordIntent, ReserveLoadIntent,
      ReservePreIntentStop, ReserveSettle, SettleRaises, turnVars
<1>8. CASE \/ PlanNotAuthorized \/ PlanContextOverflow
           \/ PlanBeginBarrier \/ PlanBarrierRaises
           \/ \E otherCeiling \in BOOLEAN : PlanReserve(otherCeiling)
           \/ PlanReserveDenied \/ PlanReservePaused
           \/ \E act \in PlanningActions, p \in Plans : PlanProviderAnswer(act, p)
           \/ PlanProviderNoAnswer \/ PlanProviderRaises
           \/ PlanSettleBarrier \/ PlanSettleBarrierRaises
  BY <1>2, <1>8
  DEF PlanNotAuthorized, PlanContextOverflow, PlanBeginBarrier, PlanBarrierRaises,
      PlanReserve, PlanReserveDenied, PlanReservePaused, PlanProviderAnswer,
      PlanProviderNoAnswer, PlanProviderRaises, PlanSettleBarrier,
      PlanSettleBarrierRaises, turnVars
<1>9. CASE \/ ApplyRead \/ \E overflow \in BOOLEAN : SettleRead(overflow)
           \/ \E tasksAtCeiling \in BOOLEAN : ApplySubmit(tasksAtCeiling)
           \/ ApplyFailure \/ ApplyNotAuthorized \/ ApplyRaises
  BY <1>1, <1>2, <1>9
  DEF ApplyRead, SettleRead, ApplySubmit, ApplyFailure, ApplyNotAuthorized,
      ApplyRaises, turnVars
<1>10. CASE \/ RefInitBind \/ RefInitDenied \/ RefInitRaises
            \/ RefRecordIntent \/ RefRecordRaises
            \/ \E outcome \in DOMAIN RefAfter : RefSettle(outcome)
            \/ DeliveryStop \/ StopRaises
            \/ \E at \in PCs : Fault(at) \/ Die(at)
  BY <1>1, <1>2, <1>10
  DEF RefInitBind, RefInitDenied, RefInitRaises, RefRecordIntent, RefRecordRaises,
      RefSettle, DeliveryStop, StopRaises, Fault, Die, Vanish, turnVars
<1>11. CASE RecordFault
  BY <1>11 DEF RecordFault
<1> QED
  BY <1>3, <1>4, <1>5, <1>6, <1>7, <1>8, <1>9, <1>10, <1>11
  DEF Next, Drive, ReservationWrites

LEMMA EffectsStep ==
    ASSUME TypeOK, TypeOK', DecisionInv, PhaseInv, EffectsInv, [Next]_vars
    PROVE  EffectsInv'
<1>0. /\ StateMove
      /\ barrier' = "INDETERMINATE" => barrier = "INDETERMINATE" \/ st' = "INDETERMINATE"
  BY StateMoves, BarrierMove
<1>1. CASE UNCHANGED <<st, planApproval, runRef, reservation, unsettled>>
  BY <1>0, <1>1, EffectsKept
<1>2. CASE KeepsRows
  BY <1>1, <1>2 DEF KeepsRows, rowVars, planVars, effectVars
<1>3. ASSUME NEW t \in Threads,
             \/ CommitProposeBootstrap(t) \/ CommitProposeExecution(t)
             \/ \E inFlight \in BOOLEAN : CommitApprove(t, inFlight)
      PROVE  EffectsInv'
  <2>1. UNCHANGED <<planApproval, runRef, reservation, unsettled>> /\ st' \in {st, "DRAFT"}
    BY <1>3 DEF CommitProposeBootstrap, CommitProposeExecution, CommitApprove,
                planVars, effectVars, ProposalPhase
  <2> QED
    BY <1>0, <2>1, EffectsKept
<1>4. ASSUME NEW t \in Threads, CommitApprovePlan(t)
      PROVE  EffectsInv'
  <2>1. /\ st = "AWAITING_PLAN_APPROVAL" /\ planApproval = None
        /\ st' = "READY_TO_START" /\ planApproval' \in Plans
        /\ runRef'.state = "ABSENT_EXPECTED"
        /\ UNCHANGED <<reservation, unsettled, barrier>>
    BY <1>4, HandlerType
    DEF CommitApprovePlan, PlanApprovable, effectVars, turnVars, Accepting, TypeOK
  <2>2. "ref" \notin unsettled /\ Target /\ Target' = Target
    BY <2>1 DEF EffectsInv, EffectsJournaled, ReservedBeforePlanning, Target
  <2>3. planApproval' # None
    BY <2>1, ConstantsAssumption
  <2> QED
    BY <2>1, <2>2, <2>3 DEF EffectsInv, EffectsJournaled, ReservedBeforePlanning
<1>5. ASSUME NEW t \in Threads, CommitStart(t)
      PROVE  EffectsInv'
  <2>1. UNCHANGED <<st, planApproval, reservation, unsettled>>
    BY <1>5 DEF CommitStart, effectVars
  <2>2. runRef'.state = runRef.state
    BY <1>5 DEF CommitStart, TypeOK, TypePlans
  <2> QED
    BY <1>0, <2>1, <2>2, EffectsKept
<1>6. CASE ReserveReuse \/ \E observable \in BOOLEAN : ReservePreIntentStop(observable)
  <2>1. UNCHANGED <<planApproval, runRef, reservation, unsettled>>
        /\ (st' = "PLANNING" => Target \/ st' = st)
    BY <1>6 DEF ReserveReuse, ReservePreIntentStop, Reusable, Target, planVars, effectVars
  <2> QED
    BY <1>0, <2>1, EffectsKept
<1>7. CASE ReserveRecordIntent
  <2>1. /\ st = "DRAFT" /\ st' = st
        /\ reservation'.phase = "CREATION_INTENT_RECORDED"
        /\ unsettled' = unsettled \cup {"reservation"}
        /\ UNCHANGED <<planApproval, runRef, barrier>>
    BY <1>7 DEF ReserveRecordIntent, UnderDraftPermit, planVars, turnVars
  <2> QED
    BY <2>1 DEF EffectsInv, EffectsJournaled, ReservedBeforePlanning
<1>8. ASSUME NEW result \in DOMAIN DraftAfter, ReserveSettle(result)
      PROVE  EffectsInv'
  <2>1. result \in {"REGISTERED_LOCKED", "CONFLICT", "UNOBSERVABLE"}
    BY DEF DraftAfter
  <2>2. /\ st = "DRAFT" /\ st' = DraftAfter[result]
        /\ reservation'.phase = CASE result = "REGISTERED_LOCKED" -> result
                                  [] result = "CONFLICT" -> "ALLOCATED"
                                  [] OTHER -> reservation.phase
        /\ unsettled' = unsettled \ {"reservation"}
        /\ UNCHANGED <<planApproval, runRef, barrier>>
    BY <1>8 DEF ReserveSettle, Settleable, UnderDraftPermit, planVars, turnVars,
                TypeOK, TypeEffects
  <2> QED
    BY <2>1, <2>2
    DEF EffectsInv, EffectsJournaled, ReservedBeforePlanning, DraftAfter, Target
<1>9. CASE PlanningWrites
  <2>1. /\ UNCHANGED <<planApproval, runRef, reservation>>
        /\ \A x \in {"ref", "reservation"} : x \in unsettled' <=> x \in unsettled
        /\ st' # "PLANNING" \/ st' = st
    BY <1>9 DEF PlanningWrites, PlanContextOverflow, PlanReservePaused, ApplyRead,
                SettleRead, ApplySubmit, ApplyFailure, planVars, effectVars
  <2> QED
    BY <1>0, <2>1, EffectsKept
<1>10. CASE RefRecordIntent
  <2>1. /\ st = "READY_TO_START" /\ st' = "ACTIVE" /\ runRef.state = "ABSENT_EXPECTED"
        /\ runRef'.state = "INIT_INTENT_RECORDED"
        /\ unsettled' = unsettled \cup {"ref"}
        /\ UNCHANGED <<planApproval, reservation, barrier>>
    BY <1>10 DEF RefRecordIntent, StartBindingCurrent, turnVars, TypeOK, TypePlans
  <2> QED
    BY <2>1 DEF EffectsInv, EffectsJournaled, ReservedBeforePlanning, Target
<1>11. ASSUME NEW outcome \in DOMAIN RefAfter, RefSettle(outcome)
       PROVE  EffectsInv'
  <2>1. outcome \in {"PRESENT", "CONFLICT", "ABSENT_EXPECTED", "INIT_INTENT_RECORDED"}
    BY DEF RefAfter
  <2>2. st = "ACTIVE" /\ runRef.state = "INIT_INTENT_RECORDED"
    BY <1>11 DEF RefSettle, PhaseInv
  <2>3. /\ st' = RefAfter[outcome] /\ runRef'.state = outcome
        /\ unsettled' = unsettled \ {"ref"}
        /\ UNCHANGED <<planApproval, reservation, barrier>>
    BY <1>11, <2>2 DEF RefSettle, turnVars, TypeOK, TypePlans
  <2> QED
    BY <2>1, <2>2, <2>3
    DEF EffectsInv, EffectsJournaled, ReservedBeforePlanning, RefAfter, Target
<1>12. CASE RecordFault
  <2>1. UNCHANGED <<planApproval, runRef, reservation, unsettled>>
        /\ st' \in {st, "INDETERMINATE"}
    BY <1>12 DEF RecordFault, planVars, effectVars
  <2> QED
    BY <1>0, <2>1, EffectsKept
<1>13. CASE WritesRows
  BY <1>3, <1>4, <1>5, <1>6, <1>7, <1>8, <1>9, <1>10, <1>11, <1>12, <1>13
  DEF WritesRows, CommandWrites, ReservationWrites, RefWrites
<1> QED
  BY <1>2, <1>13, RowStep

-----------------------------------------------------------------------------
(* The plan a Run is bound to *)

LEMMA PlansKept ==
    ASSUME PlanApproved, UNCHANGED <<current, plan, plans, planApproval>>,
           runRef'.state = runRef.state,
           st' \in {"AWAITING_PLAN_APPROVAL", "READY_TO_START", "ACTIVE"} => st' = st
    PROVE  PlanApproved'
BY DEF PlanApproved, PlanBinding, ActiveUnderApprovedPlan

LEMMA SubmittedPlan ==
    ASSUME TypeOK, ViewInv, NEW tasksAtCeiling \in BOOLEAN, ApplySubmit(tasksAtCeiling)
    PROVE  \E p \in Plans : plans'[p] = [rev |-> current, state |-> "PROPOSED"]
<1>1. view.turn \in DOMAIN turns
  BY TurnsType DEF TypeOK, ViewInv, ApplySubmit
<1>2. Turn.plan \in Plans
  BY <1>1, TurnsType DEF TypeOK, Turn, Turns
<1>3. view.bind.rev = current
  BY DEF ApplySubmit, Submittable, Current
<1>4. plans'[Turn.plan] = [rev |-> current, state |-> "PROPOSED"]
  BY <1>2, <1>3 DEF TypeOK, TypePlans, ApplySubmit
<1> QED
  BY <1>2, <1>4

LEMMA PlanStep ==
    ASSUME TypeOK, ViewInv, DecisionInv, PhaseInv, DocumentsInv, PlanApproved, [Next]_vars
    PROVE  PlanApproved'
<1>1. CASE KeepsRows
  BY <1>1, PlansKept DEF KeepsRows, rowVars, planVars, revisionVars
<1>2. ASSUME NEW t \in Threads, CommitProposeBootstrap(t)
      PROVE  PlanApproved'
  BY <1>2 DEF CommitProposeBootstrap, ProposalPhase, PlanApproved, PlanBinding,
              ActiveUnderApprovedPlan
<1>3. ASSUME NEW t \in Threads, CommitProposeExecution(t)
      PROVE  PlanApproved'
  BY <1>3, PlansKept DEF CommitProposeExecution, planVars
<1>4. ASSUME NEW t \in Threads, NEW inFlight \in BOOLEAN, CommitApprove(t, inFlight)
      PROVE  PlanApproved'
  <2>1. UNCHANGED <<st, plan, plans, planApproval, runRef>>
    BY <1>4 DEF CommitApprove, planVars
  <2>2. CASE st \in ExecutionRevisionStates
    BY <2>1, <2>2 DEF PlanApproved, PlanBinding, ActiveUnderApprovedPlan,
                      ExecutionRevisionStates
  <2>3. CASE st \notin ExecutionRevisionStates
    BY <1>4, <2>1, <2>3, ApproveKeepsCurrent, PlansKept
  <2> QED
    BY <2>2, <2>3
<1>5. ASSUME NEW t \in Threads, CommitApprovePlan(t)
      PROVE  PlanApproved'
  <2> DEFINE p == handler[t].cmd.plan
  <2>1. p \in Plans /\ handler[t].bind = Current
    BY <1>5, HandlerType, CommitsInTime DEF TypeOK, CommitApprovePlan, Accepting
  <2>2. plans[p] \in Proposals /\ plans[p].rev = current
    BY <1>5, <2>1 DEF TypeOK, TypePlans, CommitApprovePlan, PlanApprovable, Current
  <2>3. /\ plans' = [plans EXCEPT ![p] = [plans[p] EXCEPT !.state = "APPROVED"]]
        /\ st' = "READY_TO_START" /\ plan' = p /\ planApproval' = p
        /\ current' = current
    BY <1>5 DEF CommitApprovePlan, revisionVars
  <2>4. plans'[p] = [rev |-> current, state |-> "APPROVED"]
    BY <2>1, <2>2, <2>3 DEF TypeOK, TypePlans, Proposals
  <2>5. p # None
    BY <2>1, ConstantsAssumption
  <2> QED
    BY <2>3, <2>4, <2>5 DEF PlanApproved, PlanBinding, ActiveUnderApprovedPlan
<1>6. ASSUME NEW t \in Threads, CommitStart(t)
      PROVE  PlanApproved'
  <2>1. runRef'.state = runRef.state
    BY <1>6 DEF CommitStart, TypeOK, TypePlans
  <2> QED
    BY <1>6, <2>1, PlansKept DEF CommitStart, revisionVars
<1>7. CASE ReservationWrites
  <2>1. st' \in {st, "DRAFT", "PLANNING", "INDETERMINATE"} /\ UNCHANGED planVars
    BY <1>7 DEF ReservationWrites, ReserveReuse, ReserveRecordIntent,
                ReservePreIntentStop, ReserveSettle, DraftAfter
  <2> QED
    BY <1>7, <2>1, RuntimeWritesKeepRevisions, PlansKept DEF planVars, revisionVars
<1>8. CASE PlanContextOverflow \/ PlanReservePaused \/ ApplyRead \/ ApplyFailure
           \/ \E overflow \in BOOLEAN : SettleRead(overflow)
  <2>1. st' \in {st, "DRAFT", "PAUSED"} /\ UNCHANGED planVars
    BY <1>8 DEF PlanContextOverflow, PlanReservePaused, ApplyRead, ApplyFailure,
                SettleRead
  <2> QED
    BY <1>8, <2>1, RuntimeWritesKeepRevisions, PlansKept
    DEF PlanningWrites, planVars, revisionVars
<1>9. ASSUME NEW tasksAtCeiling \in BOOLEAN, ApplySubmit(tasksAtCeiling)
      PROVE  PlanApproved'
  <2>1. st' \in {"PAUSED", "AWAITING_PLAN_APPROVAL"} /\ current' = current
    BY <1>9 DEF ApplySubmit, revisionVars
  <2> QED
    BY <1>9, <2>1, SubmittedPlan DEF PlanApproved, PlanBinding, ActiveUnderApprovedPlan
<1>10. CASE RefRecordIntent
  <2>1. /\ st = "READY_TO_START" /\ st' = "ACTIVE"
        /\ runRef'.state = "INIT_INTENT_RECORDED"
        /\ UNCHANGED <<plan, plans, planApproval>>
    BY <1>10 DEF RefRecordIntent, StartBindingCurrent, TypeOK, TypePlans
  <2> QED
    BY <2>1 DEF PlanApproved, PlanBinding, ActiveUnderApprovedPlan
<1>11. ASSUME NEW outcome \in DOMAIN RefAfter, RefSettle(outcome)
       PROVE  PlanApproved'
  <2>1. /\ st = "ACTIVE" /\ st' = RefAfter[outcome] /\ runRef'.state = outcome
        /\ UNCHANGED <<plan, plans, planApproval>>
    BY <1>11 DEF RefSettle, PhaseInv, TypeOK, TypePlans
  <2>2. /\ st' \in {"ACTIVE", "PAUSED", "INDETERMINATE"}
        /\ st' = "ACTIVE" => outcome = "PRESENT"
    BY <2>1 DEF RefAfter
  <2> QED
    BY <2>1, <2>2 DEF PlanApproved, PlanBinding, ActiveUnderApprovedPlan
<1>12. CASE RecordFault
  <2>1. st' \in {st, "INDETERMINATE"} /\ UNCHANGED <<planVars, revisionVars>>
    BY <1>12 DEF RecordFault
  <2> QED
    BY <2>1, PlansKept DEF planVars, revisionVars
<1>13. CASE WritesRows
  BY <1>2, <1>3, <1>4, <1>5, <1>6, <1>7, <1>8, <1>9, <1>10, <1>11, <1>12, <1>13
  DEF WritesRows, CommandWrites, PlanningWrites, RefWrites
<1> QED
  BY <1>1, <1>13, RowStep

-----------------------------------------------------------------------------
(* The requests and the permits they mint *)

PermitsInv ==
    /\ PermitsInOrder
    /\ claims \subseteq 1 .. sent
    /\ \A g \in DOMAIN permits :
          /\ permits[g].id \in claims
          /\ permits[g].source = "begin" => permits[g].phase = "DRAFT"
          /\ permits[g].source = "start" => permits[g].phase = "READY_TO_START"

\* The permits stay, up to the state of the outstanding one.
KeepsPermits ==
    /\ DOMAIN permits' = DOMAIN permits
    /\ \A g \in DOMAIN permits :
          /\ permits'[g].id = permits[g].id /\ permits'[g].source = permits[g].source
          /\ permits'[g].phase = permits[g].phase /\ permits'[g].bind = permits[g].bind
          /\ permits'[g].target = permits[g].target
          /\ permits'[g].progress = permits[g].progress
    /\ Unconsumed' \subseteq Unconsumed

\* A new permit, for a request that had no outcome.
MintsPermit ==
    \E id \in 1 .. sent', source \in {"begin", "start", "continue"} :
        /\ Unconsumed = {}
        /\ id \notin claims /\ id \in claims'
        /\ Issue(id, source, st)
        /\ source = "begin" => st = "DRAFT" /\ CurrentApproved
        /\ source = "start" => st = "READY_TO_START"
        /\ UNCHANGED <<st, current, plan, approved, reservation, progress>>

LEMMA WithStateKeeps ==
    ASSUME TypePermits, NEW gens \in SUBSET Unconsumed,
           NEW s \in {"CONSUMED", "INVALIDATED"}, permits' = WithState(gens, s)
    PROVE  KeepsPermits
<1>1. DOMAIN permits' = DOMAIN permits /\ Unconsumed' \subseteq Unconsumed
  BY WithStateEffect
<1>2. \A g \in DOMAIN permits :
          permits'[g] = IF g \in gens THEN [permits[g] EXCEPT !.state = s] ELSE permits[g]
  BY DEF WithState
<1>3. \A g \in DOMAIN permits : permits[g] \in Permits
  BY PermitsType
<1> QED
  BY <1>1, <1>2, <1>3 DEF KeepsPermits, Permits

LEMMA ClaimsStep ==
    ASSUME TypeOK, TypeOK', DecisionInv, claims \subseteq 1 .. sent, [Next]_vars
    PROVE  claims \subseteq claims' /\ claims' \subseteq 1 .. sent'
<1>0. sent \in Nat /\ sent' \in Nat
  BY DEF TypeOK, TypeCommands
<1>1. CASE UNCHANGED claims
  BY <1>0, <1>1, HandlerMoves
<1>2. ASSUME NEW t \in Threads, handler[t] # None, sent' = sent,
             claims' = claims \cup {handler[t].id}
      PROVE  claims \subseteq claims' /\ claims' \subseteq 1 .. sent'
  BY <1>0, <1>2 DEF DecisionInv, GoodDecision
<1>3. ASSUME NEW t \in Threads, Commit(t), ~UNCHANGED claims
      PROVE  /\ handler[t] # None /\ sent' = sent
             /\ claims' = claims \cup {handler[t].id}
  <2>1. CASE Record(t)
    BY <1>3, <2>1
    DEF Record, Commit, CommitUnsequenced, CommitRejection, CommitProposeUnchanged,
        CommitProposeBootstrap, CommitProposeExecution, CommitApprove, CommitBegin,
        BeginConflict, CommitApprovePlan, CommitStart, CommitRaises, Accepting
  <2>2. CASE CommitUnsequenced(t)
    BY <2>2 DEF CommitUnsequenced
  <2> QED
    BY <1>3, <2>1, <2>2
    DEF Commit, CommitRejection, CommitProposeUnchanged, CommitProposeBootstrap,
        CommitProposeExecution, CommitApprove, CommitBegin, BeginConflict,
        CommitApprovePlan, CommitStart, CommitRaises
<1>4. CASE Command
  BY <1>1, <1>2, <1>3, <1>4 DEF Command, Decide, Redeliver
<1>5. CASE Continue
  BY <1>0, <1>5 DEF Continue
<1>6. CASE Drive
  BY <1>1, <1>6, DriveCommands DEF commandVars
<1>7. CASE Acquire \/ (\E at \in PCs : Fault(at) \/ Die(at)) \/ UNCHANGED vars
  BY <1>1, <1>7
  DEF Acquire, Consume, InvalidateStalePermit, Fault, Goto, Die, Vanish, vars, commandVars
<1> QED
  BY <1>4, <1>5, <1>6, <1>7 DEF Next

LEMMA PermitMoves ==
    ASSUME Inv, DecisionInv, claims \subseteq 1 .. sent, [Next]_vars
    PROVE  KeepsPermits \/ MintsPermit
<1> USE DEF Inv, TypeOK
<1>0. sent \in Nat
  BY DEF TypeCommands
<1>1. CASE UNCHANGED permits
  BY <1>1 DEF KeepsPermits, Unconsumed
<1>2. CASE Withdraws \/ Delivers
  BY <1>2, WithStateKeeps DEF Withdraws, Withdrawn, Delivers
<1>3. ASSUME NEW t \in Threads, CommitBegin(t)
      PROVE  MintsPermit
  <2>1. /\ handler[t].id \in 1 .. sent /\ handler[t].id \notin claims
        /\ Acceptable(handler[t].cmd) /\ handler[t].cmd.kind = "begin"
    BY <1>3, CommitsInTime DEF CommitBegin
  <2>2. st = "DRAFT" /\ CurrentApproved
    BY <2>1 DEF Acceptable
  <2>3. /\ Unconsumed = {} /\ Issue(handler[t].id, "begin", "DRAFT")
        /\ claims' = claims \cup {handler[t].id} /\ sent' = sent
        /\ UNCHANGED <<st, current, plan, approved, reservation, progress>>
    BY <1>3 DEF CommitBegin, DeliveryPending, Record, revisionVars, planVars, effectVars
  <2> QED
    BY <2>1, <2>2, <2>3 DEF MintsPermit
<1>4. ASSUME NEW t \in Threads, CommitStart(t)
      PROVE  MintsPermit
  <2>1. /\ handler[t].id \in 1 .. sent /\ handler[t].id \notin claims
    BY <1>4, CommitsInTime DEF CommitStart
  <2>2. st = "READY_TO_START"
    BY <1>4 DEF CommitStart, Issuable
  <2>3. /\ Unconsumed = {} /\ Issue(handler[t].id, "start", "READY_TO_START")
        /\ claims' = claims \cup {handler[t].id} /\ sent' = sent
        /\ UNCHANGED <<st, current, plan, approved, reservation, progress>>
    BY <1>4 DEF CommitStart, DeliveryPending, Record, revisionVars, effectVars
  <2> QED
    BY <2>1, <2>2, <2>3 DEF MintsPermit
<1>5. CASE Continue
  <2>1. sent + 1 \notin claims
    BY <1>0
  <2>2. /\ Unconsumed = {} /\ Issue(sent + 1, "continue", st)
        /\ claims' = claims \cup {sent + 1} /\ sent' = sent + 1
        /\ UNCHANGED <<st, current, plan, approved, reservation, progress>>
    BY <1>5 DEF Continue, revisionVars, planVars, effectVars
  <2> QED
    BY <1>0, <2>1, <2>2 DEF MintsPermit
<1>6. ASSUME NEW t \in Threads, Commit(t)
      PROVE  \/ CommitBegin(t) \/ CommitStart(t) \/ UNCHANGED permits \/ Withdraws
  BY <1>6, CommandKeepsRuntime
  DEF Command, Commit, CommitUnsequenced, CommitRejection, CommitProposeUnchanged,
      CommitProposeBootstrap, CommitProposeExecution, CommitApprove, BeginConflict,
      CommitApprovePlan, CommitRaises, permitVars, runtimeVars, Withdraws
<1>7. CASE Command
  BY <1>1, <1>2, <1>3, <1>4, <1>6, <1>7 DEF Command, Decide, Redeliver, permitVars
<1>8. CASE Acquire
  BY <1>2, <1>8, AcquireKind
<1>9. CASE Drive
  BY <1>1, <1>9, DriveKind DEF Quiet, Releases, Abandons
<1>10. CASE (\E at \in PCs : Fault(at) \/ Die(at)) \/ UNCHANGED vars
  BY <1>1, <1>10 DEF Fault, Goto, Die, Vanish, vars, permitVars
<1> QED
  BY <1>5, <1>7, <1>8, <1>9, <1>10 DEF Next

LEMMA IdleSteps ==
    ASSUME pc = "idle", [Next]_vars
    PROVE  Command \/ Continue \/ Acquire \/ UNCHANGED vars
<1>1. ASSUME Drive PROVE FALSE
  <2>1. ~( EntryDrive \/ EntryResume \/ EntryUnsettled \/ EntryBlocked \/ EntryRecover
           \/ LoopNotAllowed \/ LoopNoBudget \/ LoopDrive \/ TimeExhausted \/ Leave )
    BY DEF EntryDrive, EntryResume, EntryUnsettled, EntryBlocked, EntryRecover,
           LoopNotAllowed, LoopNoBudget, LoopDrive, TimeExhausted, Leave
  <2>2. ~( ReserveReuse \/ ReserveRecordIntent \/ ReserveLoadIntent
           \/ (\E observable \in BOOLEAN : ReservePreIntentStop(observable))
           \/ (\E result \in DOMAIN DraftAfter : ReserveSettle(result))
           \/ SettleRaises )
    BY DEF ReserveReuse, ReserveRecordIntent, ReserveLoadIntent, ReservePreIntentStop,
           ReserveSettle, SettleRaises
  <2>3. ~( PlanNotAuthorized \/ PlanContextOverflow
           \/ PlanBeginBarrier \/ PlanBarrierRaises
           \/ (\E otherCeiling \in BOOLEAN : PlanReserve(otherCeiling))
           \/ PlanReserveDenied \/ PlanReservePaused
           \/ (\E act \in PlanningActions, p \in Plans : PlanProviderAnswer(act, p))
           \/ PlanProviderNoAnswer \/ PlanProviderRaises
           \/ PlanSettleBarrier \/ PlanSettleBarrierRaises )
    BY DEF PlanNotAuthorized, PlanContextOverflow, PlanBeginBarrier, PlanBarrierRaises,
           PlanReserve, PlanReserveDenied, PlanReservePaused, PlanProviderAnswer,
           PlanProviderNoAnswer, PlanProviderRaises, PlanSettleBarrier,
           PlanSettleBarrierRaises
  <2>4. ~( ApplyRead \/ (\E overflow \in BOOLEAN : SettleRead(overflow))
           \/ (\E tasksAtCeiling \in BOOLEAN : ApplySubmit(tasksAtCeiling))
           \/ ApplyFailure \/ ApplyNotAuthorized \/ ApplyRaises )
    BY DEF ApplyRead, SettleRead, ApplySubmit, ApplyFailure, ApplyNotAuthorized,
           ApplyRaises
  <2>5. ~( RefInitBind \/ RefInitDenied \/ RefInitRaises
           \/ RefRecordIntent \/ RefRecordRaises
           \/ (\E outcome \in DOMAIN RefAfter : RefSettle(outcome))
           \/ DeliveryStop \/ StopRaises \/ RecordFault )
    BY DEF RefInitBind, RefInitDenied, RefInitRaises, RefRecordIntent, RefRecordRaises,
           RefSettle, DeliveryStop, StopRaises, RecordFault
  <2> QED
    BY <1>1, <2>1, <2>2, <2>3, <2>4, <2>5 DEF Drive
<1>2. \A at \in PCs : ~Fault(at) /\ ~Die(at)
  BY DEF Fault, Die
<1> QED
  BY <1>1, <1>2 DEF Next

\* No command reports progress, and none moves the Run from under a permit
\* of a begin or of a start without withdrawing it.
LEMMA OutstandingCommand ==
    ASSUME Inv, DecisionInv, DocumentsInv, Command, KeepsPermits,
           st \in {"DRAFT", "READY_TO_START"}, Unconsumed' # {}
    PROVE  /\ UNCHANGED <<st, current, plan, reservation, progress>>
           /\ approved \subseteq approved'
<1> USE DEF Inv, TypeOK, revisionVars, planVars, permitVars, effectVars
<1>1. PICK t \in Threads :
          \/ \E cmd \in Commands : Decide(t, cmd)
          \/ \E u \in Threads : Redeliver(t, u)
          \/ Commit(t)
  BY DEF Command
<1>2. CASE (\E cmd \in Commands : Decide(t, cmd)) \/ \E u \in Threads : Redeliver(t, u)
  BY <1>2 DEF Decide, Redeliver
<1>3. CASE CommitUnsequenced(t) \/ CommitRejection(t) \/ CommitProposeUnchanged(t)
           \/ CommitProposeExecution(t) \/ BeginConflict(t) \/ CommitRaises(t)
           \/ CommitBegin(t)
  BY <1>3
  DEF CommitUnsequenced, CommitRejection, CommitProposeUnchanged,
      CommitProposeExecution, BeginConflict, CommitRaises, CommitBegin
<1>4. ASSUME NEW inFlight \in BOOLEAN, CommitApprove(t, inFlight)
      PROVE  /\ UNCHANGED <<st, current, plan, reservation, progress>>
             /\ approved \subseteq approved'
  <2>1. current' = current
    BY <1>4, ApproveKeepsCurrent DEF ExecutionRevisionStates
  <2> QED
    BY <1>4, <2>1 DEF CommitApprove
<1>5. CASE CommitProposeBootstrap(t)
  <2>1. Unconsumed' = {}
    BY <1>5, WithStateEffect DEF CommitProposeBootstrap, Withdrawn
  <2> QED
    BY <2>1
<1>6. CASE CommitApprovePlan(t)
  BY <1>6 DEF CommitApprovePlan, PlanApprovable
<1>7. CASE CommitStart(t)
  BY <1>7 DEF CommitStart
<1> QED
  BY <1>1, <1>2, <1>3, <1>4, <1>5, <1>6, <1>7 DEF Commit

LEMMA OutstandingKept ==
    ASSUME Inv, DecisionInv, DocumentsInv, PermitsInv, KeepsPermits, [Next]_vars
    PROVE  OutstandingIsCurrent'
<1> SUFFICES ASSUME NEW g \in Unconsumed'
             PROVE  /\ permits'[g].source \in {"begin", "start"} => PermitCurrent(permits[g])'
                    /\ permits'[g].source = "begin" => CurrentApproved'
  BY DEF OutstandingIsCurrent
<1>1. g \in Unconsumed /\ g \in DOMAIN permits /\ permits'[g].source = permits[g].source
  BY DEF KeepsPermits, Unconsumed
<1>2. owner = 0 /\ pc = "idle" /\ Unconsumed = {g}
  BY <1>1, HeldIsOwner DEF Inv, OnlyLatest
<1>3. SUFFICES ASSUME permits[g].source \in {"begin", "start"}
               PROVE  /\ PermitCurrent(permits[g])'
                      /\ permits[g].source = "begin" => CurrentApproved'
  BY <1>1
<1>4. /\ PermitCurrent(permits[g]) /\ st \in {"DRAFT", "READY_TO_START"}
      /\ permits[g].source = "begin" => CurrentApproved
  BY <1>1, <1>3 DEF PermitsInv, PermitsInOrder, OutstandingIsCurrent, PermitCurrent
<1>5. /\ UNCHANGED <<st, current, plan, reservation, progress>>
      /\ approved \subseteq approved'
  <2>1. CASE Command
    BY <1>4, <2>1, OutstandingCommand
  <2>2. CASE Continue
    BY <1>1, <2>2 DEF Continue
  <2>3. CASE Acquire
    <3>1. Unconsumed' = {}
      <4>1. CASE Withdraws
        BY <4>1, WithStateEffect DEF Withdraws, Withdrawn, Inv, TypeOK
      <4>2. CASE Delivers
        BY <1>2, <4>2, WithStateEffect DEF Delivers, Inv, TypeOK
      <4> QED
        BY <2>3, <4>1, <4>2, AcquireKind
    <3> QED
      BY <3>1
  <2>4. CASE UNCHANGED vars
    BY <2>4 DEF vars, revisionVars, planVars, effectVars, permitVars
  <2> QED
    BY <1>2, <2>1, <2>2, <2>3, <2>4, IdleSteps
<1>6. PermitCurrent(permits[g])'
  BY <1>1, <1>4, <1>5 DEF PermitCurrent, Current, Target, KeepsPermits
<1>7. CurrentApproved => CurrentApproved'
  BY <1>5 DEF CurrentApproved
<1> QED
  BY <1>4, <1>6, <1>7

LEMMA PermitStep ==
    ASSUME Inv, TypeOK', DecisionInv, DocumentsInv, PermitsInv, [Next]_vars
    PROVE  PermitsInv'
<1> USE DEF Inv, TypeOK
<1>0. claims \subseteq claims' /\ claims' \subseteq 1 .. sent'
  BY ClaimsStep DEF PermitsInv
<1>1. CASE KeepsPermits
  <2>1. OutstandingIsCurrent'
    BY <1>1, OutstandingKept
  <2>2. OnePermitPerRequest'
    BY <1>1 DEF KeepsPermits, PermitsInv, PermitsInOrder, OnePermitPerRequest
  <2>3. \A g \in DOMAIN permits' :
          /\ permits'[g].id \in claims'
          /\ permits'[g].source = "begin" => permits'[g].phase = "DRAFT"
          /\ permits'[g].source = "start" => permits'[g].phase = "READY_TO_START"
    BY <1>0, <1>1 DEF KeepsPermits, PermitsInv
  <2> QED
    BY <1>0, <2>1, <2>2, <2>3 DEF PermitsInv, PermitsInOrder
<1>2. CASE MintsPermit
  <2>1. PICK id \in 1 .. sent', source \in {"begin", "start", "continue"} :
          /\ Unconsumed = {}
          /\ id \notin claims /\ id \in claims'
          /\ Issue(id, source, st)
          /\ source = "begin" => st = "DRAFT" /\ CurrentApproved
          /\ source = "start" => st = "READY_TO_START"
          /\ UNCHANGED <<st, current, plan, approved, reservation, progress>>
    BY <1>2 DEF MintsPermit
  <2>11. PICK n \in Nat : n = Len(permits)
    BY PermitsType
  <2> DEFINE m == Minted(id, source, st)
  <2>2. /\ permits' = Append(permits, m) /\ DOMAIN permits = 1 .. n
        /\ permits \in Seq(Permits \cup {m})
    BY <2>1, <2>11, PermitsType, SeqMonotonic DEF TypePermits, Issue
  <2>3. /\ DOMAIN permits' = 1 .. n + 1 /\ permits'[n + 1] = m
        /\ \A g \in 1 .. n : permits'[g] = permits[g]
    BY <2>2, <2>11, AppendProperties
  <2>4. 1 .. n + 1 = (1 .. n) \cup {n + 1} /\ n + 1 \notin 1 .. n
    OBVIOUS
  <2>5. Unconsumed' = {n + 1}
    BY <2>1, <2>11, IssueEffect
  <2>6. /\ m.id = id /\ m.source = source /\ m.phase = st /\ m.bind = Current
        /\ m.target = Target /\ m.progress = progress
    BY DEF Minted
  <2> HIDE DEF m
  <2>7. OutstandingIsCurrent'
    <3>1. PermitCurrent(permits[n + 1])'
      BY <2>1, <2>3, <2>6 DEF PermitCurrent, Current, Target
    <3>2. source = "begin" => CurrentApproved'
      BY <2>1 DEF CurrentApproved
    <3> QED
      BY <2>3, <2>5, <2>6, <3>1, <3>2 DEF OutstandingIsCurrent
  <2>8. \A g \in 1 .. n : permits[g].id # id
    BY <2>1, <2>2 DEF PermitsInv
  <2>9. OnePermitPerRequest'
    BY <2>2, <2>3, <2>4, <2>6, <2>8
    DEF PermitsInv, PermitsInOrder, OnePermitPerRequest
  <2>10. \A g \in DOMAIN permits' :
          /\ permits'[g].id \in claims'
          /\ permits'[g].source = "begin" => permits'[g].phase = "DRAFT"
          /\ permits'[g].source = "start" => permits'[g].phase = "READY_TO_START"
    <3>1. \A g \in 1 .. n :
          /\ permits[g].id \in claims
          /\ permits[g].source = "begin" => permits[g].phase = "DRAFT"
          /\ permits[g].source = "start" => permits[g].phase = "READY_TO_START"
      BY <2>2 DEF PermitsInv
    <3> QED
      BY <1>0, <2>1, <2>3, <2>4, <2>6, <3>1
  <2> QED
    BY <1>0, <2>7, <2>9, <2>10 DEF PermitsInv, PermitsInOrder
<1> QED
  BY <1>1, <1>2, PermitMoves DEF PermitsInv

-----------------------------------------------------------------------------
(* Every invariant of the rows together *)

RowsInv ==
    /\ Inv /\ DecisionInv /\ PhaseInv /\ DocumentsInv /\ EffectsInv
    /\ PlanApproved /\ PermitsInv

LEMMA InitRows == Init => RowsInv
<1> SUFFICES ASSUME Init PROVE RowsInv
  OBVIOUS
<1>1. DecisionInv
  BY DEF Init, DecisionInv
<1>2. PhaseInv
  BY DEF Init, PhaseInv
<1>3. DocumentsInv
  BY DEF Init, DocumentsInv, CurrentDocument
<1>4. EffectsInv
  BY DEF Init, EffectsInv, ReservedBeforePlanning, EffectsJournaled
<1>5. PlanApproved
  BY DEF Init, PlanApproved, PlanBinding, ActiveUnderApprovedPlan
<1>6. PermitsInv
  BY DEF Init, PermitsInv, PermitsInOrder, OnePermitPerRequest, OutstandingIsCurrent,
         Unconsumed
<1> QED
  BY <1>1, <1>2, <1>3, <1>4, <1>5, <1>6, InitInv DEF RowsInv

LEMMA NextRows == RowsInv /\ [Next]_vars => RowsInv'
<1> SUFFICES ASSUME RowsInv, [Next]_vars PROVE RowsInv'
  OBVIOUS
<1>1. Inv' /\ TypeOK' /\ TypeOK /\ ViewInv
  BY NextInv DEF RowsInv, Inv
<1>2. DecisionInv' /\ PhaseInv'
  BY <1>1, DecisionStep, PhaseStep DEF RowsInv
<1>3. DocumentsInv' /\ EffectsInv'
  BY <1>1, DocumentsStep, EffectsStep DEF RowsInv
<1>4. PlanApproved' /\ PermitsInv'
  BY <1>1, PlanStep, PermitStep DEF RowsInv
<1> QED
  BY <1>1, <1>2, <1>3, <1>4 DEF RowsInv

\* The rows of the Run, the commands between their decision and their
\* transaction and the place of the runtime agree in every state.
THEOREM RowsInvariant == Spec => []RowsInv
BY InitRows, NextRows, PTL DEF Spec

\* However often and by however many threads a request is delivered, it mints
\* one permit at most, and the permit of a begin or a start that waits is
\* under what is current now (apply_control_command, runtime_permits).
THEOREM PermitsStayInOrder == Spec => []PermitsInOrder
<1>1. RowsInv => PermitsInOrder
  BY DEF RowsInv, PermitsInv
<1> QED
  BY <1>1, RowsInvariant, PTL

\* For every class the one document that is CURRENT is the one the Run points
\* to, whatever proposals and approvals were made before and during execution.
THEOREM DocumentsStayCurrent == Spec => []CurrentDocument
<1>1. RowsInv => CurrentDocument
  BY DEF RowsInv, DocumentsInv
<1> QED
  BY <1>1, RowsInvariant, PTL

\* After any number of crashes the journal knows each effect that a row says
\* is under way, or the Run is INDETERMINATE; and no Run plans or goes further
\* without its registered worktree.
THEOREM EffectsStayAccounted == Spec => []EffectsAccounted
<1>1. RowsInv => EffectsAccounted
  BY DEF RowsInv, EffectsInv, EffectsAccounted
<1> QED
  BY <1>1, RowsInvariant, PTL

\* A Run awaits approval of, may start with, or executes under one plan that
\* was proposed and approved under the revisions that were then current.
THEOREM PlansAreApproved == Spec => []PlanApproved
<1>1. RowsInv => PlanApproved
  BY DEF RowsInv
<1> QED
  BY <1>1, RowsInvariant, PTL

\* The same up to the start alone, which the run from an early Run checks.
THEOREM PlansAreBound == Spec => []PlanBinding
<1>1. RowsInv => PlanBinding
  BY DEF RowsInv, PlanApproved
<1> QED
  BY <1>1, RowsInvariant, PTL

\* The state of a Run moves only along StateMove, under any interleaving of
\* commands, runtime steps, faults and crashes: no phase of SPEC 6.1 is
\* skipped, nothing returns from execution, and INDETERMINATE is for good.
THEOREM StatesMoveInOrder == Spec => [][StateMove]_st
<1>1. RowsInv /\ [Next]_vars => [StateMove]_st
  BY StateMoves DEF RowsInv, Inv
<1> QED
  BY <1>1, RowsInvariant, PTL DEF Spec

\* A Run that executes stays in execution, and its current Policy stays.
THEOREM PolicyIsFrozen == Spec => PolicyFrozen
<1>1. ASSUME RowsInv, [Next]_vars
      PROVE  st \in ExecutionRevisionStates =>
               /\ st' \in ExecutionRevisionStates
               /\ \A c \in Classes \cap {"POLICY"} : current'[c] = current[c]
  BY <1>1, StateMoves, StatesStick, PolicyKept DEF RowsInv, Inv
<1> QED
  BY <1>1, RowsInvariant, PTL DEF Spec, PolicyFrozen

\* A provider call whose outcome is unknown leaves the Run INDETERMINATE for
\* good.
THEOREM UncertaintySticks == Spec => UncertainCallSticks
<1>1. ASSUME RowsInv, [Next]_vars
      PROVE  barrier = "INDETERMINATE" => st = "INDETERMINATE" /\ st' = st
  BY <1>1, StateMoves, StatesStick DEF RowsInv, Inv, EffectsInv
<1> QED
  BY <1>1, RowsInvariant, PTL DEF Spec, UncertainCallSticks

=============================================================================
