---------------------------- MODULE MCRunControl ----------------------------
(***************************************************************************)
(* Instances of RunControl for TLC: model values, the symmetry of the       *)
(* threads, a view of the state up to the value of the audit sequence, and  *)
(* a start from the middle of a Run's life.                                 *)
(***************************************************************************)
EXTENDS RunControl, FiniteSets, TLC

CONSTANTS r0, r1, p1, p2, t1, t2

ThreadSymmetry == Permutations(Threads)

\* The audit sequence is only ever compared for equality with a value read
\* earlier, and only grows: states that differ in its value alone behave alike.
FreshHandler(t) ==
    IF handler[t] = None THEN None
    ELSE [handler[t] EXCEPT !.exp = IF @ = seq THEN 1 ELSE 0]

UpToSequence ==
    <<st, dispatchOpen, revisionVars, planVars, permitVars, effectVars, turnVars,
      sent, claims, [t \in Threads |-> FreshHandler(t)], pc, held,
      [view EXCEPT !.seq = IF @ = seq THEN 1 ELSE 0], drafted, started>>

\* A Run whose initial revisions and whose plan p1 were approved: the commands
\* approve (per class), begin, continue after a crash, and approvePlan, and the
\* two deliveries between them, lead here.
ReadyPermit(id, source, phase, target, gen) ==
    [id |-> id, source |-> source, phase |-> phase,
     bind |-> [plan |-> None, rev |-> [c \in Classes |-> InitialRevision]],
     target |-> target, progress |-> gen, state |-> "CONSUMED"]

ReadyState ==
    LET n == Cardinality(Classes)
        rev == [c \in Classes |-> InitialRevision]
    IN
    /\ st = "READY_TO_START" /\ dispatchOpen = TRUE
    /\ current = rev
    /\ docs = [c \in Classes |-> [r \in Revisions |->
                  IF r = InitialRevision THEN "CURRENT" ELSE "ABSENT"]]
    /\ approved = Classes \X {InitialRevision} /\ budgetRow = InitialRevision
    /\ pending = [c \in Classes |-> None]
    /\ plan = p1 /\ planApproval = p1
    /\ plans = [p \in Plans |-> IF p = p1 THEN [rev |-> rev, state |-> "APPROVED"]
                                ELSE None]
    /\ runRef = [state |-> "ABSENT_EXPECTED", guard |-> None]
    /\ permits = <<ReadyPermit(n + 1, "begin", "DRAFT", FALSE, 0),
                   ReadyPermit(n + 2, "continue", "PLANNING", TRUE, 1)>>
    /\ owner = 0 /\ progress = 2
    /\ reservation = [phase |-> "REGISTERED_LOCKED",
                      bind |-> [plan |-> None, rev |-> rev]]
    /\ unsettled = {} /\ barrier = "SETTLED" /\ requests = 1
    /\ turns = <<[bind |-> [plan |-> None, rev |-> rev], act |-> "submit",
                  plan |-> p1, read |-> FALSE, state |-> "RELEASED"]>>
    /\ sent = n + 3 /\ claims = 1 .. (n + 3) /\ seq = 18
    /\ handler = [t \in Threads |-> None]
    /\ pc = "idle" /\ held = 0 /\ view = NoView
    /\ drafted = FALSE /\ started = FALSE

\* A Run in DRAFT with that many requests to come: of those it has seen, either
\* one for each class and one more approved its revisions and began its
\* planning, whose permit waits, or none was accepted.
EarlyState(begun, spare) ==
    LET n == Cardinality(Classes) IN
    /\ st = "DRAFT" /\ dispatchOpen = TRUE
    /\ current = [c \in Classes |-> InitialRevision]
    /\ docs = [c \in Classes |-> [r \in Revisions |->
                  IF r = InitialRevision THEN "CURRENT" ELSE "ABSENT"]]
    /\ approved = IF begun THEN Classes \X {InitialRevision} ELSE {}
    /\ budgetRow = IF begun THEN InitialRevision ELSE None
    /\ pending = [c \in Classes |-> None]
    /\ plan = None /\ plans = [p \in Plans |-> None] /\ planApproval = None
    /\ runRef = [state |-> "NONE", guard |-> None]
    /\ permits = IF begun
                 THEN <<[ReadyPermit(n + 1, "begin", "DRAFT", FALSE, 0)
                           EXCEPT !.state = "UNCONSUMED"]>>
                 ELSE <<>>
    /\ owner = 0 /\ progress = 0
    /\ reservation = [phase |-> "ALLOCATED", bind |-> None]
    /\ unsettled = {} /\ barrier = "IDLE" /\ requests = 0 /\ turns = <<>>
    /\ sent = MaxRequests - spare /\ claims = 1 .. sent /\ seq = sent + 1
    /\ handler = [t \in Threads |-> None]
    /\ pc = "idle" /\ held = 0 /\ view = NoView
    /\ drafted = FALSE /\ started = FALSE

\* A Run that is new, one whose planning is about to start, and one whose plan
\* is about to be executed.
SpecFromPhases ==
    /\ EarlyState(FALSE, 3) \/ EarlyState(TRUE, 2) \/ ReadyState
    /\ [][Next]_vars

FairSpecFromEarly ==
    /\ \E begun \in BOOLEAN : EarlyState(begun, 2)
    /\ [][Next]_vars /\ WF_vars(Drive) /\ WF_vars(Acquire)
=============================================================================
