-------------------------- MODULE TargetReservation --------------------------
(***************************************************************************)
(* The target reservation of one Run: the locked, never checked-out git    *)
(* worktree that occupies the target branch while the Run plans.  The row  *)
(* of target_reservations and the effect journal are durable; the worktree *)
(* is two git calls, ADD and LOCK, in a repository that other programs may *)
(* change; the process trusts two inventories of .git that it captured,    *)
(* the guard's and the adapter's, and observes the worktree in two reads.  *)
(*                                                                         *)
(* RunControl has the same rows with the outcome of the creation as a free *)
(* choice; this module is where that outcome comes from.                   *)
(***************************************************************************)
EXTENDS Naturals

CONSTANTS
    Authorities,  \* approved revisions a Runtime Permit can name
    MaxOutside,   \* bound: changes other programs make
    MaxFailures,  \* bound: crashes, faults and failing git calls
    None

ASSUME ReservationAssumption ==
    /\ None \notin Authorities /\ Authorities # {}
    /\ MaxOutside \in Nat /\ MaxFailures \in Nat

VARIABLES
    \* the repository and the data root
    own,        \* the Run's entry of .git/worktrees
    other,      \* another entry of .git/worktrees exists
    dir,        \* the reservation directory in the data root
    target,     \* where the target branch points
    mainSafe,   \* the main worktree is detached at the pinned oid, unlocked
    \* the durable rows
    st,         \* runs.state
    phase,      \* target_reservations.phase
    intent,     \* the revisions that the latest creation intent names
    unsettled,  \* that intent has no effect result
    authority,  \* the revisions that are current
    orphaned,   \* runs.runtime_owner_id names a process that died
    \* the process
    pc, stage, permit, op, returned,
    guardFresh, \* .git is as the guard's snapshot has it
    repoFresh,  \* .git is as the adapter's snapshot has it
    reg,        \* the registration that was read
    seen,       \* the class of the last observation
    \* history and bounds
    quiet,      \* nothing outside changed since the last observation began
    outside, failures

diskVars    == <<own, other, dir, target, mainSafe>>
rowVars     == <<st, phase, intent, unsettled, authority, orphaned>>
freshVars   == <<guardFresh, repoFresh>>
localVars   == <<permit, op, returned, reg, seen>>
historyVars == <<quiet, outside, failures>>
vars == <<diskVars, rowVars, pc, stage, freshVars, localVars, historyVars>>

Classes == {"ADD", "LOCK", "SETTLE", "CONFLICT", "UNOBSERVABLE"}
Stages  == {"first", "start", "afterADD", "afterLOCK", "afterError"}

Registrations == [observable : BOOLEAN, present : BOOLEAN, locked : BOOLEAN,
                  exact : BOOLEAN, unexpected : BOOLEAN]

TypeDisk ==
    /\ own \in {"absent", "partial", "unlocked", "locked"}
    /\ other \in BOOLEAN /\ dir \in {"absent", "gitfile", "other"}
    /\ target \in {"pinned", "moved"} /\ mainSafe \in BOOLEAN

TypeRows ==
    /\ st \in {"DRAFT", "PLANNING", "INDETERMINATE"}
    /\ phase \in {"ALLOCATED", "CREATION_INTENT_RECORDED", "REGISTERED_LOCKED"}
    /\ intent \in Authorities \cup {None} /\ unsettled \in BOOLEAN
    /\ authority \in Authorities /\ orphaned \in BOOLEAN

TypeProcess ==
    /\ pc \in {"closed", "idle", "registration", "path", "decide", "intend",
               "pin", "git", "check", "refresh", "repin", "settle"}
    /\ stage \in Stages /\ permit \in Authorities \cup {None}
    /\ op \in {"ADD", "LOCK"} /\ returned \in BOOLEAN
    /\ guardFresh \in BOOLEAN /\ repoFresh \in BOOLEAN
    /\ reg \in Registrations /\ seen \in Classes

TypeHistory ==
    /\ quiet \in BOOLEAN
    /\ outside \in 0 .. MaxOutside /\ failures \in 0 .. MaxFailures

TypeOK == TypeDisk /\ TypeRows /\ TypeProcess /\ TypeHistory

Unread == [observable |-> FALSE, present |-> FALSE, locked |-> FALSE,
           exact |-> FALSE, unexpected |-> TRUE]

\* create_draft_with_reservation: the row exists before any git effect.
Init ==
    /\ own = "absent" /\ other = FALSE /\ dir = "absent"
    /\ target = "pinned" /\ mainSafe = TRUE
    /\ st = "DRAFT" /\ phase = "ALLOCATED" /\ intent = None /\ unsettled = FALSE
    /\ authority \in Authorities /\ orphaned = FALSE
    /\ pc = "closed" /\ stage = "first" /\ permit = None
    /\ op = "ADD" /\ returned = FALSE /\ guardFresh = FALSE /\ repoFresh = FALSE
    /\ reg = Unread /\ seen = "UNOBSERVABLE"
    /\ quiet = TRUE /\ outside = 0 /\ failures = 0

-----------------------------------------------------------------------------
(* The repository, as the guard reads it without following links           *)

\* _read_exact_admin_record and _reservation_path_state: the sole entry of
\* .git/worktrees is complete and names the directory, and the other way round.
ExactPair == own \in {"unlocked", "locked"} /\ ~other /\ dir = "gitfile"

AbsentPair == own = "absent" /\ ~other /\ dir = "absent"

\* require_compatible_observation: anything else raises.
Compatible == ExactPair \/ AbsentPair

\* require_absent_before_add, require_exact_registered_unlocked
PreState(kind) == IF kind = "ADD" THEN AbsentPair ELSE ExactPair /\ own = "unlocked"

\* require_exact_post_operation
PostState(kind) == ExactPair /\ (own = "locked" <=> kind = "LOCK")

-----------------------------------------------------------------------------
(* Observation                                                             *)

\* What `git worktree list` says of the Run's worktree and of the others.
Listed == [observable |-> TRUE,
           present    |-> own # "absent",
           locked     |-> own = "locked",
           exact      |-> own # "absent" /\ mainSafe /\ target = "pinned",
           unexpected |-> ~mainSafe]

\* Variant: the listing is trusted whatever the inventories say.
ObserveRegistrationUnguarded ==
    /\ pc = "registration"
    /\ \E readable \in BOOLEAN : reg' = IF readable THEN Listed ELSE Unread
    /\ quiet' = TRUE /\ pc' = "path"
    /\ UNCHANGED <<diskVars, rowVars, stage, freshVars, permit, op, returned,
                   seen, outside, failures>>

\* observe_registration; a listing that fails or cannot be parsed is
\* unobservable too.
ObserveRegistration ==
    /\ pc = "registration"
    /\ \E readable \in BOOLEAN :
          reg' = IF readable /\ guardFresh /\ repoFresh /\ Compatible
                 THEN Listed ELSE Unread
    /\ quiet' = TRUE /\ pc' = "path"
    /\ UNCHANGED <<diskVars, rowVars, stage, freshVars, permit, op, returned,
                   seen, outside, failures>>

Classify(r, d) ==
    LET present == r.present \/ r.unexpected
        exact   == r.exact /\ ~r.unexpected /\ d = "gitfile"
    IN  IF ~r.observable THEN "UNOBSERVABLE"
        ELSE CASE ~present /\ d = "absent" -> "ADD"
               [] present /\ exact /\ ~r.locked -> "LOCK"
               [] present /\ exact /\ r.locked -> "SETTLE"
               [] OTHER -> "CONFLICT"

\* observe_path, and classify_reservation_creation of the two reads
ObservePath ==
    /\ pc = "path"
    /\ \E readable \in BOOLEAN :
          seen' = IF readable THEN Classify(reg, dir) ELSE "UNOBSERVABLE"
    /\ pc' = "decide"
    /\ UNCHANGED <<diskVars, rowVars, stage, freshVars, permit, op, returned,
                   reg, historyVars>>

Observe(at) == stage' = at /\ pc' = "registration"

-----------------------------------------------------------------------------
(* The process                                                             *)

\* A process opens and inventories the repository.  GitRepositoryPreflight, the
\* only opener, refuses one with any entry in .git/worktrees, the Run's too.
OpenRepository ==
    /\ pc = "closed"
    /\ own = "absent" /\ ~other
    /\ guardFresh' = TRUE /\ repoFresh' = TRUE /\ pc' = "idle"
    /\ UNCHANGED <<diskVars, rowVars, stage, localVars, historyVars>>

\* apply_runtime_continue takes the Run from its dead owner; the permit that it
\* mints is for Deliver, as that of a begin is.
Continue ==
    /\ pc \in {"closed", "idle"} /\ orphaned /\ orphaned' = FALSE
    /\ UNCHANGED <<diskVars, st, phase, intent, unsettled, authority, pc, stage,
                   freshVars, localVars, historyVars>>

\* A Runtime Permit for DRAFT, which nobody gets while an owner is recorded, is
\* consumed: initialize_target_reservation observes first.
Deliver ==
    /\ pc = "idle" /\ st = "DRAFT" /\ ~orphaned
    /\ permit' = authority
    /\ Observe("first")
    /\ UNCHANGED <<diskVars, rowVars, freshVars, op, returned, reg, seen, historyVars>>

Deciding(at) == pc = "decide" /\ stage = at

\* reuse_locked_target_reservation_under_draft_permit
Reuse ==
    /\ Deciding("first") /\ phase = "REGISTERED_LOCKED" /\ seen = "SETTLE"
    /\ st' = "PLANNING" /\ pc' = "idle"
    /\ UNCHANGED <<diskVars, phase, intent, unsettled, authority, orphaned, stage,
                   freshVars, localVars, historyVars>>

\* record_target_reservation_pre_intent_stop
PreIntentStop ==
    /\ Deciding("first")
    /\ \/ phase = "REGISTERED_LOCKED" /\ seen # "SETTLE"
       \/ phase = "ALLOCATED" /\ seen # "ADD"
    /\ st' = IF seen = "UNOBSERVABLE" THEN "INDETERMINATE" ELSE st
    /\ pc' = "idle"
    /\ UNCHANGED <<diskVars, phase, intent, unsettled, authority, orphaned, stage,
                   freshVars, localVars, historyVars>>

\* Variant: git first, the intent afterwards.
ProceedUnjournaled ==
    /\ Deciding("first")
    /\ \/ phase = "ALLOCATED" /\ seen = "ADD"
       \/ phase = "CREATION_INTENT_RECORDED"
    /\ Observe("start")
    /\ UNCHANGED <<diskVars, rowVars, freshVars, localVars, historyVars>>

Proceed ==
    /\ Deciding("first")
    /\ \/ phase = "ALLOCATED" /\ seen = "ADD"
       \/ phase = "CREATION_INTENT_RECORDED"
    /\ pc' = "intend"
    /\ UNCHANGED <<diskVars, rowVars, stage, freshVars, localVars, historyVars>>

\* record_or_load...: a new intent names the revisions of the permit
RecordIntent ==
    /\ pc = "intend" /\ phase = "ALLOCATED"
    /\ phase' = "CREATION_INTENT_RECORDED"
    /\ intent' = permit /\ unsettled' = TRUE
    /\ Observe("start")
    /\ UNCHANGED <<diskVars, st, authority, orphaned, freshVars, localVars, historyVars>>

\* ... and one that an earlier delivery left is loaded as it is.
LoadIntent ==
    /\ pc = "intend" /\ phase = "CREATION_INTENT_RECORDED" /\ unsettled
    /\ Observe("start")
    /\ UNCHANGED <<diskVars, rowVars, freshVars, localVars, historyVars>>

\* execute_creation: ADD only from the first observation, LOCK also after ADD
Apply(kind) ==
    /\ pc = "decide" /\ seen = kind
    /\ \/ stage = "start"
       \/ stage = "afterADD" /\ kind = "LOCK"
    /\ op' = kind /\ pc' = "pin"
    /\ UNCHANGED <<diskVars, rowVars, stage, freshVars, permit, returned, reg,
                   seen, historyVars>>

Conclude ==
    /\ pc = "decide"
    /\ \/ stage \in {"afterLOCK", "afterError"}
       \/ stage = "start" /\ seen \notin {"ADD", "LOCK"}
       \/ stage = "afterADD" /\ seen # "LOCK"
    /\ pc' = "settle"
    /\ UNCHANGED <<diskVars, rowVars, stage, freshVars, localVars, historyVars>>

-----------------------------------------------------------------------------
(* One git operation, between its inventory checks                         *)

Unchanged == UNCHANGED <<diskVars, rowVars, permit, op, reg, seen>>

\* _require_pinned_target and the checks right before the command
PinTarget ==
    /\ pc = "pin"
    /\ \/ /\ PreState(op) /\ guardFresh /\ repoFresh /\ target = "pinned"
          /\ pc' = "git" /\ UNCHANGED stage
       \/ Observe("afterError")   \* one of them fails, or show-ref does
    /\ Unchanged /\ UNCHANGED <<freshVars, returned, historyVars>>

\* git itself adds where nothing is and locks what is not locked.
Effective == IF op = "ADD" THEN own = "absent" /\ dir = "absent"
                           ELSE own = "unlocked"

GitDone ==
    /\ own' = IF op = "ADD" THEN "unlocked" ELSE "locked"
    /\ dir' = IF op = "ADD" THEN "gitfile" ELSE dir

\* git worktree add stopped half-way
GitPartly ==
    /\ op = "ADD" /\ own' = "partial" /\ dir' \in {"absent", "other"}

Returns(success, to) == returned' = success /\ pc' = to

GitFails == failures < MaxFailures /\ failures' = failures + 1

\* The command takes effect, wholly or in part or not at all, and then returns,
\* fails, or raises: a timeout escapes the adapter as a runtime fault, an
\* output that is too long does not.
RunGit ==
    /\ pc = "git"
    /\ \/ /\ Effective /\ (GitDone \/ GitPartly)
          /\ guardFresh' = FALSE /\ repoFresh' = FALSE
       \/ UNCHANGED <<own, dir, freshVars>>
    /\ \/ Effective /\ GitDone /\ Returns(TRUE, "check") /\ UNCHANGED failures
       \/ ~Effective /\ Returns(FALSE, "check") /\ UNCHANGED failures
       \/ Returns(FALSE, "check") /\ GitFails
       \/ Returns(FALSE, "idle") /\ GitFails
    /\ UNCHANGED <<other, target, mainSafe, rowVars, stage, permit, op, reg,
                   seen, quiet, outside>>

\* After success the exact post-state, of which the guard takes a new
\* inventory; any other end of the command is an error.
CheckPost ==
    /\ pc = "check"
    /\ \/ /\ returned /\ PostState(op)
          /\ guardFresh' = TRUE /\ pc' = "refresh" /\ UNCHANGED stage
       \/ /\ ~(returned /\ PostState(op))
          /\ Observe("afterError") /\ UNCHANGED guardFresh
    /\ Unchanged /\ UNCHANGED <<repoFresh, returned, historyVars>>

\* refresh_after_verified_owned_transition of the adapter's own repository, or
\* the error of one that is not safe any more
RefreshRepository ==
    /\ pc = "refresh"
    /\ \/ repoFresh' = TRUE /\ pc' = "repin" /\ UNCHANGED stage
       \/ Observe("afterError") /\ UNCHANGED repoFresh
    /\ Unchanged /\ UNCHANGED <<guardFresh, returned, historyVars>>

\* _require_pinned_target, which checks the post-state and inventories again
RepinTarget ==
    /\ pc = "repin"
    /\ guardFresh' = (guardFresh \/ PostState(op))
    /\ \/ /\ PostState(op) /\ repoFresh /\ target = "pinned"
          /\ Observe(IF op = "ADD" THEN "afterADD" ELSE "afterLOCK")
       \/ Observe("afterError")   \* one of them fails, or show-ref does
    /\ Unchanged /\ UNCHANGED <<repoFresh, returned, historyVars>>

-----------------------------------------------------------------------------
(* Settlement                                                              *)

Result == CASE seen = "SETTLE" -> "REGISTERED_LOCKED"
            [] seen = "CONFLICT" -> "CONFLICT"
            [] OTHER -> "UNOBSERVABLE"

\* Variant: a creation without a clear result is allocated again.
PhaseAfterForgotten ==
    [REGISTERED_LOCKED |-> "REGISTERED_LOCKED", CONFLICT |-> "ALLOCATED",
     UNOBSERVABLE |-> "ALLOCATED"]

PhaseAfter == [REGISTERED_LOCKED |-> "REGISTERED_LOCKED", CONFLICT |-> "ALLOCATED",
               UNOBSERVABLE |-> "CREATION_INTENT_RECORDED"]

\* Variant: a conflict pauses the Run.
StateAfterPaused ==
    [REGISTERED_LOCKED |-> "PLANNING", CONFLICT |-> "PAUSED",
     UNOBSERVABLE |-> "INDETERMINATE"]

StateAfter == [REGISTERED_LOCKED |-> "PLANNING", CONFLICT |-> "DRAFT",
               UNOBSERVABLE |-> "INDETERMINATE"]

\* Variant: an unobservable creation gets no effect result.
SettleUnjournaled ==
    /\ pc = "settle" /\ intent = permit
    /\ phase' = PhaseAfter[Result] /\ st' = StateAfter[Result]
    /\ unsettled' = (Result = "UNOBSERVABLE") /\ pc' = "idle"
    /\ UNCHANGED <<diskVars, intent, authority, orphaned, stage, freshVars, localVars,
                   historyVars>>

\* settle_target_reservation_creation_under_draft_permit
Settle ==
    /\ pc = "settle" /\ intent = permit
    /\ phase' = PhaseAfter[Result] /\ st' = StateAfter[Result]
    /\ unsettled' = FALSE /\ pc' = "idle"
    /\ UNCHANGED <<diskVars, intent, authority, orphaned, stage, freshVars, localVars,
                   historyVars>>

\* An intent of other revisions than the permit's raises; the fault is recorded.
SettleRaises ==
    /\ pc = "settle" /\ intent # permit
    /\ pc' = "idle"
    /\ UNCHANGED <<diskVars, rowVars, stage, freshVars, localVars, historyVars>>

-----------------------------------------------------------------------------
(* What happens around it                                                  *)

\* A planning turn whose context overflows returns the Run to DRAFT.
PlanningToDraft ==
    /\ pc = "idle" /\ st = "PLANNING" /\ st' = "DRAFT"
    /\ failures < MaxFailures /\ failures' = failures + 1
    /\ UNCHANGED <<diskVars, phase, intent, unsettled, authority, orphaned, pc, stage,
                   freshVars, localVars, quiet, outside>>

\* Another revision is approved while the Run is in DRAFT.
Revise ==
    /\ st = "DRAFT" /\ failures < MaxFailures /\ failures' = failures + 1
    /\ authority' \in Authorities \ {authority}
    /\ UNCHANGED <<diskVars, st, phase, intent, unsettled, orphaned, pc, stage,
                   freshVars, localVars, quiet, outside>>

Stopping ==
    /\ pc \notin {"closed", "idle"}
    /\ failures < MaxFailures /\ failures' = failures + 1
    /\ UNCHANGED <<diskVars, st, phase, intent, unsettled, authority, stage,
                   freshVars, localVars, quiet, outside>>

\* A store call or a git read raises; the runtime records the fault and gives
\* the Run up.
Fault == Stopping /\ pc' = "idle" /\ UNCHANGED orphaned

\* The process dies and remains the Run's owner: another one will open the
\* repository anew.
Crash == Stopping /\ pc' = "closed" /\ orphaned' = TRUE

\* Another program: a linked worktree comes or goes, the target branch or the
\* main worktree moves, the reservation is removed, unlocked or written into.
Outside ==
    /\ outside < MaxOutside /\ outside' = outside + 1 /\ quiet' = FALSE
    /\ \/ /\ guardFresh' = FALSE /\ repoFresh' = FALSE
          /\ \/ other' = ~other /\ UNCHANGED <<own, dir, target, mainSafe>>
             \/ /\ target' \in {"pinned", "moved"} \ {target}
                /\ UNCHANGED <<own, other, dir, mainSafe>>
             \/ mainSafe' = ~mainSafe /\ UNCHANGED <<own, other, dir, target>>
             \/ /\ own # "absent" /\ own' = "absent" /\ dir' = "absent"
                /\ UNCHANGED <<other, target, mainSafe>>
             \/ /\ own = "locked" /\ own' = "unlocked"
                /\ UNCHANGED <<other, dir, target, mainSafe>>
       \/ /\ dir' = "other"
          /\ UNCHANGED <<own, other, target, mainSafe, freshVars>>
    /\ UNCHANGED <<rowVars, pc, stage, localVars, failures>>

Process ==
    \/ ObserveRegistration \/ ObservePath
    \/ Reuse \/ PreIntentStop \/ Proceed \/ RecordIntent \/ LoadIntent
    \/ Apply("ADD") \/ Apply("LOCK") \/ Conclude
    \/ PinTarget \/ RunGit \/ CheckPost \/ RefreshRepository \/ RepinTarget
    \/ Settle \/ SettleRaises

Next == OpenRepository \/ Continue \/ Deliver \/ Process
        \/ PlanningToDraft \/ Revise \/ Fault \/ Crash \/ Outside

Spec == Init /\ [][Next]_vars

\* A process that is at work and lives goes on.
FairSpec == Spec /\ WF_vars(Process)

\* The most that its callers can do for a Run in DRAFT: a dead process is
\* started again, the Run is continued, and its planning is begun again.
RetriedSpec ==
    FairSpec /\ WF_vars(OpenRepository) /\ WF_vars(Continue) /\ WF_vars(Deliver)

-----------------------------------------------------------------------------
(* Properties *)

\* Unless another program interferes after the observation began, a Run plans
\* only while its worktree is the sole one, registered at the pinned target,
\* locked and empty ("Only after the reservation is the sole target
\* registration, locked, and exact", SPEC 5.1): two reads, two inventories and
\* every way that a git call can fail in between.
PlanningHeld ==
    st = "PLANNING" /\ quiet =>
        PostState("LOCK") /\ target = "pinned" /\ mainSafe

\* A worktree that this Run has made, also one made by a call that failed or
\* that the process did not survive, is never forgotten by the Run's row.
CreatedIsRecorded == outside = 0 /\ own # "absent" => phase # "ALLOCATED"

\* The row and the journal agree: a Run in DRAFT has a creation under way
\* exactly when an intent waits for its result.
IntentUnderWay ==
    st = "DRAFT" => (phase = "CREATION_INTENT_RECORDED" <=> unsettled)

\* The Run's process changes the worktree only for an unsettled intent.
OnlyUnderIntent ==
    [][outside' = outside /\ <<own, dir>>' # <<own, dir>> =>
          unsettled /\ phase = "CREATION_INTENT_RECORDED" /\ st = "DRAFT"]_vars

\* Once registered and locked, the worktree is reused or the Run stops: no
\* later delivery adds or locks again, nor takes the registration back.
RegisteredForGood ==
    [][phase = "REGISTERED_LOCKED" =>
          phase' = phase /\ ~unsettled' /\ (outside' = outside => own' = own)]_vars

\* What this Run makes, its row tells: a worktree is never forgotten, and the
\* row has a creation under way exactly while the journal has.
ReservationRecorded == CreatedIsRecorded /\ IntentUnderWay

\* git is called for an unsettled intent only, and never again once the
\* worktree is registered and locked.
ActsWithinIntent == OnlyUnderIntent /\ RegisteredForGood

\* A delivery that works for an intent of its own revisions, also one that it
\* found interrupted, gives it a result, whatever git answers and other programs
\* do, unless a failure interrupts that delivery too.
DeliveryResolves ==
    \A k \in 0 .. MaxFailures :
        unsettled /\ pc # "closed" /\ pc # "idle" /\ intent = permit /\ failures = k
            ~> ~unsettled \/ failures > k

\* A creation that a crash, a timeout or a failing command interrupted is
\* settled in the end, as long as the revisions stay the intent's: "Creation
\* recovery classifies the exact absent, registered-unlocked, and
\* registered-locked states" (SPEC 5.3).
InterruptedCreationSettles ==
    unsettled /\ intent = authority ~> ~unsettled \/ intent # authority
=============================================================================
