------------------------ MODULE WorkerActions_proofs ------------------------
(***************************************************************************)
(* Theorems about WorkerActions for every set of Tasks, budgets, threads,   *)
(* answers and disturbances, any number of turns and of grant commands.     *)
(*                                                                         *)
(* The inductive invariant is TypeOK together with                          *)
(*   JournalInv  what the rows of one turn say of each other and of the     *)
(*               effect of its action,                                      *)
(*   HandInv     what the rows say of the turn a live runtime works on.     *)
(* A crash or a fault empties the hands of the runtime, so that only        *)
(* JournalInv is left to tell the next one what may still happen.           *)
(* DecisionInv adds what the audit sequence is for: a decision is acted on  *)
(* only while what authorize_action saw still holds.  MarkerInv (which turn *)
(* is recovered), StepInv (Attempts, leases, pending actions and Grants)    *)
(* and UncertainInv (what a runtime knows of the Run before its next        *)
(* effect) are each inductive on top of these.                              *)
(***************************************************************************)
EXTENDS WorkerActions, SequenceTheorems, FiniteSetTheorems, OrderFacts, TLAPS

(* The auxiliary invariants *)

JournalEntry(i) ==
    LET a == actions[i] IN
    /\ i \notin DOMAIN turns => a.row = "NONE"
    /\ a.row = "NONE" => a.pending = "NONE" /\ effects[i] = 0
    /\ a.pending # "NONE" => turns[i].act = "risky"
    /\ a.pending \in {"NONE", "WAITING_APPROVAL", "INVALIDATED"} => a.intent = "NONE"
    /\ a.pending = "SETTLED" => a.intent = "SETTLED"
    /\ a.pending = "GRANT_CONSUMED" =>
           a.intent \in {"INTENT_RECORDED", "DISPATCHED", "INDETERMINATE"}
    /\ a.intent = "SETTLED" => file[i] # "pre"
    /\ effects[i] # 0 =>
           /\ effects[i] = 1
           /\ turns[i].act = "risky" =>
                  /\ a.intent \in {"DISPATCHED", "SETTLED", "INDETERMINATE"}
                  /\ file[i] # "pre"

JournalInv == \A i \in TurnIds : JournalEntry(i)

GrantedPCs == {"granted", "dispatch", "perform", "settleGranted", "uncertain"}

TurnPCs == {"turn", "reserve", "provider", "settleBarrier"}

HandInv ==
    /\ pc \in TurnPCs => /\ hand.task \in Tasks /\ ~hand.recovered
                         /\ Cur \in DOMAIN turns \cup {0}
    /\ pc \in {"consume", "decided", "denied", "execute", "settle"} \cup GrantedPCs =>
           Cur \in DOMAIN turns
    /\ pc = "decided" /\ hand.verdict = "ALLOW" => turns[Cur].act # "risky"
    /\ pc \in {"execute", "settle"} =>
           turns[Cur].act # "risky" /\ actions[Cur].row = "RECORDED"
    /\ pc = "execute" => effects[Cur] = 0
    /\ pc = "settle" => hand.verdict \in {"SETTLED", "UNCERTAIN"}
    /\ pc \in GrantedPCs =>
           /\ actions[Cur].pending = "GRANT_CONSUMED"
           /\ actions[Cur].intent \in {"INTENT_RECORDED", "DISPATCHED"}
    /\ pc = "perform" => actions[Cur].intent = "DISPATCHED"
    /\ pc = "settleGranted" => file[Cur] # "pre"

Inv == TypeOK /\ JournalInv /\ HandInv

\* Where a runtime holds nothing.
Calm == {"idle", "entry", "loop", "leave", "fault", "stop"}

-----------------------------------------------------------------------------
(* What typed values contain *)

LEMMA TurnsType ==
    ASSUME TypeTurns
    PROVE  /\ DOMAIN turns = 1 .. Len(turns) /\ Len(turns) \in Nat
           /\ DOMAIN turns \subseteq TurnIds
           /\ \A i \in DOMAIN turns : turns[i] \in Turns
BY WorkerAssumption DEF TypeTurns, TurnIds

LEMMA GrantsType ==
    ASSUME TypeActions
    PROVE  /\ DOMAIN grants \subseteq Nat
           /\ \A n \in DOMAIN grants : grants[n] \in Grants
BY DEF TypeActions

LEMMA ActionType ==
    ASSUME TypeActions, NEW i \in TurnIds
    PROVE  actions[i] \in Actions /\ effects[i] \in Nat
BY DEF TypeActions

LEMMA FirstType ==
    ASSUME NEW S \in SUBSET Nat, S # {}
    PROVE  First(S) \in S
BY SmallestElement DEF First

LEMMA HandlerType ==
    ASSUME TypeCommands, NEW t \in Threads, handler[t] # None
    PROVE  handler[t] \in Handlings /\ handler[t].turn \in TurnIds
BY DEF TypeCommands, Handlings

-----------------------------------------------------------------------------
(* What the building blocks of the actions preserve *)

\* The turns are asked the same, whatever became of their state and marker.
SameAsk ==
    /\ DOMAIN turns' = DOMAIN turns
    /\ \A i \in DOMAIN turns : /\ turns'[i].act = turns[i].act
                               /\ turns'[i].task = turns[i].task

LEMMA Frame ==
    /\ TypeRun /\ UNCHANGED <<runVars, deliveryVars, held>> => TypeRun'
    /\ TypeAttempts /\ UNCHANGED attemptVars => TypeAttempts'
    /\ TypeTurns /\ UNCHANGED turns => TypeTurns'
    /\ TypeActions /\ UNCHANGED <<actions, grants, file, effects>> => TypeActions'
    /\ TypeCommands /\ UNCHANGED <<commandVars, fresh>> => TypeCommands'
    /\ TypeHand /\ UNCHANGED <<pc, hand>> => TypeHand'
BY DEF TypeRun, TypeAttempts, TypeTurns, TypeActions, TypeCommands, TypeHand,
       runVars, deliveryVars, barrierVars, attemptVars, commandVars

LEMMA CommitType ==
    ASSUME TypeCommands, Commit
    PROVE  TypeCommands' /\ UNCHANGED held
BY DEF TypeCommands, Commit, commandVars

LEMMA CalmType ==
    ASSUME NEW p \in Calm, Goto(p, NoHand)
    PROVE  TypeHand' /\ HandInv'
BY DEF Goto, TypeHand, PCs, Calm, Hands, NoHand, HandInv, GrantedPCs, TurnPCs

LEMMA HandFrame ==
    ASSUME HandInv, UNCHANGED <<turns, actions, effects, pc, hand>>,
           pc = "settleGranted" => file'[Cur] = file[Cur] \/ file'[Cur] # "pre"
    PROVE  HandInv'
BY DEF HandInv, Cur

LEMMA EntryFrame ==
    ASSUME NEW i \in TurnIds, JournalEntry(i),
           i \in DOMAIN turns <=> i \in DOMAIN turns',
           i \in DOMAIN turns => turns'[i].act = turns[i].act,
           actions'[i].row = actions[i].row,
           actions'[i].pending = actions[i].pending,
           actions'[i].intent = actions[i].intent,
           effects'[i] = effects[i], file'[i] = file[i] \/ file'[i] # "pre"
    PROVE  JournalEntry(i)'
BY DEF JournalEntry

LEMMA BlankEntry ==
    ASSUME NEW i \in TurnIds, JournalEntry(i), i \notin DOMAIN turns,
           actions'[i] = actions[i], effects'[i] = effects[i]
    PROVE  JournalEntry(i)'
BY DEF JournalEntry

LEMMA JournalFrame ==
    ASSUME JournalInv, SameAsk, UNCHANGED <<actions, file, effects>>
    PROVE  JournalInv'
<1> SUFFICES ASSUME NEW i \in TurnIds PROVE JournalEntry(i)'
  BY DEF JournalInv, TurnIds
<1> QED
  BY EntryFrame DEF JournalInv, SameAsk

LEMMA SameTurns == UNCHANGED turns => SameAsk
BY DEF SameAsk

LEMMA QuietJournal ==
    ASSUME JournalInv, UNCHANGED <<turns, actions, file, effects>>
    PROVE  JournalInv'
BY JournalFrame, SameTurns

LEMMA TurnWritten ==
    ASSUME TypeTurns, NEW i \in DOMAIN turns, NEW turn \in Turns,
           turn.act = turns[i].act, turn.task = turns[i].task,
           turns' = [turns EXCEPT ![i] = turn]
    PROVE  TypeTurns' /\ SameAsk
<1>1. turns' \in Seq(Turns) /\ Len(turns') = Len(turns)
  BY TurnsType, ExceptSeq DEF TypeTurns
<1> QED
  BY <1>1, TurnsType DEF TypeTurns, SameAsk

LEMMA MarkerType ==
    ASSUME TypeTurns, NEW i \in DOMAIN turns, turns' = MarkerSettled(i)
    PROVE  TypeTurns' /\ SameAsk
<1>1. CASE hand.recovered
  <2> DEFINE turn == [turns[i] EXCEPT !.marker = "SETTLED"]
  <2>1. turn \in Turns /\ turn.act = turns[i].act /\ turn.task = turns[i].task
    BY TurnsType DEF Turns
  <2>2. turns' = [turns EXCEPT ![i] = turn]
    BY <1>1 DEF MarkerSettled
  <2> HIDE DEF turn
  <2> QED
    BY <2>1, <2>2, TurnWritten
<1>2. CASE ~hand.recovered
  BY <1>2, Frame, SameTurns DEF MarkerSettled
<1> QED
  BY <1>1, <1>2

-----------------------------------------------------------------------------
(* The grant commands *)

LEMMA ReceiptType ==
    ASSUME TypeOK, NEW t \in Threads, handler[t] # None, Receipt(t)
    PROVE  TypeCommands' /\ TypeTurns' /\ TypeHand'
<1>1. handler[t].id \in 1 .. MaxRequests
  BY HandlerType DEF TypeOK, Handlings
<1>2. TypeCommands'
  BY <1>1 DEF TypeOK, TypeCommands, Receipt
<1> QED
  BY <1>2, Frame DEF TypeOK, Receipt

LEMMA DecideInv ==
    ASSUME Inv, NEW t \in Threads
    PROVE  /\ \A i \in TurnIds, exact \in BOOLEAN : Decide(t, i, exact) => Inv'
           /\ \A u \in Threads : Redeliver(t, u) => Inv'
<1> USE DEF Inv, TypeOK
<1>1. ASSUME NEW i \in TurnIds, NEW exact \in BOOLEAN, NEW id \in 1 .. MaxRequests,
             Handle(t, i, exact, id)
      PROVE  /\ handler' \in [Threads -> Handlings \cup {None}]
             /\ fresh' \subseteq Threads \cup {Runtime}
             /\ claims' \subseteq 1 .. MaxRequests
  <2>1. actions[i].late \in BOOLEAN
    BY ActionType DEF Actions
  <2>2. [id |-> id, turn |-> i, exact |-> exact, late |-> actions[i].late] \in Handlings
    BY <2>1 DEF Handlings
  <2> QED
    BY <1>1, <2>2 DEF TypeCommands, Handle
<1>2. ASSUME NEW i, NEW exact, NEW id, Handle(t, i, exact, id), TypeCommands'
      PROVE  Inv'
  BY <1>2, Frame, QuietJournal, HandFrame DEF Handle
<1>3. ASSUME NEW i \in TurnIds, NEW exact \in BOOLEAN, Decide(t, i, exact)
      PROVE  Inv'
  <2>1. sent + 1 \in 1 .. MaxRequests /\ sent' \in 0 .. MaxRequests
    BY <1>3, WorkerAssumption DEF TypeCommands, Decide
  <2>2. TypeCommands'
    BY <1>1, <1>3, <2>1 DEF TypeCommands, Decide
  <2> QED
    BY <1>2, <1>3, <2>2 DEF Decide
<1>4. ASSUME NEW u \in Threads, Redeliver(t, u)
      PROVE  Inv'
  <2>1. /\ handler[u].id \in 1 .. MaxRequests /\ handler[u].turn \in TurnIds
        /\ handler[u].exact \in BOOLEAN
    BY <1>4, HandlerType DEF Redeliver, Handlings
  <2>2. TypeCommands'
    BY <1>1, <1>4, <2>1 DEF TypeCommands, Redeliver
  <2> QED
    BY <1>2, <1>4, <2>2 DEF Redeliver
<1> QED
  BY <1>3, <1>4

\* What a decision about a Pending Action changes, and what it leaves alone.
Lapses(i) ==
    /\ i \in TurnIds /\ Waiting(i)
    /\ actions' = [actions EXCEPT ![i].pending = "INVALIDATED"]

Approves(i) ==
    /\ i \in TurnIds /\ Waiting(i)
    /\ actions' = Granted(i)

LEMMA DecisionJournal ==
    ASSUME TypeOK, JournalInv, HandInv, NEW i, Lapses(i) \/ Approves(i),
           UNCHANGED <<turns, file, effects, pc, hand>>
    PROVE  /\ actions' \in [TurnIds -> Actions]
           /\ JournalInv' /\ HandInv'
<1> USE DEF TypeOK
<1>1. i \in TurnIds /\ Waiting(i)
  BY DEF Lapses, Approves
<1>2. actions[i] \in Actions /\ actions[i].intent = "NONE" /\ turns[i].act = "risky"
      /\ actions[i].row # "NONE" /\ effects[i] \in Nat
  BY <1>1, ActionType DEF JournalInv, JournalEntry, Waiting
<1>3. actions' \in [TurnIds -> Actions]
  <2>1. [actions[i] EXCEPT !.pending = "INVALIDATED"] \in Actions
    BY <1>2 DEF Actions
  <2>2. [actions[i] EXCEPT !.pending = "GRANT_CONSUMED", !.intent = "INTENT_RECORDED"]
          \in Actions
    BY <1>2 DEF Actions
  <2> QED
    BY <1>1, <2>1, <2>2 DEF TypeActions, Lapses, Approves, Granted
<1>4. /\ \A j \in TurnIds \ {i} : actions'[j] = actions[j]
      /\ actions'[i].row = actions[i].row
      /\ \/ actions'[i].pending = "INVALIDATED" /\ actions'[i].intent = "NONE"
         \/ /\ actions'[i].pending = "GRANT_CONSUMED"
            /\ actions'[i].intent = "INTENT_RECORDED"
  BY <1>1, <1>2 DEF TypeActions, Actions, Lapses, Approves, Granted
<1>5. JournalInv'
  <2> SUFFICES ASSUME NEW j \in TurnIds PROVE JournalEntry(j)'
    BY DEF JournalInv, TurnIds
  <2>1. CASE j # i
    BY <1>4, <2>1, EntryFrame DEF JournalInv
  <2>2. CASE j = i
    BY <1>1, <1>2, <1>4, <2>2 DEF JournalInv, JournalEntry
  <2> QED
    BY <2>1, <2>2
<1>6. HandInv'
  <2>1. pc \in {"execute", "settle"} \cup GrantedPCs => Cur \in TurnIds
    BY TurnsType DEF HandInv
  <2>2. pc \in GrantedPCs => Cur # i
    BY <1>1 DEF HandInv, Waiting
  <2> QED
    BY <1>4, <2>1, <2>2 DEF HandInv, TurnPCs, Cur, GrantedPCs
<1> QED
  BY <1>3, <1>5, <1>6

LEMMA AttemptsExcept ==
    ASSUME TypeAttempts, NEW k, NEW s \in {"RUNNING", "WAITING_APPROVAL", "STALE"},
           attempts' = [attempts EXCEPT ![k].state = s], UNCHANGED created
    PROVE  TypeAttempts'
<1>1. \A j \in Tasks : [attempts[j] EXCEPT !.state = s] \in Attempts
  BY DEF TypeAttempts, Attempts
<1> QED
  BY <1>1 DEF TypeAttempts

LEMMA GrantAppended ==
    ASSUME TypeActions, NEW i \in TurnIds, NEW s \in {"CONSUMED", "INVALIDATED"},
           grants' = Append(grants, [turn |-> i, state |-> s])
    PROVE  grants' \in Seq(Grants)
<1>1. [turn |-> i, state |-> s] \in Grants
  BY DEF Grants
<1> QED
  BY <1>1 DEF TypeActions

LEMMA MintedType == TypeRun => Minted \in Permits
BY DEF TypeRun, Minted, Permits

LEMMA CommitGrantInv ==
    ASSUME Inv, NEW t \in Threads,
           CommitLost(t) \/ CommitDenied(t) \/ CommitExpired(t)
           \/ CommitStale(t) \/ CommitGrant(t) \/ CommitRaises(t)
    PROVE  Inv'
<1> USE DEF Inv, TypeOK
<1> DEFINE i == handler[t].turn
<1>1. handler[t] # None => i \in TurnIds
  BY HandlerType
<1>2. CASE CommitLost(t) \/ CommitRaises(t)
  <2>1. TypeCommands'
    BY <1>2 DEF TypeCommands, CommitLost, CommitRaises, RolledBack
  <2> QED
    BY <1>2, <2>1, Frame, QuietJournal, HandFrame
    DEF CommitLost, CommitRaises, RolledBack
<1>3. CASE CommitDenied(t)
  <2>1. TypeCommands'
    BY <1>3, ReceiptType DEF CommitDenied
  <2> QED
    BY <1>3, <2>1, Frame, QuietJournal, HandFrame
    DEF CommitDenied, Receipt, runVars, deliveryVars, attemptVars
<1>4. CASE CommitExpired(t) \/ CommitStale(t)
  <2>1. handler[t] # None /\ Receipt(t) /\ Invalidated(i) /\ Waiting(i)
        /\ UNCHANGED permit
    BY <1>4 DEF CommitExpired, CommitStale
  <2>2. TypeCommands' /\ TypeTurns' /\ TypeHand'
    BY <2>1, ReceiptType
  <2>3. Lapses(i)
    BY <1>1, <2>1 DEF Lapses, Invalidated
  <2>4. actions' \in [TurnIds -> Actions] /\ JournalInv' /\ HandInv'
    BY <2>1, <2>3, DecisionJournal DEF Receipt
  <2>5. TypeAttempts'
    BY <2>1, AttemptsExcept DEF Invalidated, Receipt
  <2>6. grants' \in Seq(Grants)
    BY <1>1, <1>4, <2>1, GrantAppended DEF CommitExpired, CommitStale, TypeActions
  <2>7. TypeActions'
    BY <2>1, <2>4, <2>6 DEF TypeActions, Receipt
  <2>8. TypeRun'
    BY <2>1 DEF TypeRun, Receipt, runVars, barrierVars
  <2> QED
    BY <2>2, <2>4, <2>5, <2>7, <2>8
<1>5. CASE CommitGrant(t)
  <2>1. handler[t] # None /\ Receipt(t) /\ Waiting(i)
        /\ permit' = Minted /\ actions' = Granted(i) /\ attempts' = Resumed(i)
        /\ grants' = Append(grants, [turn |-> i, state |-> "CONSUMED"])
    BY <1>5 DEF CommitGrant
  <2>2. TypeCommands' /\ TypeTurns' /\ TypeHand'
    BY <2>1, ReceiptType
  <2>3. Approves(i)
    BY <1>1, <2>1 DEF Approves
  <2>4. actions' \in [TurnIds -> Actions] /\ JournalInv' /\ HandInv'
    BY <2>1, <2>3, DecisionJournal DEF Receipt
  <2>5. TypeAttempts'
    BY <2>1, AttemptsExcept DEF Resumed, Receipt
  <2>6. grants' \in Seq(Grants)
    BY <1>1, <2>1, GrantAppended
  <2>7. TypeActions'
    BY <2>1, <2>4, <2>6 DEF TypeActions, Receipt
  <2>8. TypeRun'
    BY <2>1, MintedType DEF TypeRun, Receipt, runVars, barrierVars
  <2> QED
    BY <2>2, <2>4, <2>5, <2>7, <2>8
<1> QED
  BY <1>2, <1>3, <1>4, <1>5

-----------------------------------------------------------------------------
(* The environment *)

LEMMA EnvironmentInv ==
    ASSUME Inv, Environment
    PROVE  Inv'
<1> USE DEF Inv, TypeOK
<1>1. CASE Replace
  <2>1. TypeRun' /\ TypeCommands'
    BY <1>1 DEF TypeRun, TypeCommands, Replace, deliveryVars, barrierVars, commandVars
  <2> QED
    BY <1>1, <2>1, Frame, QuietJournal, HandFrame DEF Replace
<1>2. CASE Continue
  <2>1. TypeRun' /\ TypeCommands'
    BY <1>2, MintedType DEF TypeRun, TypeCommands, Continue, runVars, barrierVars, commandVars
  <2> QED
    BY <1>2, <2>1, Frame, QuietJournal, HandFrame DEF Continue
<1>3. CASE \E k \in Tasks : LeaseExpires(k)
  <2>1. PICK k \in Tasks : LeaseExpires(k)
    BY <1>3
  <2>2. [attempts[k] EXCEPT !.expired = TRUE] \in Attempts
    BY DEF TypeAttempts, Attempts
  <2>3. TypeAttempts'
    BY <2>1, <2>2 DEF TypeAttempts, LeaseExpires
  <2> QED
    BY <2>1, <2>3, Frame, QuietJournal, HandFrame DEF LeaseExpires
<1>4. CASE \E i \in TurnIds : PendingExpires(i)
  <2>1. PICK i \in TurnIds : PendingExpires(i)
    BY <1>4
  <2>2. [actions[i] EXCEPT !.late = TRUE] \in Actions
    BY ActionType DEF Actions
  <2>3. TypeActions'
    BY <2>1, <2>2 DEF TypeActions, PendingExpires
  <2>4. \A j \in TurnIds : /\ actions'[j].row = actions[j].row
                           /\ actions'[j].pending = actions[j].pending
                           /\ actions'[j].intent = actions[j].intent
    BY <2>1, ActionType DEF TypeActions, Actions, PendingExpires
  <2>5. JournalInv'
    <3> SUFFICES ASSUME NEW j \in TurnIds PROVE JournalEntry(j)'
      BY DEF JournalInv, TurnIds
    <3> QED
      BY <2>1, <2>4, EntryFrame DEF JournalInv, PendingExpires
  <2>6. HandInv'
    <3>1. pc \in {"execute", "settle"} \cup GrantedPCs => Cur \in TurnIds
      BY TurnsType DEF HandInv
    <3> QED
      BY <2>1, <2>4, <3>1 DEF HandInv, TurnPCs, Cur, GrantedPCs, PendingExpires
  <2> QED
    BY <2>1, <2>3, <2>5, <2>6, Frame DEF PendingExpires
<1>5. CASE \E i \in TurnIds : Edit(i)
  <2>1. PICK i \in TurnIds : Edit(i)
    BY <1>5
  <2>2. PICK f \in {"post", "other"} : file' = [file EXCEPT ![i] = f]
    BY <2>1 DEF Edit
  <2>3. TypeActions'
    BY <2>1, <2>2 DEF TypeActions, Edit
  <2>4. \A j \in TurnIds : file'[j] = file[j] \/ file'[j] # "pre"
    BY <2>2 DEF TypeActions
  <2>5. JournalInv'
    <3> SUFFICES ASSUME NEW j \in TurnIds PROVE JournalEntry(j)'
      BY DEF JournalInv, TurnIds
    <3> QED
      BY <2>1, <2>4, EntryFrame DEF JournalInv, Edit
  <2>6. HandInv'
    <3>1. pc = "settleGranted" => Cur \in TurnIds
      BY TurnsType DEF HandInv, GrantedPCs
    <3> QED
      BY <2>1, <2>4, <3>1, HandFrame DEF Edit
  <2> QED
    BY <2>1, <2>3, <2>5, <2>6, Frame DEF Edit
<1>6. CASE Fault
  <2>1. TypeHand' /\ HandInv'
    BY <1>6, CalmType DEF Fault, Goto, Calm
  <2> QED
    BY <1>6, <2>1, Frame, QuietJournal DEF Fault
<1>7. CASE Crash
  <2>1. TypeHand' /\ HandInv'
    BY <1>7, CalmType DEF Crash, Goto, Calm
  <2>2. TypeRun'
    BY <1>7 DEF TypeRun, Crash, runVars, deliveryVars, barrierVars
  <2> QED
    BY <1>7, <2>1, <2>2, Frame, QuietJournal DEF Crash
<1> QED
  BY <1>1, <1>2, <1>3, <1>4, <1>5, <1>6, <1>7 DEF Environment

-----------------------------------------------------------------------------
(* The runtime: steps that leave the journal alone *)

\* A step that only reads and then holds nothing.
LEMMA CalmReadInv ==
    ASSUME Inv, NEW p \in Calm, Goto(p, NoHand), ReadStep
    PROVE  Inv'
BY CalmType, Frame, QuietJournal DEF Inv, TypeOK, ReadStep

\* A step that changes the row of the Run and then holds nothing.
LEMMA CalmRunInv ==
    ASSUME Inv, NEW p \in Calm, Goto(p, NoHand), Commit, TypeRun',
           UNCHANGED <<attemptVars, turns, actions, grants, file, effects>>
    PROVE  Inv'
BY CalmType, CommitType, Frame, QuietJournal DEF Inv, TypeOK

LEMMA DeliveryInv ==
    ASSUME Inv, Delivery
    PROVE  Inv'
<1> USE DEF Inv, TypeOK
<1>1. CASE ConsumePermit
  <2>1. TypeHand' /\ HandInv'
    BY <1>1, CalmType DEF ConsumePermit, Calm
  <2>2. TypeRun' /\ TypeCommands'
    BY <1>1 DEF TypeRun, TypeCommands, ConsumePermit, runVars, barrierVars,
                 commandVars
  <2> QED
    BY <1>1, <2>1, <2>2, Frame, QuietJournal DEF ConsumePermit
<1>2. CASE InvalidatePermit
  <2>1. TypeRun' /\ TypeCommands'
    BY <1>2, CommitType DEF TypeRun, InvalidatePermit, runVars, barrierVars
  <2> QED
    BY <1>2, <2>1, Frame, QuietJournal, HandFrame DEF InvalidatePermit
<1>3. CASE RecordFault
  <2>1. TypeRun'
    BY <1>3, CommitType DEF TypeRun, RecordFault, Classified
  <2> QED
    BY <1>3, <2>1, CalmRunInv DEF RecordFault, AfterFault, Calm
<1>4. CASE Stop
  <2>1. TypeHand' /\ HandInv'
    BY <1>4, CalmType DEF Stop, Calm
  <2>2. TypeRun' /\ TypeCommands'
    BY <1>4 DEF TypeRun, TypeCommands, Stop, runVars, barrierVars, commandVars
  <2> QED
    BY <1>4, <2>1, <2>2, Frame, QuietJournal DEF Stop
<1>5. CASE DeliveryLost
  <2>1. TypeHand' /\ HandInv'
    BY <1>5, CalmType DEF DeliveryLost, Calm
  <2>2. TypeRun'
    BY <1>5 DEF TypeRun, DeliveryLost, runVars, deliveryVars, barrierVars
  <2> QED
    BY <1>5, <2>1, <2>2, Frame, QuietJournal DEF DeliveryLost
<1> QED
  BY <1>1, <1>2, <1>3, <1>4, <1>5 DEF Delivery

LEMMA EntryInv ==
    ASSUME Inv, Entry
    PROVE  Inv'
<1> USE DEF Inv, TypeOK
<1>1. CASE EnterUnsettled \/ EnterBlocked \/ EnterDrive
  BY <1>1, CalmReadInv DEF EnterUnsettled, EnterBlocked, EnterDrive, Calm
<1>2. CASE EnterResume
  <2>1. PICK i \in UnsettledMarkers : Goto("consume", Holding(i, TRUE))
    BY <1>2 DEF EnterResume
  <2>2. i \in DOMAIN turns /\ turns[i].task \in Tasks /\ i \in TurnIds
    BY TurnsType DEF UnsettledMarkers, Turns
  <2>3. TypeHand'
    BY <2>1, <2>2 DEF TypeHand, Goto, PCs, Hands, Holding
  <2>4. HandInv'
    BY <1>2, <2>1, <2>2 DEF HandInv, TurnPCs, Goto, Holding, Cur, GrantedPCs, EnterResume, ReadStep
  <2> QED
    BY <1>2, <2>3, <2>4, Frame, QuietJournal DEF EnterResume, ReadStep
<1>3. CASE EnterGranted
  <2> DEFINE n == First(UnsettledGrants)
             i == grants[n].turn
  <2>1. n \in UnsettledGrants
    BY <1>3, GrantsType, FirstType DEF EnterGranted, UnsettledGrants
  <2>2. i \in TurnIds /\ actions[i].intent \in {"INTENT_RECORDED", "DISPATCHED"}
    BY <2>1, GrantsType DEF UnsettledGrants, Grants
  <2>3. actions[i].pending = "GRANT_CONSUMED" /\ i \in DOMAIN turns
    BY <2>2, ActionType DEF JournalInv, JournalEntry, Actions
  <2>4. turns[i].task \in Tasks
    BY <2>3, TurnsType DEF Turns
  <2>5. Goto("granted", Holding(i, FALSE)) /\ ReadStep
    BY <1>3 DEF EnterGranted
  <2> HIDE DEF n, i
  <2>6. TypeHand'
    BY <2>2, <2>4, <2>5 DEF TypeHand, Goto, PCs, Hands, Holding
  <2>7. HandInv'
    BY <2>2, <2>3, <2>5 DEF HandInv, TurnPCs, Goto, Holding, Cur, GrantedPCs, ReadStep
  <2> QED
    BY <2>5, <2>6, <2>7, Frame, QuietJournal DEF ReadStep
<1>4. CASE EnterRecover
  <2> DEFINE i == First(RecoverableTurns)
             turn == [turns[i] EXCEPT !.state = "DOWNSTREAM_INTENT_RECORDED",
                                      !.marker = "UNSETTLED"]
  <2>1. RecoverableTurns \in SUBSET Nat
    BY TurnsType DEF RecoverableTurns
  <2>2. i \in DOMAIN turns
    BY <1>4, <2>1, FirstType DEF EnterRecover, RecoverableTurns
  <2>3. turn \in Turns /\ turn.act = turns[i].act /\ turn.task = turns[i].task
    BY <2>2, TurnsType DEF Turns
  <2>4. turns' = [turns EXCEPT ![i] = turn]
    BY <1>4 DEF EnterRecover
  <2>5. Goto("consume", Holding(i, TRUE)) /\ Commit
        /\ UNCHANGED <<runVars, deliveryVars, attemptVars, actions, grants, file, effects>>
    BY <1>4 DEF EnterRecover
  <2>6. i \in TurnIds /\ turns[i].task \in Tasks
    BY <2>2, TurnsType DEF Turns
  <2> HIDE DEF i, turn
  <2>7. TypeTurns' /\ SameAsk
    BY <2>2, <2>3, <2>4, TurnWritten
  <2>8. TypeHand'
    BY <2>5, <2>6 DEF TypeHand, Goto, PCs, Hands, Holding
  <2>9. HandInv'
    BY <2>2, <2>5, <2>7 DEF HandInv, TurnPCs, Goto, Holding, Cur, GrantedPCs, SameAsk
  <2> QED
    BY <2>5, <2>7, <2>8, <2>9, CommitType, JournalFrame, Frame
<1> QED
  BY <1>1, <1>2, <1>3, <1>4 DEF Entry

LEMMA LoopInv ==
    ASSUME Inv, Loop
    PROVE  Inv'
<1> USE DEF Inv, TypeOK
<1>1. CASE TimeExhausted
  <2>1. TypeRun'
    BY <1>1, CommitType DEF TypeRun, TimeExhausted, deliveryVars, barrierVars
  <2> QED
    BY <1>1, <2>1, CalmRunInv DEF TimeExhausted, Calm
<1>2. CASE Leave \/ LoopClosed \/ LoopNothing \/ \E k \in Tasks : LoopConflict(k)
  BY <1>2, CalmReadInv DEF Leave, LoopClosed, LoopNothing, LoopConflict, Calm
<1>3. CASE LoopExisting
  <2> DEFINE k == created[First(RunnableTurns)]
  <2>1. RunnableTurns \in SUBSET Nat /\ RunnableTurns \subseteq DOMAIN created
    BY DEF TypeAttempts, RunnableTurns
  <2>2. k \in Tasks
    BY <1>3, <2>1, FirstType DEF LoopExisting, TypeAttempts
  <2>3. Goto("turn", [NoHand EXCEPT !.task = k]) /\ ReadStep
    BY <1>3 DEF LoopExisting
  <2> HIDE DEF k
  <2>4. TypeHand' /\ HandInv'
    BY <2>2, <2>3 DEF TypeHand, Goto, PCs, Hands, NoHand, HandInv, GrantedPCs, TurnPCs, Cur
  <2> QED
    BY <2>3, <2>4, Frame, QuietJournal DEF ReadStep
<1>4. CASE \E k \in Tasks : LoopCreate(k)
  <2>1. PICK k \in Tasks : LoopCreate(k)
    BY <1>4
  <2>2. Goto("turn", [NoHand EXCEPT !.task = k]) /\ Commit
    BY <2>1 DEF LoopCreate
  <2>3. TypeHand' /\ HandInv'
    BY <2>2 DEF TypeHand, Goto, PCs, Hands, NoHand, HandInv, GrantedPCs, TurnPCs, Cur
  <2>4. TypeAttempts'
    <3>1. [task |-> "ACTIVE", state |-> "RUNNING", bound |-> rev, lease |-> "ACTIVE",
           expired |-> FALSE] \in Attempts
      BY DEF TypeRun, Attempts
    <3> QED
      BY <2>1, <3>1 DEF TypeAttempts, LoopCreate
  <2>5. open' \in BOOLEAN
    BY <2>1, SMT DEF LoopCreate
  <2>6. TypeRun'
    BY <2>1, <2>5, CommitType DEF TypeRun, LoopCreate, deliveryVars, barrierVars
  <2> QED
    BY <2>1, <2>2, <2>3, <2>4, <2>6, CommitType, Frame, QuietJournal DEF LoopCreate
<1> QED
  BY <1>1, <1>2, <1>3, <1>4 DEF Loop

LEMMA AnswerInv ==
    ASSUME Inv, NEW act \in Acts, ProviderAnswers(act)
    PROVE  Inv'
<1> USE DEF Inv, TypeOK
<1> DEFINE turn == [task |-> hand.task, act |-> act,
                    state |-> "COMPLETION_COMMITTED", marker |-> "NONE"]
<1>1. pc = "provider" /\ hand.task \in Tasks /\ Len(turns) < MaxTurns
  BY DEF ProviderAnswers, Settling, HandInv, TurnPCs
<1>2. turn \in Turns
  BY <1>1 DEF Turns
<1>3. /\ turns' = Append(turns, turn) /\ Commit
      /\ Goto("settleBarrier", [NoHand EXCEPT !.task = hand.task, !.turn = Len(turns) + 1])
      /\ open' \in {open, FALSE}
      /\ UNCHANGED <<run, rev, deliveryVars, attemptVars, actions, grants, file, effects>>
  BY DEF ProviderAnswers, Settling
<1> HIDE DEF turn
<1>4. /\ turns' \in Seq(Turns) /\ Len(turns') = Len(turns) + 1
      /\ \A i \in DOMAIN turns : turns'[i] = turns[i]
      /\ DOMAIN turns' = 1 .. Len(turns) + 1
  BY <1>2, <1>3, TurnsType DEF TypeTurns
<1>5. TypeTurns'
  BY <1>1, <1>4, TurnsType, WorkerAssumption DEF TypeTurns
<1>6. Len(turns) + 1 \in TurnIds /\ Len(turns) + 1 \in DOMAIN turns'
  BY <1>1, <1>4, TurnsType, WorkerAssumption DEF TurnIds
<1>7. TypeHand' /\ HandInv'
  BY <1>1, <1>3, <1>6
  DEF TypeHand, Goto, PCs, Hands, NoHand, HandInv, GrantedPCs, TurnPCs, Cur
<1>8. JournalInv'
  <2> SUFFICES ASSUME NEW i \in TurnIds PROVE JournalEntry(i)'
    BY DEF JournalInv, TurnIds
  <2>1. CASE i \in DOMAIN turns
    BY <1>3, <1>4, <2>1, TurnsType, EntryFrame DEF JournalInv
  <2>2. CASE i \notin DOMAIN turns
    BY <1>3, <2>2, BlankEntry DEF JournalInv
  <2> QED
    BY <2>1, <2>2
<1>9. open' \in BOOLEAN
  BY <1>3, Zenon DEF TypeRun
<1>10. TypeRun'
  BY <1>3, <1>9, CommitType DEF TypeRun, deliveryVars, barrierVars
<1> QED
  BY <1>3, <1>5, <1>7, <1>8, <1>10, CommitType, Frame

\* A step of a turn that goes on with the same hand.
LEMMA TurnGoesOn ==
    ASSUME Inv, pc \in TurnPCs, NEW p \in TurnPCs, Goto(p, hand), UNCHANGED turns
    PROVE  TypeHand' /\ HandInv'
BY DEF Inv, TypeOK, TypeHand, Goto, PCs, HandInv, GrantedPCs, TurnPCs, Cur

\* ... and changes the row of the Run.
LEMMA TurnRunInv ==
    ASSUME Inv, pc \in TurnPCs, NEW p \in TurnPCs, Goto(p, hand), Commit, TypeRun',
           UNCHANGED <<attemptVars, turns, actions, grants, file, effects>>
    PROVE  Inv'
BY TurnGoesOn, CommitType, Frame, QuietJournal DEF Inv, TypeOK

LEMMA TurnInv ==
    ASSUME Inv, Turn
    PROVE  Inv'
<1> USE DEF Inv, TypeOK
<1>1. CASE BarrierRaises \/ ProviderRaises \/ SettlementRaises
  BY <1>1, CalmReadInv DEF BarrierRaises, ProviderRaises, SettlementRaises, Calm
<1>2. CASE TurnRefused
  <2>1. TypeHand' /\ HandInv'
    BY <1>2, TurnGoesOn DEF TurnRefused, ReadStep, TurnPCs
  <2> QED
    BY <1>2, <2>1, Frame, QuietJournal DEF TurnRefused, ReadStep
<1>3. CASE BeginBarrier \/ TurnPaused \/ TurnReserved
  <2>1. TypeRun'
    BY <1>3, CommitType
    DEF TypeRun, BeginBarrier, TurnPaused, TurnReserved, runVars, deliveryVars, barrierVars
  <2> QED
    BY <1>3, <2>1, TurnRunInv
    DEF BeginBarrier, TurnPaused, TurnReserved, Reservable, TurnPCs
<1>4. CASE \E act \in Acts : ProviderAnswers(act)
  BY <1>4, AnswerInv
<1>5. CASE ProviderFails
  <2>1. open' \in BOOLEAN
    BY <1>5, Zenon DEF ProviderFails, Settling, TypeRun
  <2>2. run' \in {run, "PAUSED"} /\ Commit /\ UNCHANGED <<rev, deliveryVars>>
    BY <1>5 DEF ProviderFails
  <2>3. TypeRun'
    BY <2>1, <2>2, CommitType DEF TypeRun, deliveryVars, barrierVars
  <2> QED
    BY <1>5, <2>3, TurnRunInv DEF ProviderFails, Settling, TurnPCs
<1>6. CASE SettleBarrier
  <2>1. TypeRun'
    BY <1>6, CommitType DEF TypeRun, SettleBarrier, runVars
  <2>2. TypeHand' /\ HandInv'
    <3>1. CASE hand.turn = 0
      BY <1>6, <3>1, CalmType DEF SettleBarrier, Calm
    <3>2. CASE hand.turn # 0
      BY <1>6, <3>2
      DEF SettleBarrier, TypeHand, Goto, PCs, HandInv, GrantedPCs, TurnPCs, Cur
    <3> QED
      BY <3>1, <3>2
  <2> QED
    BY <1>6, <2>1, <2>2, CommitType, Frame, QuietJournal DEF SettleBarrier
<1> QED
  BY <1>1, <1>2, <1>3, <1>4, <1>5, <1>6 DEF Turn

-----------------------------------------------------------------------------
(* The runtime: consuming a Worker action *)

LEMMA CurType ==
    ASSUME TypeOK, HandInv,
           pc \in {"consume", "decided", "denied", "execute", "settle"} \cup GrantedPCs
    PROVE  /\ Cur \in DOMAIN turns /\ Cur \in TurnIds /\ turns[Cur] \in Turns
           /\ actions[Cur] \in Actions /\ effects[Cur] \in Nat
BY TurnsType, ActionType DEF TypeOK, HandInv

\* The row of one action is written, its approval is not.
LEMMA RowWritten ==
    ASSUME Inv, NEW i \in DOMAIN turns, NEW r \in {"SETTLED", "UNCERTAIN", "RECORDED"},
           actions' = [actions EXCEPT ![i].row = r],
           SameAsk, UNCHANGED <<grants, file, effects>>
    PROVE  TypeActions' /\ JournalInv'
<1> USE DEF Inv, TypeOK
<1>1. i \in TurnIds /\ [actions[i] EXCEPT !.row = r] \in Actions
  BY TurnsType, ActionType DEF Actions
<1>2. TypeActions'
  BY <1>1 DEF TypeActions
<1>3. /\ \A j \in TurnIds \ {i} : actions'[j] = actions[j]
      /\ actions'[i].row = r /\ actions'[i].pending = actions[i].pending
      /\ actions'[i].intent = actions[i].intent
  BY <1>1, ActionType DEF TypeActions, Actions
<1>4. JournalInv'
  <2> SUFFICES ASSUME NEW j \in TurnIds PROVE JournalEntry(j)'
    BY DEF JournalInv, TurnIds
  <2>1. CASE j # i
    BY <1>3, <2>1, EntryFrame DEF JournalInv, SameAsk
  <2>2. CASE j = i
    BY <1>1, <1>3, <2>2 DEF JournalInv, JournalEntry, SameAsk
  <2> QED
    BY <2>1, <2>2
<1> QED
  BY <1>2, <1>4

LEMMA EndedType ==
    ASSUME TypeAttempts, NEW k, NEW s \in {"FAILED", "SUCCEEDED"}, UNCHANGED created,
           \/ attempts' = Ended(k, s)
           \/ attempts' = [Ended(k, s) EXCEPT ![k].task = "READY"]
    PROVE  TypeAttempts'
<1>1. Ended(k, s) \in [Tasks -> Attempts]
  <2>1. \A a \in Attempts : [[a EXCEPT !.state = s] EXCEPT !.lease = "REVOKED"] \in Attempts
    BY DEF Attempts
  <2>2. \A j \in Tasks : attempts[j] \in Attempts
    BY DEF TypeAttempts
  <2>3. \A j \in Tasks : [[attempts[j] EXCEPT !.state = s] EXCEPT !.lease = "REVOKED"]
                            \in Attempts
    BY ONLY <2>1, <2>2
  <2> QED
    BY <2>3 DEF TypeAttempts, Ended
<1> HIDE DEF Ended
<1>2. \A a \in Attempts : [a EXCEPT !.task = "READY"] \in Attempts
  BY DEF Attempts
<1> QED
  BY <1>1, <1>2 DEF TypeAttempts

LEMMA ConsumeReadInv ==
    ASSUME Inv, ConsumeGone \/ MalformedRaises \/ DenialRaises \/ DecisionRaises
    PROVE  Inv'
BY CalmReadInv DEF ConsumeGone, MalformedRaises, DenialRaises, DecisionRaises, Calm

LEMMA AuthorizeInv ==
    ASSUME Inv, Authorize \/ RecordDenial
    PROVE  Inv'
<1> USE DEF Inv, TypeOK
<1>1. CASE Authorize
  <2>1. pc = "consume" /\ Goto("decided", [hand EXCEPT !.verdict = Verdict(Cur)])
    BY <1>1 DEF Authorize, Consuming
  <2>2. /\ Verdict(Cur) \in {"DENY", "APPROVE", "ALLOW"}
        /\ Verdict(Cur) = "ALLOW" => turns[Cur].act # "risky"
    BY DEF Verdict
  <2>3. TypeHand' /\ hand'.turn = hand.turn /\ hand'.verdict = Verdict(Cur)
    BY <2>1, <2>2 DEF TypeHand, Goto, PCs, Hands
  <2>4. HandInv'
    BY <1>1, <2>1, <2>2, <2>3, CurType DEF HandInv, TurnPCs, Goto, Cur, GrantedPCs, Authorize
  <2>5. TypeCommands'
    BY <1>1 DEF TypeCommands, Authorize, commandVars
  <2> QED
    BY <1>1, <2>3, <2>4, <2>5, Frame, QuietJournal DEF Authorize
<1>2. CASE RecordDenial
  <2>1. TypeCommands'
    BY <1>2 DEF TypeCommands, RecordDenial, commandVars
  <2>2. CASE Goto("denied", hand)
    <3>1. TypeHand'
      BY <2>2 DEF TypeHand, Goto, PCs
    <3>2. HandInv'
      BY <1>2, <2>2, CurType DEF HandInv, TurnPCs, Goto, Cur, GrantedPCs, RecordDenial
    <3> QED
      BY <1>2, <2>1, <3>1, <3>2, Frame, QuietJournal DEF RecordDenial
  <2>3. CASE Goto("leave", NoHand)
    BY <1>2, <2>1, <2>3, CalmType, Frame, QuietJournal DEF RecordDenial, Calm
  <2> QED
    BY <1>2, <2>2, <2>3 DEF RecordDenial
<1> QED
  BY <1>1, <1>2

\* A marker is settled and the journal is left alone.
LEMMA MarkedInv ==
    ASSUME Inv, RecordMalformed \/ SettleDenial
    PROVE  Inv'
<1> USE DEF Inv, TypeOK
<1>1. Cur \in DOMAIN turns /\ turns' = MarkerSettled(Cur) /\ Commit
  BY CurType DEF RecordMalformed, SettleDenial, Consuming
<1>2. TypeTurns' /\ SameAsk
  BY <1>1, MarkerType
<1>3. JournalInv' /\ TypeHand' /\ HandInv'
  BY <1>2, CalmType, JournalFrame DEF RecordMalformed, SettleDenial, Calm
<1>4. TypeAttempts'
  BY Frame, EndedType DEF RecordMalformed, SettleDenial
<1> QED
  BY <1>1, <1>2, <1>3, <1>4, CommitType, Frame DEF RecordMalformed, SettleDenial

LEMMA FinishInv ==
    ASSUME Inv, FinishAttempt
    PROVE  Inv'
<1> USE DEF Inv, TypeOK
<1>1. Cur \in DOMAIN turns /\ turns' = MarkerSettled(Cur) /\ Commit
  BY CurType DEF FinishAttempt, Recording
<1>2. TypeTurns' /\ SameAsk
  BY <1>1, MarkerType
<1>3. TypeActions' /\ JournalInv'
  BY <1>1, <1>2, RowWritten DEF FinishAttempt
<1>4. TypeAttempts'
  BY EndedType DEF FinishAttempt, FinishedState
<1>5. TypeHand' /\ HandInv'
  BY CalmType DEF FinishAttempt, Calm
<1> QED
  BY <1>1, <1>2, <1>3, <1>4, <1>5, CommitType, Frame DEF FinishAttempt

LEMMA FreezeInv ==
    ASSUME Inv, FreezePending
    PROVE  Inv'
<1> USE DEF Inv, TypeOK
<1>1. /\ Cur \in DOMAIN turns /\ turns' = MarkerSettled(Cur) /\ Commit
      /\ turns[Cur].act = "risky" /\ actions[Cur].row = "NONE"
      /\ Cur \in TurnIds /\ actions[Cur] \in Actions
  BY CurType DEF FreezePending, Recording, Recordable
<1>2. TypeTurns' /\ SameAsk
  BY <1>1, MarkerType
<1>3. TypeActions'
  <2>1. [actions[Cur] EXCEPT !.row = "FROZEN", !.pending = "WAITING_APPROVAL"] \in Actions
    BY <1>1 DEF Actions
  <2> QED
    BY <1>1, <2>1 DEF TypeActions, FreezePending
<1>4. /\ \A j \in TurnIds \ {Cur} : actions'[j] = actions[j]
      /\ actions'[Cur].row = "FROZEN" /\ actions'[Cur].pending = "WAITING_APPROVAL"
      /\ actions'[Cur].intent = actions[Cur].intent
  BY <1>1 DEF TypeActions, Actions, FreezePending
<1>5. JournalInv'
  <2> SUFFICES ASSUME NEW j \in TurnIds PROVE JournalEntry(j)'
    BY DEF JournalInv, TurnIds
  <2>1. CASE j # Cur
    BY <1>2, <1>4, <2>1, EntryFrame DEF JournalInv, SameAsk, FreezePending
  <2>2. CASE j = Cur
    BY <1>1, <1>2, <1>4, <2>2 DEF JournalInv, JournalEntry, SameAsk, FreezePending
  <2> QED
    BY <2>1, <2>2
<1>6. TypeAttempts'
  BY AttemptsExcept DEF FreezePending
<1>7. TypeHand' /\ HandInv'
  BY CalmType DEF FreezePending, Calm
<1> QED
  BY <1>1, <1>2, <1>3, <1>5, <1>6, <1>7, CommitType, Frame DEF FreezePending

LEMMA RecordIntentInv ==
    ASSUME Inv, RecordIntent
    PROVE  Inv'
<1> USE DEF Inv, TypeOK
<1>1. /\ pc = "decided" /\ hand.verdict = "ALLOW" /\ actions[Cur].row = "NONE"
      /\ Cur \in DOMAIN turns /\ Cur \in TurnIds
      /\ turns' = MarkerSettled(Cur) /\ Commit
      /\ turns[Cur].act # "risky" /\ effects[Cur] = 0
  BY CurType DEF RecordIntent, Recording, Recordable, HandInv, JournalInv, JournalEntry
<1>2. TypeTurns' /\ SameAsk
  BY <1>1, MarkerType
<1>3. TypeActions' /\ JournalInv'
  BY <1>1, <1>2, RowWritten DEF RecordIntent
<1>4. actions'[Cur].row = "RECORDED"
  BY <1>1, ActionType DEF TypeActions, Actions, RecordIntent
<1>5. pc' = "execute" /\ hand' = hand /\ effects' = effects
  BY DEF RecordIntent, Goto
<1>6. TypeHand'
  BY <1>5 DEF TypeHand, PCs
<1>7. HandInv'
  BY <1>1, <1>2, <1>4, <1>5 DEF HandInv, TurnPCs, Cur, GrantedPCs, SameAsk
<1> QED
  BY <1>1, <1>2, <1>3, <1>6, <1>7, CommitType, Frame DEF RecordIntent

LEMMA ExecuteInv ==
    ASSUME Inv, Execute
    PROVE  Inv'
<1> USE DEF Inv, TypeOK
<1>1. /\ pc = "execute" /\ Cur \in DOMAIN turns /\ Cur \in TurnIds
      /\ turns[Cur].act # "risky" /\ actions[Cur].row = "RECORDED"
      /\ effects[Cur] = 0
  BY CurType DEF Execute, HandInv
<1>2. PICK result \in {"SETTLED", "UNCERTAIN"} :
          Goto("settle", [hand EXCEPT !.verdict = result])
  BY DEF Execute
<1>3. /\ TypeActions'
      /\ \A j \in TurnIds \ {Cur} : effects'[j] = effects[j]
      /\ effects'[Cur] \in {0, 1}
  BY <1>1 DEF Execute, TypeActions
<1>4. JournalInv'
  <2> SUFFICES ASSUME NEW j \in TurnIds PROVE JournalEntry(j)'
    BY DEF JournalInv, TurnIds
  <2>1. CASE j # Cur
    BY <1>3, <2>1, EntryFrame DEF JournalInv, Execute
  <2>2. CASE j = Cur
    BY <1>1, <1>3, <2>2 DEF JournalInv, JournalEntry, Execute
  <2> QED
    BY <2>1, <2>2
<1>5. TypeHand' /\ hand'.turn = hand.turn /\ hand'.verdict = result /\ pc' = "settle"
  BY <1>2 DEF TypeHand, Goto, PCs, Hands
<1>6. HandInv'
  BY <1>1, <1>5 DEF HandInv, TurnPCs, Cur, GrantedPCs, Execute
<1> QED
  BY <1>3, <1>4, <1>5, <1>6, Frame DEF Execute

LEMMA SettleToolInv ==
    ASSUME Inv, SettleTool
    PROVE  Inv'
<1> USE DEF Inv, TypeOK
<1>1. Cur \in DOMAIN turns /\ hand.verdict \in {"SETTLED", "UNCERTAIN"} /\ Commit
  BY CurType DEF SettleTool, HandInv
<1>2. TypeActions' /\ JournalInv'
  BY <1>1, RowWritten, SameTurns DEF SettleTool
<1>3. TypeHand' /\ HandInv'
  BY CalmType DEF SettleTool, Calm
<1> QED
  BY <1>1, <1>2, <1>3, CommitType, Frame DEF SettleTool

LEMMA ConsumeInv ==
    ASSUME Inv, Consume
    PROVE  Inv'
BY ConsumeReadInv, AuthorizeInv, MarkedInv, FinishInv, FreezeInv, RecordIntentInv,
   ExecuteInv, SettleToolInv DEF Consume

-----------------------------------------------------------------------------
(* The runtime: a granted action *)

LEMMA GrantedCur ==
    ASSUME Inv, pc \in GrantedPCs
    PROVE  /\ Cur \in DOMAIN turns /\ Cur \in TurnIds /\ actions[Cur] \in Actions
           /\ actions[Cur].pending = "GRANT_CONSUMED" /\ actions[Cur].row # "NONE"
           /\ actions[Cur].intent \in {"INTENT_RECORDED", "DISPATCHED"}
           /\ turns[Cur].act = "risky"
BY CurType DEF Inv, HandInv, JournalInv, JournalEntry

\* The rows of the action in hand are written.
LEMMA GrantedWritten ==
    ASSUME Inv, pc \in GrantedPCs, NEW a \in Actions, a.row # "NONE",
           \/ /\ a.pending = "GRANT_CONSUMED"
              /\ a.intent \in {"DISPATCHED", "INDETERMINATE"}
           \/ a.pending = "SETTLED" /\ a.intent = "SETTLED" /\ file[Cur] # "pre",
           actions' = [actions EXCEPT ![Cur] = a],
           UNCHANGED <<turns, grants, file, effects>>
    PROVE  TypeActions' /\ JournalInv' /\ actions'[Cur] = a
<1> USE DEF Inv, TypeOK
<1>1. TypeActions' /\ actions'[Cur] = a
      /\ \A j \in TurnIds \ {Cur} : actions'[j] = actions[j]
  BY GrantedCur DEF TypeActions
<1>2. JournalInv'
  <2> SUFFICES ASSUME NEW j \in TurnIds PROVE JournalEntry(j)'
    BY DEF JournalInv, TurnIds
  <2>1. CASE j # Cur
    BY <1>1, <2>1, EntryFrame DEF JournalInv
  <2>2. CASE j = Cur
    BY <1>1, <2>2, GrantedCur DEF JournalInv, JournalEntry
  <2> QED
    BY <2>1, <2>2
<1> QED
  BY <1>1, <1>2

\* The runtime goes on with the same action.
LEMMA GrantedGoes ==
    ASSUME Inv, pc \in GrantedPCs, NEW p \in GrantedPCs, Goto(p, hand),
           UNCHANGED turns, actions'[Cur].pending = "GRANT_CONSUMED",
           actions'[Cur].intent \in {"INTENT_RECORDED", "DISPATCHED"},
           p = "perform" => actions'[Cur].intent = "DISPATCHED",
           p = "settleGranted" => file'[Cur] # "pre"
    PROVE  TypeHand' /\ HandInv'
<1>1. TypeHand'
  BY DEF Inv, TypeOK, TypeHand, Goto, PCs, GrantedPCs
<1>2. HandInv'
  BY GrantedCur DEF HandInv, TurnPCs, Goto, Cur, GrantedPCs
<1> QED
  BY <1>1, <1>2

LEMMA DispatchInv ==
    ASSUME Inv, DispatchGranted
    PROVE  Inv'
<1> USE DEF Inv, TypeOK
<1>1. pc \in GrantedPCs /\ Goto("perform", hand)
  BY DEF DispatchGranted, GrantedPCs
<1>2. TypeCommands'
  BY DEF TypeCommands, DispatchGranted, commandVars
<1>3. CASE actions[Cur].intent = "INTENT_RECORDED"
  <2> DEFINE a == [actions[Cur] EXCEPT !.intent = "DISPATCHED"]
  <2>1. /\ a \in Actions /\ a.row # "NONE"
        /\ a.pending = "GRANT_CONSUMED" /\ a.intent = "DISPATCHED"
    BY <1>1, GrantedCur DEF Actions
  <2>2. actions' = [actions EXCEPT ![Cur] = a]
    BY <1>3 DEF DispatchGranted
  <2> HIDE DEF a
  <2>3. TypeActions' /\ JournalInv' /\ actions'[Cur] = a
    BY <1>1, <2>1, <2>2, GrantedWritten DEF DispatchGranted
  <2>4. TypeHand' /\ HandInv'
    BY <1>1, <2>1, <2>3, GrantedGoes DEF DispatchGranted, GrantedPCs
  <2> QED
    BY <1>2, <2>3, <2>4, Frame DEF DispatchGranted
<1>4. CASE actions[Cur].intent # "INTENT_RECORDED"
  <2>1. UNCHANGED actions
    BY <1>4 DEF DispatchGranted
  <2>2. TypeHand' /\ HandInv'
    BY <1>1, <1>4, <2>1, GrantedCur, GrantedGoes DEF DispatchGranted, GrantedPCs
  <2> QED
    BY <1>2, <2>1, <2>2, Frame, QuietJournal DEF DispatchGranted
<1> QED
  BY <1>3, <1>4

LEMMA PerformInv ==
    ASSUME Inv, Perform
    PROVE  Inv'
<1> USE DEF Inv, TypeOK
<1>1. /\ pc = "perform" /\ pc \in GrantedPCs /\ file[Cur] = "pre"
      /\ UNCHANGED <<turns, actions, grants>>
  BY DEF Perform, GrantedPCs
<1>2. PICK p \in {"settleGranted", "uncertain"} :
          Goto(p, hand) /\ (p = "settleGranted" => file' = [file EXCEPT ![Cur] = "post"])
  BY DEF Perform, AfterMutatorError
<1>3. TypeHand' /\ HandInv'
  <2>1. p = "settleGranted" => file'[Cur] # "pre"
    BY <1>1, <1>2, GrantedCur DEF TypeActions
  <2> QED
    BY <1>1, <1>2, <2>1, GrantedCur, GrantedGoes DEF GrantedPCs
<1>4. CASE UNCHANGED <<file, effects>>
  BY <1>1, <1>3, <1>4, Frame, QuietJournal DEF Perform
<1>5. CASE file' = [file EXCEPT ![Cur] = "post"] /\ effects' = [effects EXCEPT ![Cur] = @ + 1]
  <2>1. effects[Cur] = 0 /\ actions[Cur].intent = "DISPATCHED"
    BY <1>1, GrantedCur DEF HandInv, JournalInv, JournalEntry
  <2>2. /\ TypeActions' /\ effects'[Cur] = 1 /\ file'[Cur] = "post"
        /\ \A j \in TurnIds \ {Cur} : effects'[j] = effects[j] /\ file'[j] = file[j]
    BY <1>1, <1>5, <2>1, GrantedCur DEF TypeActions
  <2>3. JournalInv'
    <3> SUFFICES ASSUME NEW j \in TurnIds PROVE JournalEntry(j)'
      BY DEF JournalInv, TurnIds
    <3>1. CASE j # Cur
      BY <1>1, <2>2, <3>1, EntryFrame DEF JournalInv
    <3>2. CASE j = Cur
      BY <1>1, <2>1, <2>2, <3>2, GrantedCur DEF JournalInv, JournalEntry
    <3> QED
      BY <3>1, <3>2
  <2> QED
    BY <1>1, <1>3, <2>2, <2>3, Frame DEF Perform
<1> QED
  BY <1>4, <1>5 DEF Perform

\* settle_granted_action commits, or raises without having written anything.
SettleRaises == SettleGranted /\ AttemptOf(Cur).state # "RUNNING"

LEMMA RaisingReads ==
    ASSUME SettleRaises
    PROVE  /\ pc = "settleGranted" /\ Goto("fault", NoHand) /\ ReadStep
           /\ UNCHANGED <<turns, actions, grants, file, effects, attempts>>
BY DEF SettleRaises, SettleGranted, ReadStep, attemptVars

LEMMA SettleGrantedInv ==
    ASSUME Inv, SettleGranted, ~SettleRaises
    PROVE  Inv'
<1> USE DEF Inv, TypeOK, SettleRaises
<1> DEFINE a == [actions[Cur] EXCEPT !.row = "SETTLED", !.pending = "SETTLED",
                                     !.intent = "SETTLED"]
<1>1. pc \in GrantedPCs
  BY DEF SettleGranted, GrantedPCs
<1>2. /\ a \in Actions /\ a.row # "NONE"
      /\ a.pending = "SETTLED" /\ a.intent = "SETTLED" /\ file[Cur] # "pre"
  BY <1>1, GrantedCur DEF Actions, HandInv, SettleGranted
<1>3. actions' = [actions EXCEPT ![Cur] = a]
  BY DEF SettleGranted
<1> HIDE DEF a
<1>4. TypeActions' /\ JournalInv'
  BY <1>1, <1>2, <1>3, GrantedWritten DEF SettleGranted
<1>5. TypeHand' /\ HandInv'
  BY CalmType DEF SettleGranted, Calm
<1> QED
  BY <1>4, <1>5, CommitType, Frame DEF SettleGranted

LEMMA MarkIndeterminateInv ==
    ASSUME Inv, MarkIndeterminate
    PROVE  Inv'
<1> USE DEF Inv, TypeOK
<1> DEFINE a == [actions[Cur] EXCEPT !.intent = "INDETERMINATE"]
<1>1. pc \in GrantedPCs
  BY DEF MarkIndeterminate, GrantedPCs
<1>2. /\ a \in Actions /\ a.row # "NONE"
      /\ a.pending = "GRANT_CONSUMED" /\ a.intent = "INDETERMINATE"
  BY <1>1, GrantedCur DEF Actions
<1>3. actions' = [actions EXCEPT ![Cur] = a]
  BY DEF MarkIndeterminate
<1> HIDE DEF a
<1>4. TypeActions' /\ JournalInv'
  BY <1>1, <1>2, <1>3, GrantedWritten DEF MarkIndeterminate
<1>5. TypeHand' /\ HandInv'
  BY CalmType DEF MarkIndeterminate, Calm
<1>6. TypeRun'
  BY CommitType DEF TypeRun, MarkIndeterminate, deliveryVars, barrierVars
<1> QED
  BY <1>4, <1>5, <1>6, CommitType, Frame DEF MarkIndeterminate

LEMMA GrantedInv ==
    ASSUME Inv, GrantedAction
    PROVE  Inv'
<1>1. CASE GrantedMismatch \/ SettleRaises
  BY <1>1, CalmReadInv, RaisingReads DEF GrantedMismatch, Calm
<1>2. CASE ObserveGranted \/ PrestateMismatch
  <2>1. pc \in GrantedPCs /\ ReadStep
    BY <1>2 DEF ObserveGranted, PrestateMismatch, GrantedPCs
  <2>2. PICK p \in {"settleGranted", "dispatch", "uncertain"} :
            Goto(p, hand) /\ (p = "settleGranted" => file[Cur] # "pre")
    <3>1. file[Cur] \in {"pre", "post", "other"}
      BY <2>1, GrantedCur DEF Inv, TypeOK, TypeActions
    <3> QED
      BY <1>2, <3>1 DEF ObserveGranted, PrestateMismatch, Observed
  <2>3. TypeHand' /\ HandInv'
    BY <2>1, <2>2, GrantedCur, GrantedGoes DEF ReadStep, GrantedPCs
  <2> QED
    BY <2>1, <2>3, Frame, QuietJournal DEF Inv, TypeOK, ReadStep
<1> QED
  BY <1>1, <1>2, DispatchInv, PerformInv, SettleGrantedInv, MarkIndeterminateInv
  DEF GrantedAction

-----------------------------------------------------------------------------
(* The inductive invariant *)

LEMMA InitInv == Init => Inv
<1> SUFFICES ASSUME Init PROVE Inv
  OBVIOUS
<1>1. TypeRun /\ TypeAttempts
  <2>1. TypeRun
    BY DEF Init, TypeRun, Permits
  <2> QED
    BY <2>1, WorkerAssumption DEF Init, TypeAttempts, Attempts
<1>2. TypeTurns /\ DOMAIN turns = {}
  BY WorkerAssumption DEF Init, TypeTurns
<1>3. TypeActions /\ TypeCommands
  BY WorkerAssumption DEF Init, TypeActions, Actions, TypeCommands
<1>4. TypeHand /\ HandInv
  BY DEF Init, TypeHand, PCs, Hands, NoHand, HandInv, GrantedPCs, TurnPCs
<1>5. JournalInv
  <2> SUFFICES ASSUME NEW i \in TurnIds PROVE JournalEntry(i)
    BY DEF JournalInv
  <2> QED
    BY DEF Init, JournalEntry
<1> QED
  BY <1>1, <1>2, <1>3, <1>4, <1>5 DEF Inv, TypeOK

LEMMA NextInv == Inv /\ [Next]_vars => Inv'
<1> SUFFICES ASSUME Inv, [Next]_vars PROVE Inv'
  OBVIOUS
<1>1. CASE Command
  BY <1>1, DecideInv, CommitGrantInv DEF Command
<1>2. CASE Environment
  BY <1>2, EnvironmentInv
<1>3. CASE RuntimeStep
  BY <1>3, DeliveryInv, EntryInv, LoopInv, TurnInv, ConsumeInv, GrantedInv
     DEF RuntimeStep
<1>4. CASE UNCHANGED vars
  BY <1>4, Frame, QuietJournal, HandFrame DEF Inv, TypeOK, vars
<1> QED
  BY <1>1, <1>2, <1>3, <1>4 DEF Next

THEOREM Invariant == Spec => []Inv
BY InitInv, NextInv, PTL DEF Spec

-----------------------------------------------------------------------------
(* The theorems *)

\* TypeOK: every variable holds values its readers know, whichever of the
\* transactions, faults and crashes interleave.
THEOREM TypeCorrect == Spec => []TypeOK
<1>1. Inv => TypeOK
  BY DEF Inv
<1> QED
  BY <1>1, Invariant, PTL

\* OneEffectPerTurn: for any number of turns, commands, crashes, faults and
\* redelivered grants a turn's action happens at most once
\* (record_authorized_worker_action, GrantedActionRuntime.execute).
THEOREM OneEffect == Spec => []OneEffectPerTurn
<1>1. Inv => OneEffectPerTurn
  <2> SUFFICES ASSUME Inv, NEW i \in TurnIds PROVE effects[i] <= 1
    BY DEF OneEffectPerTurn
  <2>1. effects[i] \in Nat /\ (effects[i] # 0 => effects[i] = 1)
    BY ActionType DEF Inv, TypeOK, JournalInv, JournalEntry
  <2> QED
    BY <2>1
<1> QED
  BY <1>1, Invariant, PTL

\* EffectsAreJournaled: an effect has its durable intent, the row of a direct
\* action or the dispatch of a granted one (record_authorized_worker_action,
\* mark_granted_action_dispatched).
THEOREM Journaled == Spec => []EffectsAreJournaled
<1>1. Inv => EffectsAreJournaled
  <2> SUFFICES ASSUME Inv, NEW i \in TurnIds, effects[i] > 0
               PROVE  \/ actions[i].pending = "NONE" /\ actions[i].row # "NONE"
                      \/ actions[i].intent \notin {"NONE", "INTENT_RECORDED"}
    BY DEF EffectsAreJournaled
  <2>1. effects[i] # 0 /\ JournalEntry(i)
    BY ActionType DEF Inv, TypeOK, JournalInv
  <2> QED
    BY <2>1 DEF JournalEntry
<1> QED
  BY <1>1, Invariant, PTL

-----------------------------------------------------------------------------
(* The approval of a risky action, as ApprovedActions states it *)

StutterStep == UNCHANGED Approved!vars

\* The approval of action i stands where it stood.
SamePhase(i) == actions'[i].pending = actions[i].pending
                /\ actions'[i].intent = actions[i].intent

LEMMA Stutter ==
    ASSUME \A i \in TurnIds : Phase(i)' = Phase(i) /\ Done(i)' = Done(i)
    PROVE  StutterStep
<1>1. [i \in TurnIds |-> Phase(i)]' = [i \in TurnIds |-> Phase(i)]
  BY DEF TurnIds
<1>2. [i \in TurnIds |-> Done(i)]' = [i \in TurnIds |-> Done(i)]
  BY DEF TurnIds
<1> QED
  BY <1>1, <1>2 DEF StutterStep, Approved!vars

LEMMA DoneFrame ==
    ASSUME SameAsk, NEW i \in TurnIds, effects'[i] = effects[i]
    PROVE  Done(i)' = Done(i)
BY DEF Done, IsRisky, SameAsk

LEMMA QuietStutters ==
    ASSUME SameAsk, UNCHANGED <<actions, effects>>
    PROVE  StutterStep
<1>1. \A i \in TurnIds : Phase(i)' = Phase(i)
  BY DEF Phase
<1> QED
  BY <1>1, DoneFrame, Stutter

LEMMA UnmovedStutters ==
    ASSUME SameAsk, UNCHANGED effects, \A i \in TurnIds : SamePhase(i)
    PROVE  StutterStep
<1>1. \A i \in TurnIds : Phase(i)' = Phase(i)
  BY DEF Phase, SamePhase
<1> QED
  BY <1>1, DoneFrame, Stutter

LEMMA Moves ==
    ASSUME TypeActions, NEW i \in TurnIds, NEW a, SameAsk, UNCHANGED effects,
           actions' = [actions EXCEPT ![i] = a],
           NEW p, NEW q, Phase(i) = p, Phase(i)' = q
    PROVE  Approved!Move(i, p, q)
<1>1. \A j \in TurnIds \ {i} : Phase(j)' = Phase(j)
  BY DEF TypeActions, Phase
<1>2. [j \in TurnIds |-> Phase(j)]' = [[j \in TurnIds |-> Phase(j)] EXCEPT ![i] = q]
  BY <1>1 DEF TurnIds
<1>3. [j \in TurnIds |-> Done(j)]' = [j \in TurnIds |-> Done(j)]
  BY DoneFrame DEF TurnIds
<1> QED
  BY <1>2, <1>3 DEF Approved!Move

\* The row of one action is written, and nothing about its approval.
LEMMA RowStutters ==
    ASSUME TypeActions, NEW i, NEW r, actions' = [actions EXCEPT ![i].row = r],
           SameAsk, UNCHANGED effects
    PROVE  StutterStep
<1>1. \A j \in TurnIds : SamePhase(j)
  BY ActionType DEF TypeActions, Actions, SamePhase
<1> QED
  BY <1>1, UnmovedStutters

LEMMA PendingExpiresStutters ==
    ASSUME TypeActions, NEW i, PendingExpires(i)
    PROVE  StutterStep
<1>1. \A j \in TurnIds : SamePhase(j)
  BY ActionType DEF TypeActions, Actions, SamePhase, PendingExpires
<1> QED
  BY <1>1, UnmovedStutters, SameTurns DEF PendingExpires

LEMMA AnswerStutters ==
    ASSUME Inv, NEW act \in Acts, ProviderAnswers(act)
    PROVE  StutterStep
<1> USE DEF Inv, TypeOK
<1> DEFINE turn == [task |-> hand.task, act |-> act,
                    state |-> "COMPLETION_COMMITTED", marker |-> "NONE"]
<1>1. turns' = Append(turns, turn) /\ UNCHANGED <<actions, effects>>
  BY DEF ProviderAnswers
<1> HIDE DEF turn
<1>2. /\ DOMAIN turns = 1 .. Len(turns) /\ DOMAIN turns' = 1 .. Len(turns) + 1
      /\ \A i \in DOMAIN turns : turns'[i] = turns[i]
  BY <1>1, TurnsType DEF TypeTurns
<1>3. \A i \in TurnIds : Phase(i)' = Phase(i)
  BY <1>1 DEF Phase
<1>4. ASSUME NEW i \in TurnIds PROVE Done(i)' = Done(i)
  <2>1. CASE i \in DOMAIN turns
    BY <1>1, <1>2, <2>1, TurnsType DEF Done, IsRisky
  <2>2. CASE i \notin DOMAIN turns
    <3>1. effects[i] = 0
      BY <2>2 DEF JournalInv, JournalEntry
    <3> QED
      BY <1>1, <2>2, <3>1 DEF Done, IsRisky
  <2> QED
    BY <2>1, <2>2
<1> QED
  BY <1>3, <1>4, Stutter

LEMMA ExecuteStutters ==
    ASSUME Inv, Execute
    PROVE  StutterStep
<1>1. /\ Cur \in TurnIds /\ turns[Cur].act # "risky"
      /\ effects' \in {effects, [effects EXCEPT ![Cur] = @ + 1]}
      /\ UNCHANGED <<turns, actions>>
  BY CurType DEF Execute, Inv, HandInv
<1>2. \A i \in TurnIds : Phase(i)' = Phase(i)
  BY <1>1 DEF Phase
<1>3. \A i \in TurnIds \ {Cur} : effects'[i] = effects[i]
  BY <1>1 DEF Inv, TypeOK, TypeActions
<1>4. \A i \in TurnIds : Done(i)' = Done(i)
  BY <1>1, <1>3 DEF Done, IsRisky
<1> QED
  BY <1>2, <1>4, Stutter

LEMMA DecisionMoves ==
    ASSUME Inv, NEW i, Lapses(i) \/ Approves(i), UNCHANGED <<turns, effects>>
    PROVE  Approved!Next
<1> USE DEF Inv, TypeOK
<1>1. i \in TurnIds /\ Phase(i) = "waiting" /\ actions[i] \in Actions
      /\ actions[i].intent = "NONE"
  BY ActionType DEF Lapses, Approves, Waiting, Phase, JournalInv, JournalEntry
<1>2. CASE Lapses(i)
  <2> DEFINE a == [actions[i] EXCEPT !.pending = "INVALIDATED"]
  <2>1. actions' = [actions EXCEPT ![i] = a] /\ Phase(i)' = "dead"
    BY <1>1, <1>2 DEF Lapses, Phase, TypeActions, Actions
  <2> HIDE DEF a
  <2>2. Approved!Lapse(i)
    BY <1>1, <2>1, Moves, SameTurns DEF Approved!Lapse
  <2> QED
    BY <1>1, <2>2 DEF Approved!Next
<1>3. CASE Approves(i)
  <2> DEFINE a == [actions[i] EXCEPT !.pending = "GRANT_CONSUMED",
                                     !.intent = "INTENT_RECORDED"]
  <2>1. actions' = [actions EXCEPT ![i] = a] /\ Phase(i)' = "approved"
    BY <1>1, <1>3 DEF Approves, Granted, Phase, TypeActions, Actions
  <2> HIDE DEF a
  <2>2. Approved!Approve(i)
    BY <1>1, <2>1, Moves, SameTurns DEF Approved!Approve
  <2> QED
    BY <1>1, <2>2 DEF Approved!Next
<1> QED
  BY <1>2, <1>3

LEMMA FreezeMoves ==
    ASSUME Inv, FreezePending
    PROVE  Approved!Next
<1> USE DEF Inv, TypeOK
<1>1. Cur \in DOMAIN turns /\ Cur \in TurnIds
  BY CurType DEF FreezePending, Recording
<1>2. PICK i \in TurnIds : i = Cur
  BY <1>1
<1> DEFINE a == [actions[i] EXCEPT !.row = "FROZEN", !.pending = "WAITING_APPROVAL"]
<1>3. /\ turns' = MarkerSettled(i) /\ UNCHANGED effects
      /\ actions[i].row = "NONE" /\ actions' = [actions EXCEPT ![i] = a]
  BY <1>2 DEF FreezePending, Recording, Recordable
<1>4. SameAsk
  BY <1>1, <1>2, <1>3, MarkerType
<1>5. Phase(i) = "none"
  BY <1>3 DEF JournalInv, JournalEntry, Phase
<1>6. Phase(i)' = "waiting"
  BY <1>3, ActionType DEF Phase, TypeActions, Actions
<1> HIDE DEF a
<1>7. Approved!Propose(i)
  BY <1>3, <1>4, <1>5, <1>6, Moves DEF Approved!Propose
<1> QED
  BY <1>7 DEF Approved!Next

LEMMA GrantedMoves ==
    ASSUME Inv, SettleGranted \/ MarkIndeterminate, ~SettleRaises
    PROVE  Approved!Next
<1> USE DEF Inv, TypeOK, SettleRaises
<1>1. pc \in GrantedPCs
  BY DEF SettleGranted, MarkIndeterminate, GrantedPCs
<1>2. PICK i \in TurnIds : i = Cur
  BY <1>1, GrantedCur
<1>3. /\ actions[i] \in Actions /\ Phase(i) = "approved"
      /\ UNCHANGED <<turns, effects>>
  BY <1>1, <1>2, GrantedCur DEF Phase, SettleGranted, MarkIndeterminate
<1>4. CASE SettleGranted
  <2> DEFINE a == [actions[i] EXCEPT !.row = "SETTLED", !.pending = "SETTLED",
                                     !.intent = "SETTLED"]
  <2>1. actions' = [actions EXCEPT ![i] = a] /\ Phase(i)' = "settled"
    BY <1>2, <1>3, <1>4 DEF SettleGranted, Phase, TypeActions, Actions
  <2> HIDE DEF a
  <2>2. Approved!Settle(i)
    BY <1>3, <2>1, Moves, SameTurns DEF Approved!Settle
  <2> QED
    BY <2>2 DEF Approved!Next
<1>5. CASE MarkIndeterminate
  <2> DEFINE a == [actions[i] EXCEPT !.intent = "INDETERMINATE"]
  <2>1. actions' = [actions EXCEPT ![i] = a]
    BY <1>2, <1>5 DEF MarkIndeterminate
  <2>2. a.pending = "GRANT_CONSUMED" /\ a.intent = "INDETERMINATE"
    BY <1>1, <1>2, <1>3, GrantedCur DEF Actions
  <2> HIDE DEF a
  <2>3. Phase(i)' = "uncertain"
    BY <2>1, <2>2 DEF Phase, TypeActions
  <2>4. Approved!GiveUp(i)
    BY <1>3, <2>1, <2>3, Moves, SameTurns DEF Approved!GiveUp
  <2> QED
    BY <2>4 DEF Approved!Next
<1> QED
  BY <1>4, <1>5

LEMMA DispatchStutters ==
    ASSUME Inv, DispatchGranted
    PROVE  StutterStep
<1> USE DEF Inv, TypeOK
<1>1. pc \in GrantedPCs
  BY DEF DispatchGranted, GrantedPCs
<1>2. PICK i \in TurnIds : i = Cur
  BY <1>1, GrantedCur
<1>3. /\ actions[i] \in Actions /\ actions[i].pending = "GRANT_CONSUMED"
      /\ actions[i].intent \in {"INTENT_RECORDED", "DISPATCHED"}
      /\ UNCHANGED <<turns, effects>>
      /\ actions' \in {actions, [actions EXCEPT ![i].intent = "DISPATCHED"]}
  BY <1>1, <1>2, GrantedCur DEF DispatchGranted
<1>4. \A j \in TurnIds \ {i} : Phase(j)' = Phase(j)
  BY <1>3 DEF Phase, TypeActions
<1>5. /\ actions'[i].pending = "GRANT_CONSUMED"
      /\ actions'[i].intent \in {"INTENT_RECORDED", "DISPATCHED"}
  BY <1>3 DEF TypeActions, Actions
<1>6. Phase(i)' = Phase(i)
  BY <1>3, <1>5 DEF Phase
<1>7. \A j \in TurnIds : Done(j)' = Done(j)
  BY <1>3, DoneFrame, SameTurns
<1> QED
  BY <1>4, <1>6, <1>7, Stutter

LEMMA PerformMoves ==
    ASSUME Inv, Perform
    PROVE  StutterStep \/ Approved!Next
<1> USE DEF Inv, TypeOK
<1>1. pc \in GrantedPCs /\ pc = "perform"
  BY DEF Perform, GrantedPCs
<1>2. PICK i \in TurnIds : i = Cur
  BY <1>1, GrantedCur
<1>3. /\ Phase(i) = "approved" /\ IsRisky(i) /\ file[i] = "pre"
      /\ UNCHANGED <<turns, actions>>
      /\ effects' \in {effects, [effects EXCEPT ![i] = @ + 1]}
  BY <1>1, <1>2, GrantedCur DEF Perform, Phase, IsRisky, HandInv
<1>4. CASE UNCHANGED effects
  BY <1>3, <1>4, QuietStutters, SameTurns
<1>5. CASE effects' = [effects EXCEPT ![i] = @ + 1]
  <2>1. effects[i] = 0
    BY <1>3 DEF JournalInv, JournalEntry, IsRisky
  <2>2. effects' = [effects EXCEPT ![i] = 1]
    BY <1>5, <2>1
  <2>3. \A j \in TurnIds : IsRisky(j)' = IsRisky(j) /\ Phase(j)' = Phase(j)
    BY <1>3 DEF IsRisky, Phase
  <2>4. [j \in TurnIds |-> Done(j)]' = [[j \in TurnIds |-> Done(j)] EXCEPT ![i] = 1]
    BY <1>3, <2>2, <2>3 DEF Done, TypeActions, TurnIds
  <2>5. [j \in TurnIds |-> Phase(j)]' = [j \in TurnIds |-> Phase(j)]
    BY <2>3 DEF TurnIds
  <2>6. Approved!Perform(i)
    BY <1>3, <2>1, <2>4, <2>5 DEF Approved!Perform, Done
  <2> QED
    BY <2>6 DEF Approved!Next
<1> QED
  BY <1>3, <1>4, <1>5

LEMMA CommandStep ==
    ASSUME Inv, Command
    PROVE  StutterStep \/ Approved!Next
<1> USE DEF Inv, TypeOK
<1>1. PICK t \in Threads :
        \/ \E i \in TurnIds, exact \in BOOLEAN : Decide(t, i, exact)
        \/ \E u \in Threads : Redeliver(t, u)
        \/ CommitLost(t) \/ CommitDenied(t) \/ CommitExpired(t)
        \/ CommitStale(t) \/ CommitGrant(t) \/ CommitRaises(t)
  BY DEF Command
<1>2. CASE \/ \E i \in TurnIds, exact \in BOOLEAN : Decide(t, i, exact)
           \/ \E u \in Threads : Redeliver(t, u)
  BY <1>2, QuietStutters, SameTurns DEF Decide, Redeliver, Handle
<1>3. CASE CommitLost(t) \/ CommitDenied(t) \/ CommitRaises(t)
  BY <1>3, QuietStutters, SameTurns
  DEF CommitLost, CommitDenied, CommitRaises, RolledBack, Receipt
<1>4. CASE CommitExpired(t) \/ CommitStale(t) \/ CommitGrant(t)
  <2>1. handler[t].turn \in TurnIds
    BY <1>4, HandlerType DEF CommitExpired, CommitStale, CommitGrant
  <2>2. PICK i \in TurnIds : i = handler[t].turn
    BY <2>1
  <2>3. Lapses(i) \/ Approves(i)
    BY <1>4, <2>2
    DEF CommitExpired, CommitStale, CommitGrant, Invalidated, Lapses, Approves
  <2>4. UNCHANGED <<turns, effects>>
    BY <1>4 DEF CommitExpired, CommitStale, CommitGrant, Receipt
  <2> QED
    BY <2>3, <2>4, DecisionMoves
<1> QED
  BY <1>1, <1>2, <1>3, <1>4

LEMMA EnvironmentStep ==
    ASSUME Inv, Environment
    PROVE  StutterStep
<1>1. CASE \E i \in TurnIds : PendingExpires(i)
  BY <1>1, PendingExpiresStutters DEF Inv, TypeOK
<1>2. CASE \/ Replace \/ Continue \/ Fault \/ Crash
           \/ \E k \in Tasks : LeaseExpires(k)
           \/ \E i \in TurnIds : Edit(i)
  BY <1>2, QuietStutters, SameTurns
  DEF Replace, Continue, Fault, Crash, LeaseExpires, Edit
<1> QED
  BY <1>1, <1>2 DEF Environment

LEMMA EntryStep ==
    ASSUME Inv, Entry
    PROVE  StutterStep
<1> USE DEF Inv, TypeOK
<1>1. CASE EnterRecover
  <2>1. RecoverableTurns \subseteq Nat /\ RecoverableTurns # {}
    BY <1>1, TurnsType DEF EnterRecover, RecoverableTurns
  <2>2. PICK i \in RecoverableTurns : i = First(RecoverableTurns)
    BY <2>1, FirstType
  <2>3. i \in DOMAIN turns /\ UNCHANGED <<actions, effects>>
        /\ turns' = [turns EXCEPT ![i].state = "DOWNSTREAM_INTENT_RECORDED",
                                  ![i].marker = "UNSETTLED"]
    BY <1>1, <2>2 DEF EnterRecover, RecoverableTurns
  <2> DEFINE turn == [turns[i] EXCEPT !.state = "DOWNSTREAM_INTENT_RECORDED",
                                      !.marker = "UNSETTLED"]
  <2>4. turn \in Turns /\ turn.act = turns[i].act /\ turn.task = turns[i].task
    BY <2>3, TurnsType DEF Turns
  <2>5. turns' = [turns EXCEPT ![i] = turn]
    BY <2>3
  <2> HIDE DEF turn
  <2>6. SameAsk
    BY <2>3, <2>4, <2>5, TurnWritten
  <2> QED
    BY <2>3, <2>6, QuietStutters
<1>2. CASE EnterResume \/ EnterGranted \/ EnterUnsettled \/ EnterBlocked \/ EnterDrive
  BY <1>2, QuietStutters, SameTurns
  DEF EnterResume, EnterGranted, EnterUnsettled, EnterBlocked, EnterDrive, ReadStep
<1> QED
  BY <1>1, <1>2 DEF Entry

LEMMA LoopStep ==
    ASSUME Loop \/ Delivery
    PROVE  StutterStep
<1>1. UNCHANGED <<turns, actions, effects>>
  BY DEF Loop, TimeExhausted, Leave, LoopClosed, LoopExisting, LoopNothing,
         LoopCreate, LoopConflict, ReadStep,
         Delivery, ConsumePermit, InvalidatePermit, RecordFault, Stop, DeliveryLost
<1> QED
  BY <1>1, QuietStutters, SameTurns

LEMMA TurnStep ==
    ASSUME Inv, Turn
    PROVE  StutterStep
<1>1. CASE \/ BeginBarrier \/ BarrierRaises \/ TurnRefused \/ TurnPaused \/ TurnReserved
           \/ ProviderFails \/ ProviderRaises \/ SettleBarrier \/ SettlementRaises
  BY <1>1, QuietStutters, SameTurns
  DEF BeginBarrier, BarrierRaises, SettleBarrier, SettlementRaises,
         TurnRefused, TurnPaused, TurnReserved, ProviderFails, ProviderRaises, ReadStep
<1> QED
  BY <1>1, AnswerStutters DEF Turn

LEMMA ConsumeStep ==
    ASSUME Inv, Consume
    PROVE  StutterStep \/ Approved!Next
<1> USE DEF Inv, TypeOK
<1>1. CASE \/ ConsumeGone \/ MalformedRaises \/ DenialRaises \/ DecisionRaises
           \/ Authorize \/ RecordDenial
  BY <1>1, QuietStutters, SameTurns
  DEF ConsumeGone, MalformedRaises, DenialRaises, DecisionRaises, Authorize,
      RecordDenial, ReadStep
<1>2. CASE RecordMalformed \/ SettleDenial
  <2>1. Cur \in DOMAIN turns /\ turns' = MarkerSettled(Cur)
    BY <1>2, CurType DEF RecordMalformed, SettleDenial, Consuming
  <2> QED
    BY <1>2, <2>1, MarkerType, QuietStutters DEF RecordMalformed, SettleDenial
<1>3. CASE FinishAttempt \/ RecordIntent
  <2>1. Cur \in DOMAIN turns /\ turns' = MarkerSettled(Cur) /\ UNCHANGED effects
    BY <1>3, CurType DEF FinishAttempt, RecordIntent, Recording
  <2>2. SameAsk
    BY <2>1, MarkerType
  <2>3. PICK i : i = Cur
    OBVIOUS
  <2>4. PICK r : actions' = [actions EXCEPT ![i].row = r]
    BY <1>3, <2>3 DEF FinishAttempt, RecordIntent
  <2> QED
    BY <2>1, <2>2, <2>4, RowStutters
<1>4. CASE SettleTool
  <2>1. PICK i : i = Cur
    OBVIOUS
  <2>2. PICK r : r = hand.verdict
    OBVIOUS
  <2> QED
    BY <1>4, <2>1, <2>2, RowStutters, SameTurns DEF SettleTool
<1> QED
  BY <1>1, <1>2, <1>3, <1>4, FreezeMoves, ExecuteStutters DEF Consume

LEMMA GrantedStep ==
    ASSUME Inv, GrantedAction
    PROVE  StutterStep \/ Approved!Next
<1>1. CASE GrantedMismatch \/ ObserveGranted \/ PrestateMismatch \/ SettleRaises
  BY <1>1, QuietStutters, SameTurns, RaisingReads
  DEF GrantedMismatch, ObserveGranted, PrestateMismatch, ReadStep
<1> QED
  BY <1>1, DispatchStutters, PerformMoves, GrantedMoves DEF GrantedAction

\* ImplementsApproved: whatever else happens, a risky action waits for a human,
\* happens at most once and only while it is approved, and is not tried again
\* once its outcome is uncertain (freeze_authorized_pending_action,
\* accept_pending_action_grant, GrantedActionRuntime.execute,
\* mark_granted_action_indeterminate).
THEOREM Implements == Spec => ImplementsApproved
<1>1. Init => Approved!Init
  <2> SUFFICES ASSUME Init PROVE Approved!Init
    OBVIOUS
  <2>1. \A i \in TurnIds : Phase(i) = "none" /\ Done(i) = 0
    BY DEF Init, Phase, Done
  <2> QED
    BY <2>1 DEF Approved!Init
<1>2. Inv /\ [Next]_vars => [Approved!Next]_Approved!vars
  <2> SUFFICES ASSUME Inv, [Next]_vars PROVE StutterStep \/ Approved!Next
    BY DEF StutterStep
  <2>1. CASE UNCHANGED vars
    BY <2>1, QuietStutters, SameTurns DEF vars
  <2>2. CASE Command
    BY <2>2, CommandStep
  <2>3. CASE Environment
    BY <2>3, EnvironmentStep
  <2>4. CASE RuntimeStep
    BY <2>4, LoopStep, EntryStep, TurnStep, ConsumeStep, GrantedStep DEF RuntimeStep
  <2> QED
    BY <2>1, <2>2, <2>3, <2>4 DEF Next
<1> QED
  BY <1>1, <1>2, Invariant, PTL DEF Spec, ImplementsApproved, Approved!Spec

-----------------------------------------------------------------------------
(* Decisions are acted on while they hold *)

\* What authorize_action saw, for as long as nobody committed anything since.
DecisionInv ==
    pc = "decided" /\ Runtime \in fresh /\ hand.verdict # "DENY" =>
        run = "ACTIVE" /\ open /\ AttemptOf(Cur).bound = rev /\ Runnable(turns[Cur].task)

LEMMA OvertakenDecision ==
    ASSUME fresh' = {} \/ pc' # "decided"
    PROVE  DecisionInv'
BY DEF DecisionInv

LEMMA StandingDecision ==
    ASSUME DecisionInv, Runtime \in fresh' => Runtime \in fresh,
           UNCHANGED <<runVars, attempts, turns, pc, hand>>
    PROVE  DecisionInv'
BY DEF DecisionInv, AttemptOf, Runnable, Cur, runVars

LEMMA DecisionNext ==
    ASSUME Inv, DecisionInv, [Next]_vars
    PROVE  DecisionInv'
<1> USE DEF Inv, TypeOK
<1>1. CASE Command
  <2>1. PICK t \in Threads :
          \/ \E i \in TurnIds, exact \in BOOLEAN : Decide(t, i, exact)
          \/ \E u \in Threads : Redeliver(t, u)
          \/ CommitLost(t) \/ CommitDenied(t) \/ CommitExpired(t)
          \/ CommitStale(t) \/ CommitGrant(t) \/ CommitRaises(t)
    BY <1>1 DEF Command
  <2>2. CASE \/ \E i \in TurnIds, exact \in BOOLEAN : Decide(t, i, exact)
             \/ \E u \in Threads : Redeliver(t, u)
             \/ CommitLost(t) \/ CommitRaises(t)
    BY <2>2, StandingDecision, WorkerAssumption
    DEF Decide, Redeliver, Handle, CommitLost, CommitRaises, RolledBack, attemptVars
  <2>3. CASE CommitDenied(t) \/ CommitExpired(t) \/ CommitStale(t) \/ CommitGrant(t)
    BY <2>3, OvertakenDecision
    DEF CommitDenied, CommitExpired, CommitStale, CommitGrant, Receipt
  <2> QED
    BY <2>1, <2>2, <2>3
<1>2. CASE Environment
  <2>1. CASE Replace \/ Continue \/ Fault \/ Crash
    BY <2>1, OvertakenDecision DEF Replace, Continue, Fault, Crash
  <2>2. CASE \E i \in TurnIds : PendingExpires(i) \/ Edit(i)
    BY <2>2, StandingDecision DEF PendingExpires, Edit, attemptVars
  <2>3. CASE \E k \in Tasks : LeaseExpires(k)
    <3>1. PICK k \in Tasks : LeaseExpires(k)
      BY <2>3
    <3>2. \A j \in Tasks : /\ attempts'[j].bound = attempts[j].bound
                           /\ attempts'[j].state = attempts[j].state
                           /\ attempts'[j].lease = attempts[j].lease
      BY <3>1 DEF LeaseExpires, TypeAttempts, Attempts
    <3>3. pc = "decided" => turns[Cur].task \in Tasks
      BY CurType DEF Turns
    <3> QED
      BY <3>1, <3>2, <3>3
      DEF DecisionInv, AttemptOf, Runnable, Cur, runVars, LeaseExpires
  <2> QED
    BY <1>2, <2>1, <2>2, <2>3 DEF Environment
<1>3. CASE Authorize
  <2>1. Cur' = Cur /\ hand'.verdict = Verdict(Cur)
    BY <1>3 DEF Authorize, Goto, Cur, TypeHand, Hands
  <2>2. Verdict(Cur) # "DENY" =>
            run = "ACTIVE" /\ open /\ AttemptOf(Cur).bound = rev
    BY DEF Verdict, Authorized
  <2>3. UNCHANGED <<runVars, attempts, turns>> /\ Runnable(turns[Cur].task)
    BY <1>3 DEF Authorize, Consuming, attemptVars
  <2> QED
    BY <2>1, <2>2, <2>3 DEF DecisionInv, AttemptOf, Runnable, runVars
<1>4. CASE RuntimeStep /\ ~Authorize
  <2>1. CASE Delivery \/ Entry \/ Loop \/ Turn \/ GrantedAction
    <3>1. AfterFault # "decided" /\ AfterMutatorError # "decided"
      BY DEF AfterFault, AfterMutatorError
    <3>2. pc = "granted" /\ MarkerSettleable(Cur) => Observed(Cur) # "decided"
      <4>1. pc = "granted" => file[Cur] \in {"pre", "post", "other"}
        BY GrantedCur DEF GrantedPCs, TypeActions
      <4> QED
        BY <4>1 DEF Observed
    <3> QED
      BY <2>1, <3>1, <3>2, OvertakenDecision
      DEF Delivery, ConsumePermit, InvalidatePermit, RecordFault, Stop, DeliveryLost,
          Entry, EnterResume, EnterGranted, EnterUnsettled, EnterBlocked,
          EnterRecover, EnterDrive,
          Loop, TimeExhausted, Leave, LoopClosed, LoopExisting, LoopNothing,
          LoopCreate, LoopConflict,
          Turn, BeginBarrier, BarrierRaises, SettleBarrier, SettlementRaises,
         TurnRefused, TurnPaused, TurnReserved, ProviderAnswers,
          ProviderFails, ProviderRaises,
          GrantedAction, GrantedMismatch, ObserveGranted, DispatchGranted, Perform,
          PrestateMismatch, SettleGranted, MarkIndeterminate, Goto, Commit
  <2>2. CASE Consume
    BY <1>4, <2>2, OvertakenDecision
    DEF Consume, ConsumeGone, RecordMalformed, MalformedRaises, RecordDenial,
        SettleDenial, DenialRaises, DecisionRaises, FinishAttempt, FreezePending,
        RecordIntent, Execute, SettleTool, Goto, Commit
  <2> QED
    BY <1>4, <2>1, <2>2 DEF RuntimeStep
<1>5. CASE UNCHANGED vars
  BY <1>5, StandingDecision DEF vars, attemptVars
<1> QED
  BY <1>1, <1>2, <1>3, <1>4, <1>5 DEF Next

LEMMA DecisionInvariant == Spec => [](Inv /\ DecisionInv)
<1>1. Init => Inv /\ DecisionInv
  BY InitInv DEF Init, DecisionInv
<1>2. Inv /\ DecisionInv /\ [Next]_vars => Inv' /\ DecisionInv'
  BY NextInv, DecisionNext
<1> QED
  BY <1>1, <1>2, PTL DEF Spec

\* Only these steps write a row of worker_actions, and only while it stands.
LEMMA DecidedRecording ==
    ASSUME Inv, DecisionInv, FinishAttempt \/ FreezePending \/ RecordIntent
    PROVE  run = "ACTIVE" /\ open /\ AttemptOf(Cur).bound = rev
           /\ Runnable(turns[Cur].task)
BY DEF FinishAttempt, FreezePending, RecordIntent, Recording, Recordable, DecisionInv

\* SettledIsObserved: a granted action is settled as done only when it did happen
\* or somebody changed the file (GrantedActionRuntime.execute).
THEOREM SettledObserved == Spec => []SettledIsObserved
<1>1. Inv => SettledIsObserved
  BY DEF Inv, JournalInv, JournalEntry, SettledIsObserved
<1> QED
  BY <1>1, Invariant, PTL

\* Every effect has its durable intent and every settlement was observed.
THEOREM ObservedEffects == Spec => []EffectsObserved
<1>1. EffectsAreJournaled /\ SettledIsObserved => EffectsObserved
  BY DEF EffectsObserved
<1> QED
  BY <1>1, Journaled, SettledObserved, PTL

RowsKept == \A i \in TurnIds : actions'[i].row = actions[i].row

LEMMA KeptRows ==
    ASSUME TypeActions, NEW i,
           \/ actions' = [actions EXCEPT ![i].pending = "INVALIDATED"]
           \/ actions' = [actions EXCEPT ![i].late = TRUE]
           \/ actions' = [actions EXCEPT ![i].intent = "DISPATCHED"]
           \/ actions' = [actions EXCEPT ![i].intent = "INDETERMINATE"]
           \/ actions' = Granted(i)
    PROVE  RowsKept
<1>1. CASE actions' = Granted(i)
  BY <1>1, ActionType DEF TypeActions, Actions, Granted, RowsKept
<1>2. CASE actions' = [actions EXCEPT ![i].late = TRUE]
  BY <1>2, ActionType DEF TypeActions, Actions, RowsKept
<1>3. CASE actions' = [actions EXCEPT ![i].pending = "INVALIDATED"]
  BY <1>3, ActionType DEF TypeActions, Actions, RowsKept
<1>4. ASSUME NEW s, actions' = [actions EXCEPT ![i].intent = s]
      PROVE  RowsKept
  BY <1>4, ActionType DEF TypeActions, Actions, RowsKept
<1> QED
  BY <1>1, <1>2, <1>3, <1>4

\* A row that there was not is written by a decided action or by nobody.
LEMMA RowsAppear ==
    ASSUME Inv, [Next]_vars, ~(FinishAttempt \/ FreezePending \/ RecordIntent)
    PROVE  \A i \in DOMAIN turns : actions[i].row = "NONE" => actions'[i].row = "NONE"
<1> USE DEF Inv, TypeOK
<1>1. SUFFICES \/ RowsKept
               \/ \E i \in DOMAIN turns :
                      /\ actions[i].row # "NONE"
                      /\ \A j \in TurnIds \ {i} : actions'[j] = actions[j]
  BY TurnsType DEF RowsKept
<1>2. UNCHANGED actions => RowsKept
  BY DEF RowsKept
<1>3. CASE Command
  BY <1>2, <1>3, KeptRows
  DEF Command, Decide, Redeliver, Handle, CommitLost, CommitRaises, RolledBack,
      CommitDenied, CommitExpired, CommitStale, CommitGrant, Invalidated
<1>4. CASE Environment
  BY <1>2, <1>4, KeptRows
  DEF Environment, Replace, Continue, Fault, Crash, LeaseExpires, PendingExpires, Edit
<1>5. CASE Delivery \/ Entry \/ Loop \/ Turn
  BY <1>2, <1>5
  DEF Delivery, ConsumePermit, InvalidatePermit, RecordFault, Stop, DeliveryLost,
      Entry, EnterResume, EnterGranted, EnterUnsettled, EnterBlocked,
      EnterRecover, EnterDrive,
      Loop, TimeExhausted, Leave, LoopClosed, LoopExisting, LoopNothing,
      LoopCreate, LoopConflict,
      Turn, BeginBarrier, BarrierRaises, SettleBarrier, SettlementRaises,
         TurnRefused, TurnPaused, TurnReserved, ProviderAnswers,
      ProviderFails, ProviderRaises, ReadStep
<1>6. CASE Consume
  <2>1. CASE SettleTool
    <3>1. Cur \in DOMAIN turns /\ actions[Cur].row # "NONE"
      BY <2>1 DEF SettleTool, HandInv
    <3>2. \A j \in TurnIds \ {Cur} : actions'[j] = actions[j]
      BY <2>1 DEF SettleTool, TypeActions
    <3> QED
      BY <3>1, <3>2
  <2> QED
    BY <1>2, <1>6, <2>1
    DEF Consume, ConsumeGone, RecordMalformed, MalformedRaises, Authorize,
        RecordDenial, SettleDenial, DenialRaises, DecisionRaises, Execute, ReadStep
<1>7. CASE GrantedAction
  <2>1. CASE SettleGranted /\ ~SettleRaises
    <3>1. Cur \in DOMAIN turns /\ actions[Cur].row # "NONE"
      BY <2>1, GrantedCur DEF SettleGranted, GrantedPCs
    <3>2. \A j \in TurnIds \ {Cur} : actions'[j] = actions[j]
      BY <2>1 DEF SettleGranted, SettleRaises, TypeActions
    <3> QED
      BY <3>1, <3>2
  <2>2. CASE DispatchGranted \/ MarkIndeterminate
    <3>1. PICK i : i = Cur
      OBVIOUS
    <3> QED
      BY <1>2, <2>2, <3>1, KeptRows DEF DispatchGranted, MarkIndeterminate
  <2> QED
    BY <1>2, <1>7, <2>1, <2>2, RaisingReads
    DEF GrantedAction, GrantedMismatch, ObserveGranted, Perform, PrestateMismatch,
        ReadStep
<1>8. CASE UNCHANGED vars
  BY <1>2, <1>8 DEF vars
<1> QED
  BY <1>3, <1>4, <1>5, <1>6, <1>7, <1>8 DEF Next, RuntimeStep

\* RecordedUnderAuthority: whatever commands, replacements and crashes come
\* between authorize_action and the transaction that acts on its decision, a row
\* of worker_actions appears only while the Run dispatches, under the budget of
\* the Attempt and its active lease.
THEOREM Authority == Spec => RecordedUnderAuthority
<1> DEFINE Step == \A i \in DOMAIN turns :
                      actions[i].row = "NONE" /\ actions'[i].row # "NONE" =>
                          run = "ACTIVE" /\ open /\ AttemptOf(i).bound = rev /\ Runnable(turns[i].task)
<1>1. Inv /\ DecisionInv /\ [Next]_vars => [Step]_vars
  <2> SUFFICES ASSUME Inv, DecisionInv, [Next]_vars,
                      NEW i \in DOMAIN turns,
                      actions[i].row = "NONE", actions'[i].row # "NONE"
               PROVE  /\ run = "ACTIVE" /\ open /\ AttemptOf(i).bound = rev
                      /\ Runnable(turns[i].task)
    OBVIOUS
  <2>1. FinishAttempt \/ FreezePending \/ RecordIntent
    BY RowsAppear
  <2>2. \A j \in TurnIds \ {Cur} : actions'[j] = actions[j]
    BY <2>1 DEF Inv, TypeOK, TypeActions, FinishAttempt, FreezePending, RecordIntent
  <2>3. i = Cur
    BY <2>2, TurnsType DEF Inv, TypeOK
  <2> QED
    BY <2>1, <2>3, DecidedRecording
<1>2. RecordedUnderAuthority <=> [][Step]_vars
  BY DEF RecordedUnderAuthority
<1> HIDE DEF Step
<1> QED
  BY <1>1, <1>2, DecisionInvariant, PTL DEF Spec

EndedStates == {"STALE", "FAILED", "SUCCEEDED"}

EndedKept == \A k \in Tasks : attempts[k].state \in EndedStates =>
                                 attempts'[k].state = attempts[k].state

\* One Attempt is written, and it has not ended.
LEMMA LiveWritten ==
    ASSUME TypeAttempts, NEW k \in Tasks, attempts[k].state \notin EndedStates,
           \A j \in Tasks \ {k} : attempts'[j] = attempts[j]
    PROVE  EndedKept
BY DEF EndedKept

LEMMA EndedCommand ==
    ASSUME Inv, Command
    PROVE  EndedKept
<1> USE DEF Inv, TypeOK
<1>1. PICK t \in Threads :
        \/ \E i \in TurnIds, exact \in BOOLEAN : Decide(t, i, exact)
        \/ \E u \in Threads : Redeliver(t, u)
        \/ CommitLost(t) \/ CommitDenied(t) \/ CommitExpired(t)
        \/ CommitStale(t) \/ CommitGrant(t) \/ CommitRaises(t)
  BY DEF Command
<1>2. CASE CommitExpired(t) \/ CommitStale(t) \/ CommitGrant(t)
  <2>1. handler[t].turn \in TurnIds /\ Waiting(handler[t].turn)
    BY <1>2, HandlerType DEF CommitExpired, CommitStale, CommitGrant
  <2>2. PICK i \in TurnIds : i = handler[t].turn
    BY <2>1
  <2>3. i \in DOMAIN turns
    BY <2>1, <2>2 DEF Waiting, JournalInv, JournalEntry
  <2>4. PICK k \in Tasks : k = turns[i].task
    BY <2>3, TurnsType DEF Turns
  <2>5. attempts[k].state = "WAITING_APPROVAL"
    BY <1>2, <2>2, <2>4
    DEF CommitExpired, CommitStale, CommitGrant, Invalidated, BindingsCurrent, AttemptOf
  <2>6. \A j \in Tasks \ {k} : attempts'[j] = attempts[j]
    BY <1>2, <2>2, <2>4
    DEF CommitExpired, CommitStale, CommitGrant, Invalidated, Resumed, TypeAttempts
  <2> QED
    BY <2>5, <2>6, LiveWritten DEF EndedStates
<1>3. CASE ~(CommitExpired(t) \/ CommitStale(t) \/ CommitGrant(t))
  BY <1>1, <1>3
  DEF Decide, Redeliver, Handle, CommitLost, CommitRaises, RolledBack, CommitDenied,
      EndedKept, attemptVars
<1> QED
  BY <1>2, <1>3

LEMMA EndedConsume ==
    ASSUME Inv, DecisionInv, Consume
    PROVE  EndedKept
<1> USE DEF Inv, TypeOK
<1>1. CASE RecordMalformed \/ FinishAttempt \/ FreezePending
  <2>1. Cur \in DOMAIN turns
    BY <1>1, CurType DEF RecordMalformed, FinishAttempt, FreezePending, Recording, Consuming
  <2>2. PICK k \in Tasks : k = turns[Cur].task
    BY <2>1, TurnsType DEF Turns
  <2>3. attempts[k].state = "RUNNING"
    BY <1>1, <2>2, DecidedRecording DEF RecordMalformed, Consuming, Runnable
  <2>4. \A j \in Tasks \ {k} : attempts'[j] = attempts[j]
    BY <1>1, <2>2
    DEF RecordMalformed, FinishAttempt, FreezePending, Ended, TypeAttempts
  <2> QED
    BY <2>3, <2>4, LiveWritten DEF EndedStates
<1>2. CASE ~(RecordMalformed \/ FinishAttempt \/ FreezePending)
  BY <1>2
  DEF Consume, ConsumeGone, MalformedRaises, Authorize, RecordDenial, SettleDenial,
      DenialRaises, DecisionRaises, RecordIntent, Execute, SettleTool, ReadStep,
      EndedKept, attemptVars
<1> QED
  BY <1>1, <1>2

LEMMA EndedNext ==
    ASSUME Inv, DecisionInv, [Next]_vars
    PROVE  EndedKept
<1> USE DEF Inv, TypeOK
<1>1. UNCHANGED attempts => EndedKept
  BY DEF EndedKept
<1>2. CASE Environment
  <2>1. CASE \E k \in Tasks : LeaseExpires(k)
    BY <2>1 DEF LeaseExpires, TypeAttempts, Attempts, EndedKept
  <2> QED
    BY <1>1, <1>2, <2>1
    DEF Environment, Replace, Continue, Fault, Crash, PendingExpires, Edit, attemptVars
<1>3. CASE Delivery \/ Entry \/ Turn \/ GrantedAction
  BY <1>1, <1>3
  DEF Delivery, ConsumePermit, InvalidatePermit, RecordFault, Stop, DeliveryLost,
      Entry, EnterResume, EnterGranted, EnterUnsettled, EnterBlocked,
      EnterRecover, EnterDrive,
      Turn, BeginBarrier, BarrierRaises, SettleBarrier, SettlementRaises,
         TurnRefused, TurnPaused, TurnReserved, ProviderAnswers,
      ProviderFails, ProviderRaises,
      GrantedAction, GrantedMismatch, ObserveGranted, DispatchGranted, Perform,
      PrestateMismatch, SettleGranted, MarkIndeterminate, ReadStep, attemptVars
<1>4. CASE Loop
  <2>1. CASE \E k \in Tasks : LoopCreate(k)
    <3>1. PICK k \in Tasks : LoopCreate(k)
      BY <2>1
    <3>2. attempts[k].state = "NONE" /\ \A j \in Tasks \ {k} : attempts'[j] = attempts[j]
      BY <3>1 DEF LoopCreate, AttemptFree, TypeAttempts
    <3> QED
      BY <3>2, LiveWritten DEF EndedStates
  <2> QED
    BY <1>1, <1>4, <2>1
    DEF Loop, TimeExhausted, Leave, LoopClosed, LoopExisting, LoopNothing,
        LoopConflict, ReadStep, attemptVars
<1>5. CASE UNCHANGED vars
  BY <1>1, <1>5 DEF vars, attemptVars
<1> QED
  BY <1>2, <1>3, <1>4, <1>5, EndedCommand, EndedConsume DEF Next, RuntimeStep

\* EndedIsFinal: neither a late Grant nor a recovered turn nor the scheduler
\* revives an Attempt that became stale, failed or succeeded.
THEOREM EndedFinal == Spec => EndedIsFinal
<1> DEFINE Step == \A k \in Tasks : attempts[k].state \in {"STALE", "FAILED", "SUCCEEDED"} =>
                       attempts'[k].state = attempts[k].state
<1>1. Inv /\ DecisionInv /\ [Next]_vars => [Step]_vars
  BY EndedNext DEF EndedKept, EndedStates
<1>2. EndedIsFinal <=> [][Step]_vars
  BY DEF EndedIsFinal
<1> HIDE DEF Step
<1> QED
  BY <1>1, <1>2, DecisionInvariant, PTL DEF Spec

-----------------------------------------------------------------------------
(* One recovered action at a time *)

RecoveredPCs == {"consume", "decided", "denied"}

MarkerInv ==
    /\ \A i, j \in UnsettledMarkers : i = j
    /\ hand.recovered /\ pc \in RecoveredPCs => Cur \in UnsettledMarkers

\* The step marks no turn, and whoever holds a recovered one held it before.
LEMMA MarkersFewer ==
    ASSUME MarkerInv, UnsettledMarkers' \subseteq UnsettledMarkers,
           hand'.recovered /\ pc' \in RecoveredPCs =>
               UNCHANGED turns /\ Cur' = Cur /\ hand.recovered /\ pc \in RecoveredPCs
    PROVE  MarkerInv'
<1>1. UNCHANGED turns => UnsettledMarkers' = UnsettledMarkers
  BY DEF UnsettledMarkers
<1> QED
  BY <1>1 DEF MarkerInv

LEMMA SettledMarkers ==
    ASSUME TypeTurns, NEW i \in DOMAIN turns, turns' = MarkerSettled(i)
    PROVE  UnsettledMarkers' \subseteq UnsettledMarkers
<1>1. CASE hand.recovered
  <2>1. turns' = [turns EXCEPT ![i].marker = "SETTLED"]
    BY <1>1 DEF MarkerSettled
  <2> QED
    BY <2>1, TurnsType DEF UnsettledMarkers, Turns
<1>2. CASE ~hand.recovered
  BY <1>2 DEF MarkerSettled, UnsettledMarkers
<1> QED
  BY <1>1, <1>2

LEMMA MarkerNext ==
    ASSUME Inv, MarkerInv, [Next]_vars
    PROVE  MarkerInv'
<1> USE DEF Inv, TypeOK
<1>1. UNCHANGED turns => UnsettledMarkers' \subseteq UnsettledMarkers
  BY DEF UnsettledMarkers
<1>2. UNCHANGED <<turns, pc, hand>> => MarkerInv'
  BY <1>1, MarkersFewer DEF Cur
<1>3. UNCHANGED turns /\ (pc' \notin RecoveredPCs \/ hand' = NoHand) => MarkerInv'
  BY <1>1, MarkersFewer DEF NoHand
<1>4. CASE Command
  BY <1>2, <1>4
  DEF Command, Decide, Redeliver, Handle, CommitLost, CommitRaises, RolledBack,
      CommitDenied, CommitExpired, CommitStale, CommitGrant, Receipt
<1>5. CASE Environment
  BY <1>2, <1>3, <1>5
  DEF Environment, Replace, Continue, Fault, Crash, LeaseExpires, PendingExpires, Edit
<1>6. CASE Delivery
  BY <1>2, <1>3, <1>6
  DEF Delivery, ConsumePermit, InvalidatePermit, RecordFault, Stop, DeliveryLost, Goto
<1>7. CASE Entry
  <2>1. CASE EnterResume
    <3>1. PICK i \in UnsettledMarkers : Goto("consume", Holding(i, TRUE))
      BY <2>1 DEF EnterResume
    <3> QED
      BY <2>1, <3>1 DEF EnterResume, ReadStep, MarkerInv, Goto, Holding, Cur, UnsettledMarkers
  <2>2. CASE EnterRecover
    <3>0. RecoverableTurns \in SUBSET Nat /\ RecoverableTurns \subseteq DOMAIN turns
      BY TurnsType DEF RecoverableTurns
    <3>1. First(RecoverableTurns) \in DOMAIN turns
      BY <2>2, <3>0, FirstType DEF EnterRecover
    <3>2. PICK i \in DOMAIN turns :
              /\ turns' = [turns EXCEPT ![i].state = "DOWNSTREAM_INTENT_RECORDED",
                                        ![i].marker = "UNSETTLED"]
              /\ Goto("consume", Holding(i, TRUE))
      BY <2>2, <3>1 DEF EnterRecover
    <3>3. UnsettledMarkers = {}
      BY <2>2 DEF EnterRecover, NothingUnsettled
    <3>4. /\ \A j \in DOMAIN turns \ {i} : turns'[j] = turns[j]
          /\ DOMAIN turns' = DOMAIN turns /\ turns'[i].marker = "UNSETTLED"
      BY <3>2, TurnsType DEF Turns
    <3>5. UnsettledMarkers' = {i}
      BY <3>3, <3>4 DEF UnsettledMarkers
    <3> QED
      BY <3>2, <3>5 DEF MarkerInv, Goto, Holding, Cur
  <2>3. CASE EnterGranted
    BY <1>3, <2>3 DEF EnterGranted, ReadStep, Goto, RecoveredPCs
  <2> QED
    BY <1>3, <1>7, <2>1, <2>2, <2>3
    DEF Entry, EnterUnsettled, EnterBlocked, EnterDrive, ReadStep, Goto
<1>8. CASE Loop
  BY <1>3, <1>8
  DEF Loop, TimeExhausted, Leave, LoopClosed, LoopExisting, LoopNothing, LoopCreate,
      LoopConflict, ReadStep, Goto, RecoveredPCs
<1>9. CASE Turn
  <2>1. CASE \E act \in Acts : ProviderAnswers(act)
    <3>1. PICK act \in Acts : ProviderAnswers(act)
      BY <2>1
    <3> DEFINE turn == [task |-> hand.task, act |-> act,
                        state |-> "COMPLETION_COMMITTED", marker |-> "NONE"]
    <3>2. turns' = Append(turns, turn) /\ turn.marker = "NONE"
      BY <3>1 DEF ProviderAnswers
    <3>3. /\ hand'.recovered = FALSE
      BY <3>1 DEF ProviderAnswers, Goto, NoHand
    <3> HIDE DEF turn
    <3>4. /\ DOMAIN turns' = 1 .. Len(turns) + 1 /\ turns'[Len(turns) + 1] = turn
          /\ \A j \in 1 .. Len(turns) : turns'[j] = turns[j]
      BY <3>2 DEF TypeTurns
    <3>5. UnsettledMarkers' \subseteq UnsettledMarkers
      BY <3>2, <3>4, TurnsType DEF UnsettledMarkers
    <3> QED
      BY <3>3, <3>5, MarkersFewer
  <2>2. CASE SettleBarrier
    <3>1. UNCHANGED turns /\ ~hand'.recovered
      BY <2>2 DEF SettleBarrier, Goto, NoHand, HandInv, TurnPCs
    <3> QED
      BY <1>1, <3>1, MarkersFewer
  <2> QED
    BY <1>3, <1>9, <2>1, <2>2
    DEF Turn, BeginBarrier, BarrierRaises, SettlementRaises, TurnRefused, TurnPaused,
        TurnReserved, ProviderFails, ProviderRaises, ReadStep, Goto, RecoveredPCs
<1>10. CASE Consume
  <2>1. CASE RecordMalformed \/ SettleDenial \/ FinishAttempt \/ FreezePending \/ RecordIntent
    <3>1. Cur \in DOMAIN turns /\ turns' = MarkerSettled(Cur)
      BY <2>1, CurType
      DEF RecordMalformed, SettleDenial, FinishAttempt, FreezePending, RecordIntent,
          Recording, Consuming
    <3>2. pc' \notin RecoveredPCs
      BY <2>1
      DEF RecordMalformed, SettleDenial, FinishAttempt, FreezePending, RecordIntent,
          Goto, RecoveredPCs
    <3> QED
      BY <3>1, <3>2, SettledMarkers, MarkersFewer
  <2>2. CASE Authorize
    <3>1. /\ UNCHANGED turns /\ Cur' = Cur /\ hand'.recovered = hand.recovered
          /\ pc = "consume" /\ pc' = "decided"
      BY <2>2 DEF Authorize, Goto, Consuming, Cur, TypeHand, Hands
    <3> QED
      BY <1>1, <3>1, MarkersFewer DEF RecoveredPCs
  <2>3. CASE RecordDenial
    BY <1>1, <2>3, MarkersFewer DEF RecordDenial, Goto, RecoveredPCs, Cur, NoHand
  <2> QED
    BY <1>3, <1>10, <2>1, <2>2, <2>3
    DEF Consume, ConsumeGone, MalformedRaises, DenialRaises, DecisionRaises, Execute,
        SettleTool, ReadStep, Goto, RecoveredPCs
<1>11. CASE GrantedAction
  <2>1. pc = "granted" => Observed(Cur) \notin RecoveredPCs
    <3>1. pc = "granted" => file[Cur] \in {"pre", "post", "other"}
      BY GrantedCur DEF GrantedPCs, TypeActions
    <3> QED
      BY <3>1 DEF Observed, RecoveredPCs
  <2>2. AfterMutatorError \notin RecoveredPCs
    BY DEF AfterMutatorError, RecoveredPCs
  <2>3. UNCHANGED turns /\ pc' \notin RecoveredPCs
    BY <1>11, <2>1, <2>2, RaisingReads
    DEF GrantedAction, GrantedMismatch, ObserveGranted, DispatchGranted, Perform,
        PrestateMismatch, SettleGranted, MarkIndeterminate, ReadStep, Goto, RecoveredPCs
  <2> QED
    BY <1>3, <2>3
<1>12. CASE UNCHANGED vars
  BY <1>2, <1>12 DEF vars
<1> QED
  BY <1>4, <1>5, <1>6, <1>7, <1>8, <1>9, <1>10, <1>11, <1>12 DEF Next, RuntimeStep

\* OneRecoveryAtATime: however often a process dies between the marker of a
\* recovered turn and its settlement, no second marker is set, and a delivery
\* that resumes a recovered action works on the marked one
\* (next_recovered_model_action before next_recoverable_model_turn).
THEOREM OneRecovery == Spec => []OneRecoveryAtATime
<1>1. Init => MarkerInv
  BY DEF Init, MarkerInv, UnsettledMarkers, NoHand
<1>2. Inv /\ MarkerInv /\ [Next]_vars => MarkerInv'
  BY MarkerNext
<1>3. MarkerInv => OneRecoveryAtATime
  <2> SUFFICES ASSUME MarkerInv PROVE OneRecoveryAtATime
    OBVIOUS
  <2>1. Cardinality(UnsettledMarkers) <= 1
    <3>1. CASE UnsettledMarkers = {}
      BY <3>1, FS_EmptySet
    <3>2. ASSUME NEW i \in UnsettledMarkers PROVE Cardinality(UnsettledMarkers) <= 1
      <4>1. UnsettledMarkers = {i}
        BY <3>2 DEF MarkerInv
      <4> QED
        BY <4>1, FS_Singleton
    <3> QED
      BY <3>1, <3>2
  <2>2. hand.recovered /\ pc \in RecoveredPCs => UnsettledMarkers = {Cur}
    BY DEF MarkerInv
  <2> QED
    BY <2>1, <2>2 DEF OneRecoveryAtATime, RecoveredPCs, Cur
<1> QED
  BY <1>1, <1>2, <1>3, Invariant, PTL DEF Spec

-----------------------------------------------------------------------------
(* Attempts, leases, pending actions, Grants and intents in step *)

\* A consumed Grant and the intent of its turn are written together.
GrantInv ==
    /\ \A n, m \in DOMAIN grants :
           grants[n] = grants[m] /\ grants[n].state = "CONSUMED" => n = m
    /\ \A n \in DOMAIN grants :
           grants[n].state = "CONSUMED" => actions[grants[n].turn].intent # "NONE"
    /\ \A i \in TurnIds :
           actions[i].intent # "NONE" =>
               \E n \in DOMAIN grants : grants[n] = [turn |-> i, state |-> "CONSUMED"]

\* A waiting Attempt and its one waiting action are written together.
WaitingInv ==
    /\ \A i, j \in TurnIds :
           Waiting(i) /\ Waiting(j) /\ turns[i].task = turns[j].task => i = j
    /\ \A i \in TurnIds : Waiting(i) => AttemptOf(i).state = "WAITING_APPROVAL"
    /\ \A k \in Tasks :
           attempts[k].state = "WAITING_APPROVAL" =>
               \E i \in TurnIds : Waiting(i) /\ turns[i].task = k

StepInv == GrantInv /\ WaitingInv /\ LeasesMatchAttempts

SameIntents ==
    \A i \in TurnIds : actions'[i].intent = "NONE" <=> actions[i].intent = "NONE"

SameWaiting ==
    \A i \in TurnIds : actions'[i].pending = "WAITING_APPROVAL" <=> Waiting(i)

SameTasks ==
    \A i \in DOMAIN turns : i \in DOMAIN turns' /\ turns'[i].task = turns[i].task

LEMMA WaitingTurn ==
    ASSUME Inv, NEW i \in TurnIds, Waiting(i)
    PROVE  i \in DOMAIN turns /\ turns[i].task \in Tasks /\ actions[i].intent = "NONE"
BY TurnsType DEF Inv, TypeOK, JournalInv, JournalEntry, Waiting, Turns

LEMMA OneWritten ==
    ASSUME NEW i, \A j \in TurnIds \ {i} : actions'[j] = actions[j],
           actions'[i].intent = "NONE" <=> actions[i].intent = "NONE",
           actions'[i].pending = "WAITING_APPROVAL" <=> Waiting(i)
    PROVE  SameIntents /\ SameWaiting
BY DEF SameIntents, SameWaiting, Waiting

LEMMA GrantFrame ==
    ASSUME TypeActions, GrantInv, SameIntents,
           \/ UNCHANGED grants
           \/ \E i \in TurnIds : grants' = Append(grants, [turn |-> i, state |-> "INVALIDATED"])
    PROVE  GrantInv'
<1> USE DEF GrantInv
<1>1. CASE UNCHANGED grants
  <2>1. \A n \in DOMAIN grants : grants[n].turn \in TurnIds
    BY GrantsType DEF Grants
  <2> QED
    BY <1>1, <2>1 DEF SameIntents, TurnIds
<1>2. ASSUME NEW i \in TurnIds, grants' = Append(grants, [turn |-> i, state |-> "INVALIDATED"])
      PROVE  GrantInv'
  <2>1. \A n \in DOMAIN grants : grants[n].turn \in TurnIds
    BY GrantsType DEF Grants
  <2>2. /\ DOMAIN grants = 1 .. Len(grants) /\ Len(grants) \in Nat
        /\ DOMAIN grants' = 1 .. Len(grants) + 1
        /\ \A n \in DOMAIN grants : grants'[n] = grants[n]
        /\ grants'[Len(grants) + 1].state = "INVALIDATED"
    BY <1>2 DEF TypeActions
  <2>3. \A n \in DOMAIN grants' : grants'[n].state = "CONSUMED" => n \in DOMAIN grants
    BY <2>2
  <2>4. DOMAIN grants \subseteq DOMAIN grants'
    BY <2>2
  <2> QED
    BY <2>1, <2>2, <2>3, <2>4 DEF SameIntents, TurnIds
<1> QED
  BY <1>1, <1>2

LEMMA WaitingFrame ==
    ASSUME Inv, WaitingInv, SameWaiting, SameTasks,
           \A k \in Tasks : attempts'[k].state = "WAITING_APPROVAL" <=>
                                attempts[k].state = "WAITING_APPROVAL"
    PROVE  WaitingInv'
<1>1. \A i \in TurnIds : Waiting(i)' <=> Waiting(i)
  BY DEF SameWaiting, Waiting
<1>2. \A i \in TurnIds : Waiting(i) =>
          turns'[i].task = turns[i].task /\ turns[i].task \in Tasks
  BY WaitingTurn DEF SameTasks
<1> QED
  BY <1>1, <1>2 DEF WaitingInv, AttemptOf, TurnIds

LEMMA LeasesFrame ==
    ASSUME LeasesMatchAttempts, UNCHANGED attempts
    PROVE  LeasesMatchAttempts'
BY DEF LeasesMatchAttempts

\* Neither an Attempt nor an action is written.
LEMMA QuietRows ==
    ASSUME Inv, StepInv, SameTasks, UNCHANGED <<attempts, actions, grants>>
    PROVE  StepInv'
<1>1. SameIntents /\ SameWaiting
  BY DEF SameIntents, SameWaiting, Waiting
<1> QED
  BY <1>1, GrantFrame, WaitingFrame, LeasesFrame DEF StepInv, Inv, TypeOK

\* The row of an action is written, or what became of its intent.
LEMMA RowOnly ==
    ASSUME Inv, StepInv, SameTasks, SameIntents, SameWaiting, UNCHANGED <<attempts, grants>>
    PROVE  StepInv'
BY GrantFrame, WaitingFrame, LeasesFrame DEF StepInv, Inv, TypeOK

\* One Attempt is written that does not wait, neither before nor after.
LEMMA AttemptOnly ==
    ASSUME Inv, StepInv, SameTasks, SameIntents, SameWaiting, UNCHANGED grants,
           NEW k \in Tasks, \A j \in Tasks \ {k} : attempts'[j] = attempts[j],
           attempts[k].state # "WAITING_APPROVAL",
           \/ attempts'[k].state = "RUNNING" /\ attempts'[k].lease = "ACTIVE"
           \/ attempts'[k].state \in {"SUCCEEDED", "FAILED"} /\ attempts'[k].lease = "REVOKED"
    PROVE  StepInv'
<1>1. LeasesMatchAttempts'
  BY DEF StepInv, LeasesMatchAttempts
<1>2. \A j \in Tasks : attempts'[j].state = "WAITING_APPROVAL" <=>
                           attempts[j].state = "WAITING_APPROVAL"
  OBVIOUS
<1> QED
  BY <1>1, <1>2, GrantFrame, WaitingFrame DEF StepInv, Inv, TypeOK

\* The waiting action of an Attempt stops to wait, and the Attempt with it.
LEMMA WaitOver ==
    ASSUME Inv, WaitingInv, UNCHANGED turns, NEW i \in TurnIds, Waiting(i),
           ~Waiting(i)', \A j \in TurnIds \ {i} : actions'[j] = actions[j],
           attempts'[turns[i].task].state # "WAITING_APPROVAL",
           \A k \in Tasks \ {turns[i].task} : attempts'[k] = attempts[k]
    PROVE  WaitingInv'
<1>1. \A j \in TurnIds \ {i} : Waiting(j)' <=> Waiting(j)
  BY DEF Waiting
<1>2. \A j \in TurnIds : Waiting(j)' => j # i /\ Waiting(j) /\ turns[j].task # turns[i].task
  BY <1>1 DEF WaitingInv
<1>3. \A j \in TurnIds : Waiting(j) => turns[j].task \in Tasks
  BY WaitingTurn
<1>4. \A j \in TurnIds : Waiting(j)' => AttemptOf(j)'.state = "WAITING_APPROVAL"
  BY <1>2, <1>3 DEF WaitingInv, AttemptOf
<1>5. ASSUME NEW k \in Tasks, attempts'[k].state = "WAITING_APPROVAL"
      PROVE  \E j \in TurnIds : Waiting(j)' /\ turns[j].task = k
  BY <1>1, <1>5 DEF WaitingInv
<1> QED
  BY <1>1, <1>2, <1>4, <1>5 DEF WaitingInv, TurnIds

LEMMA TasksKept == SameAsk => SameTasks
BY DEF SameAsk, SameTasks

LEMMA LapseStep ==
    ASSUME Inv, StepInv, NEW t \in Threads, CommitExpired(t) \/ CommitStale(t)
    PROVE  StepInv'
<1> USE DEF Inv, TypeOK
<1>1. PICK i \in TurnIds : i = handler[t].turn
  BY HandlerType DEF CommitExpired, CommitStale
<1>2. Waiting(i) /\ Invalidated(i) /\ UNCHANGED turns
  BY <1>1 DEF CommitExpired, CommitStale, Receipt
<1>3. i \in DOMAIN turns /\ turns[i].task \in Tasks
  BY <1>2, WaitingTurn
<1>4. PICK k \in Tasks : k = turns[i].task
  BY <1>3
<1>5. /\ actions' = [actions EXCEPT ![i].pending = "INVALIDATED"]
      /\ attempts' = [attempts EXCEPT ![k].state = "STALE"]
  BY <1>2, <1>4 DEF Invalidated
<1>6. /\ \A j \in TurnIds \ {i} : actions'[j] = actions[j]
      /\ actions'[i].pending = "INVALIDATED" /\ actions'[i].intent = actions[i].intent
  BY <1>5, ActionType DEF TypeActions, Actions
<1>7. /\ \A j \in Tasks \ {k} : attempts'[j] = attempts[j]
      /\ attempts'[k].state = "STALE"
  BY <1>5 DEF TypeAttempts, Attempts
<1>8. SameIntents
  BY <1>6 DEF SameIntents
<1>9. GrantInv'
  BY <1>1, <1>8, GrantFrame DEF StepInv, CommitExpired, CommitStale
<1>10. WaitingInv'
  BY <1>2, <1>4, <1>6, <1>7, WaitOver DEF StepInv, Waiting
<1>11. LeasesMatchAttempts'
  BY <1>7 DEF StepInv, LeasesMatchAttempts
<1> QED
  BY <1>9, <1>10, <1>11 DEF StepInv

LEMMA GrantStep ==
    ASSUME Inv, StepInv, NEW t \in Threads, CommitGrant(t)
    PROVE  StepInv'
<1> USE DEF Inv, TypeOK
<1>1. PICK i \in TurnIds : i = handler[t].turn
  BY HandlerType DEF CommitGrant
<1>2. /\ Waiting(i) /\ BindingsCurrent(i) /\ UNCHANGED turns
      /\ grants' = Append(grants, [turn |-> i, state |-> "CONSUMED"])
      /\ actions' = Granted(i) /\ attempts' = Resumed(i)
  BY <1>1 DEF CommitGrant, Receipt
<1>3. i \in DOMAIN turns /\ turns[i].task \in Tasks /\ actions[i].intent = "NONE"
  BY <1>2, WaitingTurn
<1>4. PICK k \in Tasks : k = turns[i].task
  BY <1>3
<1>5. attempts' = [attempts EXCEPT ![k].state = "RUNNING"] /\ attempts[k].lease = "ACTIVE"
  BY <1>2, <1>4 DEF Resumed, BindingsCurrent, AttemptOf
<1>6. /\ \A j \in TurnIds \ {i} : actions'[j] = actions[j]
      /\ actions'[i].pending = "GRANT_CONSUMED" /\ actions'[i].intent = "INTENT_RECORDED"
  BY <1>2, ActionType DEF Granted, TypeActions, Actions
<1>7. /\ \A j \in Tasks \ {k} : attempts'[j] = attempts[j]
      /\ attempts'[k].state = "RUNNING" /\ attempts'[k].lease = "ACTIVE"
  BY <1>5 DEF TypeAttempts, Attempts
<1>8. GrantInv'
  <2>1. \A n \in DOMAIN grants : grants[n].turn \in TurnIds
    BY GrantsType DEF Grants
  <2>2. /\ DOMAIN grants = 1 .. Len(grants) /\ Len(grants) \in Nat
        /\ DOMAIN grants' = 1 .. Len(grants) + 1
        /\ \A n \in DOMAIN grants : grants'[n] = grants[n]
        /\ grants'[Len(grants) + 1] = [turn |-> i, state |-> "CONSUMED"]
    BY <1>2 DEF TypeActions
  <2>3. \A n \in DOMAIN grants : grants[n].state = "CONSUMED" => grants[n].turn # i
    BY <1>3 DEF StepInv, GrantInv
  <2>4. ASSUME NEW n \in DOMAIN grants', NEW m \in DOMAIN grants',
               grants'[n] = grants'[m], grants'[n].state = "CONSUMED"
        PROVE  n = m
    <3>1. CASE n \in DOMAIN grants /\ m \in DOMAIN grants
      BY <2>2, <2>4, <3>1 DEF StepInv, GrantInv
    <3>2. CASE n \in DOMAIN grants /\ m \notin DOMAIN grants
      BY <2>2, <2>3, <2>4, <3>2
    <3>3. CASE n \notin DOMAIN grants /\ m \in DOMAIN grants
      BY <2>2, <2>3, <2>4, <3>3
    <3>4. CASE n \notin DOMAIN grants /\ m \notin DOMAIN grants
      BY <2>2, <3>4
    <3> QED
      BY <3>1, <3>2, <3>3, <3>4
  <2>5. ASSUME NEW n \in DOMAIN grants', grants'[n].state = "CONSUMED"
        PROVE  actions'[grants'[n].turn].intent # "NONE"
    <3>1. CASE n \in DOMAIN grants
      BY <1>6, <2>1, <2>2, <2>3, <2>5, <3>1 DEF StepInv, GrantInv
    <3>2. CASE n \notin DOMAIN grants
      BY <1>6, <2>2, <3>2
    <3> QED
      BY <3>1, <3>2
  <2>6. ASSUME NEW j \in TurnIds, actions'[j].intent # "NONE"
        PROVE  \E n \in DOMAIN grants' : grants'[n] = [turn |-> j, state |-> "CONSUMED"]
    <3>1. CASE j = i
      BY <2>2, <3>1
    <3>2. CASE j # i
      <4>1. PICK n \in DOMAIN grants : grants[n] = [turn |-> j, state |-> "CONSUMED"]
        BY <1>6, <2>6, <3>2 DEF StepInv, GrantInv
      <4> QED
        BY <2>2, <4>1
    <3> QED
      BY <3>1, <3>2
  <2> QED
    BY <2>4, <2>5, <2>6 DEF GrantInv, TurnIds
<1>9. WaitingInv'
  BY <1>2, <1>4, <1>6, <1>7, WaitOver DEF StepInv, Waiting
<1>10. LeasesMatchAttempts'
  BY <1>7 DEF StepInv, LeasesMatchAttempts
<1> QED
  BY <1>8, <1>9, <1>10 DEF StepInv

\* The Attempt of a turn freezes with its action: it waits for nothing else.
LEMMA FreezeStep ==
    ASSUME Inv, DecisionInv, StepInv, FreezePending
    PROVE  StepInv'
<1> USE DEF Inv, TypeOK
<1>1. /\ Cur \in DOMAIN turns /\ Cur \in TurnIds /\ turns[Cur].task \in Tasks
      /\ actions[Cur].row = "NONE" /\ Runnable(turns[Cur].task)
      /\ turns' = MarkerSettled(Cur)
  BY CurType, DecidedRecording DEF FreezePending, Recording, Recordable, Turns
<1>2. PICK k \in Tasks : k = turns[Cur].task
  BY <1>1
<1>3. SameTasks /\ \A i \in DOMAIN turns : turns'[i].task = turns[i].task
  BY <1>1, MarkerType, TasksKept DEF SameTasks
<1>4. PICK i \in TurnIds : i = Cur
  BY <1>1
<1>5. /\ \A j \in TurnIds \ {i} : actions'[j] = actions[j]
      /\ actions'[i].pending = "WAITING_APPROVAL" /\ actions'[i].intent = actions[i].intent
  BY <1>4, ActionType DEF FreezePending, TypeActions, Actions
<1>6. /\ \A j \in Tasks \ {k} : attempts'[j] = attempts[j]
      /\ attempts'[k].state = "WAITING_APPROVAL" /\ attempts'[k].lease = attempts[k].lease
  BY <1>2, <1>4 DEF FreezePending, TypeAttempts, Attempts
<1>7. SameIntents
  BY <1>5 DEF SameIntents
<1>8. GrantInv'
  BY <1>7, GrantFrame DEF StepInv, FreezePending
<1>9. LeasesMatchAttempts'
  BY <1>1, <1>2, <1>6 DEF StepInv, LeasesMatchAttempts, Runnable
<1>10. WaitingInv'
  <2>1. \A j \in TurnIds : Waiting(j) => turns[j].task # k
    BY <1>1, <1>2 DEF StepInv, WaitingInv, AttemptOf, Runnable
  <2>2. ~Waiting(i) /\ Waiting(i)' /\ turns'[i].task = k
    BY <1>1, <1>2, <1>3, <1>4, <1>5 DEF JournalInv, JournalEntry, Waiting
  <2>3. \A j \in TurnIds \ {i} : Waiting(j)' <=> Waiting(j)
    BY <1>5 DEF Waiting
  <2>4. \A j \in TurnIds : Waiting(j) => turns'[j].task = turns[j].task /\ turns[j].task \in Tasks
    BY <1>3, WaitingTurn
  <2>5. ASSUME NEW j \in TurnIds, NEW l \in TurnIds, Waiting(j)', Waiting(l)',
               turns'[j].task = turns'[l].task
        PROVE  j = l
    BY <2>1, <2>2, <2>3, <2>4, <2>5 DEF StepInv, WaitingInv
  <2>6. ASSUME NEW j \in TurnIds, Waiting(j)'
        PROVE  AttemptOf(j)'.state = "WAITING_APPROVAL"
    <3>1. CASE j = i
      BY <1>6, <2>2, <3>1 DEF AttemptOf
    <3>2. CASE j # i
      BY <1>6, <2>1, <2>3, <2>4, <2>6, <3>2 DEF StepInv, WaitingInv, AttemptOf
    <3> QED
      BY <3>1, <3>2
  <2>7. ASSUME NEW l \in Tasks, attempts'[l].state = "WAITING_APPROVAL"
        PROVE  \E j \in TurnIds : Waiting(j)' /\ turns'[j].task = l
    <3>1. CASE l = k
      BY <2>2, <3>1
    <3>2. CASE l # k
      <4>1. PICK j \in TurnIds : Waiting(j) /\ turns[j].task = l
        BY <1>6, <2>7, <3>2 DEF StepInv, WaitingInv
      <4> QED
        BY <2>2, <2>3, <2>4, <4>1
    <3> QED
      BY <3>1, <3>2
  <2> QED
    BY <2>5, <2>6, <2>7 DEF WaitingInv, TurnIds
<1> QED
  BY <1>8, <1>9, <1>10 DEF StepInv

LEMMA ConsumeInStep ==
    ASSUME Inv, DecisionInv, StepInv, Consume
    PROVE  StepInv'
<1> USE DEF Inv, TypeOK
<1>1. UNCHANGED turns => SameTasks
  BY SameTurns, TasksKept
<1>2. UNCHANGED actions => SameIntents /\ SameWaiting
  BY DEF SameIntents, SameWaiting, Waiting
<1>3. CASE RecordMalformed \/ FinishAttempt
  <2>1. /\ Cur \in DOMAIN turns /\ Cur \in TurnIds /\ turns[Cur].task \in Tasks
        /\ turns' = MarkerSettled(Cur) /\ UNCHANGED grants
    BY <1>3, CurType DEF RecordMalformed, FinishAttempt, Recording, Consuming, Turns
  <2>2. PICK k \in Tasks : k = turns[Cur].task
    BY <2>1
  <2>3. attempts[k].state = "RUNNING"
    BY <1>3, <2>2, DecidedRecording DEF RecordMalformed, Consuming, Runnable
  <2>4. PICK f \in {"SUCCEEDED", "FAILED"} :
            \/ attempts' = Ended(k, f)
            \/ attempts' = [Ended(k, f) EXCEPT ![k].task = "READY"]
    BY <1>3, <2>2 DEF RecordMalformed, FinishAttempt, FinishedState
  <2>5. /\ \A j \in Tasks \ {k} : attempts'[j] = attempts[j]
        /\ attempts'[k].state = f /\ attempts'[k].lease = "REVOKED"
    BY <2>4 DEF Ended, TypeAttempts, Attempts
  <2>6. SameIntents /\ SameWaiting
    <3>1. CASE RecordMalformed
      BY <1>2, <3>1 DEF RecordMalformed
    <3>2. CASE FinishAttempt
      <4>1. PICK i \in TurnIds : i = Cur
        BY <2>1
      <4>2. /\ \A j \in TurnIds \ {i} : actions'[j] = actions[j]
            /\ actions'[i].pending = actions[i].pending
            /\ actions'[i].intent = actions[i].intent
        BY <3>2, <4>1, ActionType DEF FinishAttempt, TypeActions, Actions
      <4> QED
        BY <4>2, OneWritten DEF Waiting
    <3> QED
      BY <1>3, <3>1, <3>2
  <2>7. SameTasks
    BY <2>1, MarkerType, TasksKept
  <2> QED
    BY <2>1, <2>3, <2>5, <2>6, <2>7, AttemptOnly
<1>4. CASE SettleDenial
  <2>1. Cur \in DOMAIN turns /\ turns' = MarkerSettled(Cur)
    BY <1>4, CurType DEF SettleDenial
  <2> QED
    BY <1>4, <2>1, MarkerType, TasksKept, QuietRows DEF SettleDenial, attemptVars
<1>5. CASE RecordIntent \/ SettleTool
  <2>1. /\ Cur \in DOMAIN turns /\ Cur \in TurnIds
        /\ UNCHANGED turns \/ turns' = MarkerSettled(Cur)
    BY <1>5, CurType DEF RecordIntent, SettleTool, Recording
  <2>2. PICK i \in TurnIds : i = Cur
    BY <2>1
  <2>3. /\ \A j \in TurnIds \ {i} : actions'[j] = actions[j]
        /\ actions'[i].pending = actions[i].pending
        /\ actions'[i].intent = actions[i].intent
    BY <1>5, <2>2, ActionType DEF RecordIntent, SettleTool, TypeActions, Actions
  <2>4. SameIntents /\ SameWaiting
    BY <2>3, OneWritten DEF Waiting
  <2>5. SameTasks
    BY <1>1, <2>1, MarkerType, TasksKept
  <2> QED
    BY <1>5, <2>4, <2>5, RowOnly DEF RecordIntent, SettleTool, attemptVars
<1>6. CASE \/ ConsumeGone \/ MalformedRaises \/ Authorize \/ RecordDenial
           \/ DenialRaises \/ DecisionRaises \/ Execute
  BY <1>1, <1>6, QuietRows
  DEF ConsumeGone, MalformedRaises, Authorize, RecordDenial, DenialRaises,
      DecisionRaises, Execute, ReadStep, attemptVars
<1> QED
  BY <1>3, <1>4, <1>5, <1>6, FreezeStep DEF Consume

LEMMA GrantedInStep ==
    ASSUME Inv, StepInv, GrantedAction
    PROVE  StepInv'
<1> USE DEF Inv, TypeOK
<1>1. UNCHANGED turns /\ SameTasks /\ UNCHANGED <<attempts, grants>>
  BY SameTurns, TasksKept, RaisingReads
  DEF GrantedAction, GrantedMismatch, ObserveGranted, DispatchGranted, Perform,
      PrestateMismatch, SettleGranted, MarkIndeterminate, ReadStep, attemptVars
<1>2. CASE UNCHANGED actions
  BY <1>1, <1>2, QuietRows
<1>3. CASE DispatchGranted \/ SettleGranted \/ MarkIndeterminate
  <2>1. pc \in GrantedPCs
    BY <1>3 DEF DispatchGranted, SettleGranted, MarkIndeterminate, GrantedPCs
  <2>2. PICK i \in TurnIds : i = Cur
    BY <2>1, GrantedCur
  <2>3. actions[i].intent # "NONE" /\ ~Waiting(i) /\ actions[i] \in Actions
    BY <2>1, <2>2, GrantedCur DEF Waiting
  <2>4. CASE actions' = [actions EXCEPT ![i].intent = "DISPATCHED"]
             \/ actions' = [actions EXCEPT ![i].intent = "INDETERMINATE"]
    <3>1. /\ \A j \in TurnIds \ {i} : actions'[j] = actions[j]
          /\ actions'[i].intent # "NONE"
          /\ actions'[i].pending = actions[i].pending
      BY <2>3, <2>4 DEF TypeActions, Actions
    <3> QED
      BY <1>1, <2>3, <3>1, OneWritten, RowOnly DEF Waiting
  <2>5. CASE actions' = [actions EXCEPT ![i].row = "SETTLED", ![i].pending = "SETTLED",
                                        ![i].intent = "SETTLED"]
    <3>1. /\ \A j \in TurnIds \ {i} : actions'[j] = actions[j]
          /\ actions'[i].intent # "NONE"
          /\ actions'[i].pending # "WAITING_APPROVAL"
      BY <2>3, <2>5 DEF TypeActions, Actions
    <3> QED
      BY <1>1, <2>3, <3>1, OneWritten, RowOnly
  <2> QED
    BY <1>2, <1>3, <2>2, <2>4, <2>5, RaisingReads
    DEF DispatchGranted, SettleGranted, MarkIndeterminate, SettleRaises
<1> QED
  BY <1>2, <1>3
  DEF GrantedAction, GrantedMismatch, ObserveGranted, Perform, PrestateMismatch, ReadStep

LEMMA StepNext ==
    ASSUME Inv, DecisionInv, StepInv, [Next]_vars
    PROVE  StepInv'
<1> USE DEF Inv, TypeOK
<1>1. UNCHANGED turns => SameTasks
  BY SameTurns, TasksKept
<1>2. UNCHANGED actions => SameIntents /\ SameWaiting
  BY DEF SameIntents, SameWaiting, Waiting
<1>3. UNCHANGED <<turns, attempts, actions, grants>> => StepInv'
  BY <1>1, QuietRows
<1>4. CASE Command
  BY <1>3, <1>4, LapseStep, GrantStep
  DEF Command, Decide, Redeliver, Handle, CommitLost, CommitRaises, RolledBack,
      CommitDenied, Receipt, attemptVars
<1>5. CASE Environment
  <2>1. ASSUME NEW k \in Tasks, LeaseExpires(k) PROVE StepInv'
    <3>1. /\ \A j \in Tasks : attempts'[j].state = attempts[j].state
                              /\ attempts'[j].lease = attempts[j].lease
          /\ UNCHANGED <<turns, actions, grants>>
      BY <2>1 DEF LeaseExpires, TypeAttempts, Attempts
    <3>2. LeasesMatchAttempts'
      BY <3>1 DEF StepInv, LeasesMatchAttempts
    <3> QED
      BY <1>1, <1>2, <3>1, <3>2, GrantFrame, WaitingFrame DEF StepInv
  <2>2. ASSUME NEW i \in TurnIds, PendingExpires(i) PROVE StepInv'
    <3>1. /\ \A j \in TurnIds \ {i} : actions'[j] = actions[j]
          /\ actions'[i].pending = actions[i].pending
          /\ actions'[i].intent = actions[i].intent
      BY <2>2, ActionType DEF PendingExpires, TypeActions, Actions
    <3>2. SameIntents /\ SameWaiting
      BY <3>1, OneWritten DEF Waiting
    <3> QED
      BY <1>1, <2>2, <3>2, RowOnly DEF PendingExpires, attemptVars
  <2> QED
    BY <1>3, <1>5, <2>1, <2>2
    DEF Environment, Replace, Continue, Fault, Crash, Edit, attemptVars
<1>6. CASE Delivery
  BY <1>3, <1>6
  DEF Delivery, ConsumePermit, InvalidatePermit, RecordFault, Stop, DeliveryLost, attemptVars
<1>7. CASE Entry
  <2>1. CASE EnterRecover
    <3>0. RecoverableTurns \in SUBSET Nat /\ RecoverableTurns \subseteq DOMAIN turns
      BY TurnsType DEF RecoverableTurns
    <3>1. PICK i \in DOMAIN turns :
              turns' = [turns EXCEPT ![i].state = "DOWNSTREAM_INTENT_RECORDED",
                                     ![i].marker = "UNSETTLED"]
      BY <2>1, <3>0, FirstType DEF EnterRecover
    <3>2. SameTasks
      BY <3>1, TurnsType DEF SameTasks, Turns
    <3> QED
      BY <2>1, <3>2, QuietRows DEF EnterRecover, attemptVars
  <2> QED
    BY <1>3, <1>7, <2>1
    DEF Entry, EnterResume, EnterGranted, EnterUnsettled, EnterBlocked, EnterDrive,
        ReadStep, attemptVars
<1>8. CASE Loop
  <2>1. ASSUME NEW k \in Tasks, LoopCreate(k) PROVE StepInv'
    <3>1. /\ attempts[k].state = "NONE"
          /\ \A j \in Tasks \ {k} : attempts'[j] = attempts[j]
          /\ attempts'[k].state = "RUNNING" /\ attempts'[k].lease = "ACTIVE"
      BY <2>1 DEF LoopCreate, AttemptFree, TypeAttempts
    <3> QED
      BY <1>1, <1>2, <2>1, <3>1, AttemptOnly DEF LoopCreate
  <2> QED
    BY <1>3, <1>8, <2>1
    DEF Loop, TimeExhausted, Leave, LoopClosed, LoopExisting, LoopNothing, LoopConflict,
        ReadStep, attemptVars
<1>9. CASE Turn
  <2>1. ASSUME NEW act \in Acts, ProviderAnswers(act) PROVE StepInv'
    <3> DEFINE turn == [task |-> hand.task, act |-> act,
                        state |-> "COMPLETION_COMMITTED", marker |-> "NONE"]
    <3>1. turns' = Append(turns, turn)
      BY <2>1 DEF ProviderAnswers
    <3> HIDE DEF turn
    <3>2. SameTasks
      BY <3>1 DEF SameTasks, TypeTurns
    <3> QED
      BY <2>1, <3>2, QuietRows DEF ProviderAnswers, attemptVars
  <2> QED
    BY <1>3, <1>9, <2>1
    DEF Turn, BeginBarrier, BarrierRaises, SettleBarrier, SettlementRaises,
         TurnRefused, TurnPaused, TurnReserved, ProviderFails, ProviderRaises,
        ReadStep, attemptVars
<1>10. CASE UNCHANGED vars
  BY <1>3, <1>10 DEF vars, attemptVars
<1> QED
  BY <1>4, <1>5, <1>6, <1>7, <1>8, <1>9, <1>10, ConsumeInStep, GrantedInStep
  DEF Next, RuntimeStep

\* AttemptsInStep: whatever is delivered twice, expires, goes stale, crashes or is
\* recovered, an action has exactly one consumed Grant once it has an intent, an
\* Attempt waits exactly as long as one action of it does, and its lease ends with
\* it (accept_pending_action_grant, _invalidate_pending_action,
\* freeze_authorized_pending_action, finish_attempt, create_attempt_with_lease).
THEOREM InStep == Spec => []AttemptsInStep
<1>1. Init => StepInv
  BY DEF Init, StepInv, GrantInv, WaitingInv, Waiting, LeasesMatchAttempts
<1>2. Inv /\ DecisionInv /\ StepInv /\ [Next]_vars => StepInv'
  BY StepNext
<1>3. Inv /\ StepInv => AttemptsInStep
  <2> SUFFICES ASSUME Inv, StepInv PROVE AttemptsInStep
    OBVIOUS
  <2>1. OneGrantPerAction
    <3> SUFFICES ASSUME NEW i \in TurnIds
                 PROVE  Cardinality({n \in DOMAIN grants :
                            grants[n] = [turn |-> i, state |-> "CONSUMED"]})
                        = IF actions[i].intent = "NONE" THEN 0 ELSE 1
      BY DEF OneGrantPerAction
    <3> DEFINE S == {n \in DOMAIN grants : grants[n] = [turn |-> i, state |-> "CONSUMED"]}
    <3>1. CASE actions[i].intent = "NONE"
      <4>1. S = {}
        BY <3>1 DEF StepInv, GrantInv
      <4> QED
        BY <3>1, <4>1, FS_EmptySet
    <3>2. CASE actions[i].intent # "NONE"
      <4>1. PICK n \in DOMAIN grants : grants[n] = [turn |-> i, state |-> "CONSUMED"]
        BY <3>2 DEF StepInv, GrantInv
      <4>2. \A m \in S : m = n
        BY <4>1 DEF StepInv, GrantInv
      <4>3. S = {n}
        BY <4>1, <4>2
      <4> QED
        BY <3>2, <4>3, FS_Singleton
    <3> QED
      BY <3>1, <3>2
  <2>2. WaitingIsFrozen
    <3> SUFFICES ASSUME NEW k \in Tasks
                 PROVE  Cardinality({i \in DOMAIN turns : turns[i].task = k /\ Waiting(i)})
                        = IF attempts[k].state = "WAITING_APPROVAL" THEN 1 ELSE 0
      BY DEF WaitingIsFrozen
    <3> DEFINE S == {i \in DOMAIN turns : turns[i].task = k /\ Waiting(i)}
    <3>0. DOMAIN turns \subseteq TurnIds
      BY TurnsType DEF Inv, TypeOK
    <3>1. CASE attempts[k].state # "WAITING_APPROVAL"
      <4>1. S = {}
        BY <3>0, <3>1 DEF StepInv, WaitingInv, AttemptOf
      <4> QED
        BY <3>1, <4>1, FS_EmptySet
    <3>2. CASE attempts[k].state = "WAITING_APPROVAL"
      <4>1. PICK i \in TurnIds : Waiting(i) /\ turns[i].task = k
        BY <3>2 DEF StepInv, WaitingInv
      <4>2. i \in S
        BY <4>1, WaitingTurn
      <4>3. \A j \in S : j = i
        BY <3>0, <4>1 DEF StepInv, WaitingInv
      <4>4. S = {i}
        BY <4>2, <4>3
      <4> QED
        BY <3>2, <4>4, FS_Singleton
    <3> QED
      BY <3>1, <3>2
  <2> QED
    BY <2>1, <2>2 DEF AttemptsInStep, StepInv
<1> QED
  BY <1>1, <1>2, <1>3, DecisionInvariant, PTL DEF Spec

-----------------------------------------------------------------------------
(* An uncertain action stops the Run *)

\* Where the runtime knows that the Run is ACTIVE.
ActivePCs == {"turn", "provider", "execute", "dispatch", "perform", "settleGranted",
              "uncertain"}

\* Where it is inside a barrier of its own.
BarrierPCs == {"reserve", "provider", "settleBarrier"}

\* What a live runtime knows of the state of the Run and of its barrier at its next
\* effect: nobody else changes them, and the permit of the delivery named the state.
UncertainInv ==
    /\ run = "INDETERMINATE" <=>
           \/ barrier = "INDETERMINATE"
           \/ \E i \in TurnIds : actions[i].intent = "INDETERMINATE"
    /\ pc \in {"entry", "granted"} => held.phase = run
    /\ pc \in ActivePCs => run = "ACTIVE"
    /\ pc \in BarrierPCs => barrier = "IN_FLIGHT"

\* The step makes no intent uncertain and settles none that is, and the runtime
\* goes where it need not know the state of the Run.
LEMMA UncertainFrame ==
    ASSUME UncertainInv, UNCHANGED <<run, barrier>>,
           \A i \in TurnIds : actions'[i].intent = "INDETERMINATE" <=>
                              actions[i].intent = "INDETERMINATE",
           \/ pc' \notin {"entry", "granted"} \cup ActivePCs \cup BarrierPCs
           \/ UNCHANGED <<pc, held>>
    PROVE  UncertainInv'
BY DEF UncertainInv

\* The step is one of a turn that the barrier is in flight for.
LEMMA BarrierFrame ==
    ASSUME UncertainInv, UNCHANGED <<barrier, actions>>, barrier = "IN_FLIGHT",
           run = "INDETERMINATE" <=> run' = "INDETERMINATE",
           pc' \in BarrierPCs, pc' = "provider" => run' = "ACTIVE"
    PROVE  UncertainInv'
BY DEF UncertainInv, ActivePCs, BarrierPCs

LEMMA UncertainNext ==
    ASSUME Inv, DecisionInv, UncertainInv, [Next]_vars
    PROVE  UncertainInv'
<1> USE DEF Inv, TypeOK
<1> DEFINE SameUncertain ==
        \A i \in TurnIds : actions'[i].intent = "INDETERMINATE" <=>
                           actions[i].intent = "INDETERMINATE"
<1>1. UNCHANGED actions => SameUncertain
  OBVIOUS
<1>2. UNCHANGED <<run, barrier, actions, pc, held>> => UncertainInv'
  BY <1>1, UncertainFrame
<1>3. ASSUME NEW i \in TurnIds, actions[i].intent # "INDETERMINATE",
             actions'[i].intent # "INDETERMINATE",
             \A j \in TurnIds \ {i} : actions'[j] = actions[j]
      PROVE  SameUncertain
  BY <1>3
<1>4. ASSUME NEW i \in TurnIds, actions'[i].intent = actions[i].intent,
             \A j \in TurnIds \ {i} : actions'[j] = actions[j]
      PROVE  SameUncertain
  BY <1>4
<1> HIDE DEF SameUncertain
<1>5. CASE Command
  <2>1. PICK t \in Threads :
          \/ \E i \in TurnIds, exact \in BOOLEAN : Decide(t, i, exact)
          \/ \E u \in Threads : Redeliver(t, u)
          \/ CommitLost(t) \/ CommitDenied(t) \/ CommitExpired(t)
          \/ CommitStale(t) \/ CommitGrant(t) \/ CommitRaises(t)
    BY <1>5 DEF Command
  <2>2. CASE \/ \E i \in TurnIds, exact \in BOOLEAN : Decide(t, i, exact)
             \/ \E u \in Threads : Redeliver(t, u)
             \/ CommitLost(t) \/ CommitDenied(t) \/ CommitRaises(t)
    BY <1>2, <2>2
    DEF Decide, Redeliver, Handle, CommitLost, CommitDenied, CommitRaises, Receipt,
        RolledBack, runVars, deliveryVars, barrierVars
  <2>3. CASE CommitExpired(t) \/ CommitStale(t)
    <3>1. PICK i \in TurnIds : Invalidated(i)
      BY <2>3, HandlerType DEF CommitExpired, CommitStale, Handlings
    <3>2. /\ actions'[i].intent = actions[i].intent
          /\ \A j \in TurnIds \ {i} : actions'[j] = actions[j]
      BY <3>1, ActionType DEF Invalidated, TypeActions, Actions
    <3>3. UNCHANGED <<run, barrier, pc, held>>
      BY <2>3 DEF CommitExpired, CommitStale, Receipt, runVars, barrierVars
    <3> QED
      BY <1>4, <3>2, <3>3, UncertainFrame DEF SameUncertain
  <2>4. CASE CommitGrant(t)
    <3>1. PICK i \in TurnIds : Waiting(i) /\ actions' = Granted(i)
      BY <2>4, HandlerType DEF CommitGrant, Handlings
    <3>2. actions[i].intent = "NONE"
      BY <3>1 DEF JournalInv, JournalEntry, Waiting
    <3>3. /\ actions'[i].intent = "INTENT_RECORDED"
          /\ \A j \in TurnIds \ {i} : actions'[j] = actions[j]
      BY <3>1, ActionType DEF Granted, TypeActions, Actions
    <3>4. UNCHANGED <<run, barrier, pc, held>>
      BY <2>4 DEF CommitGrant, Receipt, runVars, barrierVars
    <3> QED
      BY <1>3, <3>2, <3>3, <3>4, UncertainFrame DEF SameUncertain
  <2> QED
    BY <2>1, <2>2, <2>3, <2>4
<1>6. CASE Environment
  <2>1. ASSUME NEW i \in TurnIds, PendingExpires(i) PROVE UncertainInv'
    <3>1. /\ actions'[i].intent = actions[i].intent
          /\ \A j \in TurnIds \ {i} : actions'[j] = actions[j]
      BY <2>1, ActionType DEF PendingExpires, TypeActions, Actions
    <3> QED
      BY <1>4, <2>1, <3>1, UncertainFrame 
      DEF SameUncertain, PendingExpires, runVars, deliveryVars, barrierVars
  <2>2. CASE Fault \/ Crash
    BY <1>1, <2>2, UncertainFrame
    DEF SameUncertain, Fault, Crash, ActivePCs, BarrierPCs, runVars, deliveryVars,
        barrierVars
  <2> QED
    BY <1>2, <1>6, <2>1, <2>2
    DEF Environment, Replace, Continue, LeaseExpires, Edit, runVars, deliveryVars,
        barrierVars
<1>7. CASE Delivery
  <2>1. CASE ConsumePermit
    BY <2>1
    DEF ConsumePermit, Goto, UncertainInv, ActivePCs, BarrierPCs, runVars, barrierVars
  <2>2. CASE RecordFault
    BY <2>2
    DEF RecordFault, Classified, AfterFault, Goto, UncertainInv, ActivePCs, BarrierPCs
  <2>3. CASE InvalidatePermit
    BY <1>2, <2>3 DEF InvalidatePermit, Commit, runVars, barrierVars
  <2>4. CASE Stop \/ DeliveryLost
    BY <1>1, <2>4, UncertainFrame
    DEF SameUncertain, Stop, DeliveryLost, Goto, ActivePCs, BarrierPCs, runVars,
        deliveryVars, barrierVars
  <2> QED
    BY <1>7, <2>1, <2>2, <2>3, <2>4 DEF Delivery
<1>8. CASE Entry
  <2>1. CASE EnterGranted
    BY <2>1
    DEF EnterGranted, Goto, ReadStep, UncertainInv, ActivePCs, BarrierPCs, runVars,
        deliveryVars, barrierVars
  <2> QED
    BY <1>1, <1>8, <2>1, UncertainFrame
    DEF SameUncertain, Entry, EnterResume, EnterUnsettled, EnterBlocked, EnterRecover,
        EnterDrive, Goto, ReadStep, ActivePCs, BarrierPCs, runVars, deliveryVars,
        barrierVars
<1>9. CASE Loop
  <2>1. CASE LoopExisting \/ \E k \in Tasks : LoopCreate(k)
    BY <2>1
    DEF LoopExisting, LoopCreate, Schedulable, Dispatching, Goto, ReadStep, UncertainInv,
        ActivePCs, BarrierPCs, runVars, deliveryVars, barrierVars
  <2> QED
    BY <1>1, <1>9, <2>1, UncertainFrame
    DEF SameUncertain, Loop, TimeExhausted, Leave, LoopClosed, LoopNothing, LoopConflict,
        Goto, ReadStep, ActivePCs, BarrierPCs, runVars, deliveryVars, barrierVars
<1>10. CASE Turn
  <2>1. CASE BeginBarrier
    <3>1. run = "ACTIVE" /\ barrier # "INDETERMINATE"
      BY <2>1 DEF BeginBarrier, UncertainInv, ActivePCs
    <3> QED
      BY <2>1, <3>1
      DEF BeginBarrier, Goto, UncertainInv, ActivePCs, BarrierPCs, runVars
  <2>2. CASE TurnRefused \/ TurnPaused \/ TurnReserved
    <3>1. barrier = "IN_FLIGHT"
      BY <2>2 DEF TurnRefused, TurnPaused, TurnReserved, Reservable, UncertainInv, BarrierPCs
    <3>2. UNCHANGED <<barrier, actions>>
      BY <2>2 DEF TurnRefused, TurnPaused, TurnReserved, ReadStep, deliveryVars, barrierVars
    <3>3. /\ run = "INDETERMINATE" <=> run' = "INDETERMINATE"
          /\ pc' \in BarrierPCs /\ (pc' = "provider" => run' = "ACTIVE")
      BY <2>2
      DEF TurnRefused, TurnPaused, TurnReserved, Reservable, Dispatchable, ReadStep, Goto,
          BarrierPCs, runVars
    <3> QED
      BY <3>1, <3>2, <3>3, BarrierFrame
  <2>3. CASE (\E act \in Acts : ProviderAnswers(act)) \/ ProviderFails
    <3>1. barrier = "IN_FLIGHT" /\ run = "ACTIVE"
      BY <2>3 DEF ProviderAnswers, ProviderFails, Settling, UncertainInv, ActivePCs, BarrierPCs
    <3>2. UNCHANGED <<barrier, actions>>
      BY <2>3 DEF ProviderAnswers, ProviderFails, deliveryVars, barrierVars
    <3>3. run' # "INDETERMINATE" /\ pc' = "settleBarrier"
      BY <2>3, <3>1 DEF ProviderAnswers, ProviderFails, Goto
    <3> QED
      BY <3>1, <3>2, <3>3, BarrierFrame DEF BarrierPCs
  <2>4. CASE SettleBarrier
    BY <2>4
    DEF SettleBarrier, Goto, UncertainInv, ActivePCs, BarrierPCs, runVars
  <2>5. CASE BarrierRaises \/ ProviderRaises \/ SettlementRaises
    BY <1>1, <2>5, UncertainFrame
    DEF SameUncertain, BarrierRaises, ProviderRaises, SettlementRaises, Goto, ReadStep,
        ActivePCs, BarrierPCs, runVars, deliveryVars, barrierVars
  <2> QED
    BY <1>10, <2>1, <2>2, <2>3, <2>4, <2>5 DEF Turn
<1>11. CASE Consume
  <2>1. CASE FinishAttempt \/ FreezePending \/ RecordIntent \/ SettleTool
    <3>1. Cur \in TurnIds
      BY <2>1, CurType, TurnsType
      DEF FinishAttempt, FreezePending, RecordIntent, Recording, SettleTool
    <3>2. /\ actions'[Cur].intent = actions[Cur].intent
          /\ \A j \in TurnIds \ {Cur} : actions'[j] = actions[j]
      BY <2>1, <3>1, ActionType
      DEF FinishAttempt, FreezePending, RecordIntent, SettleTool, TypeActions, Actions
    <3>3. SameUncertain
      BY <1>4, <3>1, <3>2
    <3>4. CASE RecordIntent
      BY <3>3, <3>4, DecidedRecording
      DEF SameUncertain, RecordIntent, Goto, UncertainInv, ActivePCs, BarrierPCs, runVars,
          deliveryVars, barrierVars
    <3> QED
      BY <2>1, <3>3, <3>4, UncertainFrame
      DEF SameUncertain, FinishAttempt, FreezePending, SettleTool, Goto, ActivePCs,
          BarrierPCs, runVars, deliveryVars, barrierVars
  <2> QED
    BY <1>1, <1>11, <2>1, UncertainFrame
    DEF SameUncertain, Consume, ConsumeGone, RecordMalformed, MalformedRaises, Authorize,
        RecordDenial, SettleDenial, DenialRaises, DecisionRaises, Execute, Goto,
        ReadStep, ActivePCs, BarrierPCs, runVars, deliveryVars, barrierVars
<1>12. CASE GrantedAction
  <2>1. pc \in GrantedPCs =>
            /\ Cur \in TurnIds
            /\ actions[Cur].intent \in {"INTENT_RECORDED", "DISPATCHED"}
    BY GrantedCur DEF HandInv
  <2>2. CASE GrantedMismatch \/ PrestateMismatch \/ Perform
    BY <2>2
    DEF GrantedMismatch, PrestateMismatch, Perform, Goto, ReadStep, AfterMutatorError,
        UncertainInv, ActivePCs, BarrierPCs, runVars, deliveryVars, barrierVars
  <2>3. CASE ObserveGranted
    <3>1. held.phase = "ACTIVE" /\ held.phase = run /\ UNCHANGED <<run, barrier, actions, held>>
      BY <2>3
      DEF ObserveGranted, MarkerSettleable, ReadStep, UncertainInv, runVars, deliveryVars,
          barrierVars
    <3>2. pc' \in {"settleGranted", "dispatch", "uncertain"}
      BY <2>3, GrantedCur DEF ObserveGranted, Observed, Goto, GrantedPCs, TypeActions
    <3> QED
      BY <3>1, <3>2 DEF UncertainInv, ActivePCs, BarrierPCs
  <2>4. CASE DispatchGranted \/ SettleGranted
    <3>1. \/ UNCHANGED actions
          \/ /\ actions'[Cur].intent # "INDETERMINATE"
             /\ \A j \in TurnIds \ {Cur} : actions'[j] = actions[j]
      BY <2>1, <2>4, ActionType
      DEF DispatchGranted, SettleGranted, GrantedPCs, ReadStep, TypeActions, Actions
    <3>2. SameUncertain
      BY <1>1, <1>3, <2>1, <2>4, <3>1
      DEF DispatchGranted, SettleGranted, GrantedPCs
    <3> QED
      BY <2>4, <3>2
      DEF SameUncertain, DispatchGranted, SettleGranted, Goto, ReadStep, UncertainInv,
          ActivePCs, BarrierPCs, runVars, deliveryVars, barrierVars
  <2>5. CASE MarkIndeterminate
    <3>1. Cur \in TurnIds /\ actions'[Cur].intent = "INDETERMINATE"
      BY <2>1, <2>5 DEF MarkIndeterminate, GrantedPCs, TypeActions, Actions
    <3> QED
      BY <2>5, <3>1 DEF MarkIndeterminate, Goto, UncertainInv, ActivePCs, BarrierPCs
  <2> QED
    BY <1>12, <2>2, <2>3, <2>4, <2>5 DEF GrantedAction
<1>13. CASE UNCHANGED vars
  BY <1>2, <1>13 DEF vars, runVars, deliveryVars, barrierVars
<1> QED
  BY <1>5, <1>6, <1>7, <1>8, <1>9, <1>10, <1>11, <1>12, <1>13 DEF Next, RuntimeStep

\* Only these two steps of the runtime touch the workspace.
LEMMA EffectsMove ==
    ASSUME [Next]_vars, effects' # effects
    PROVE  Execute \/ Perform
<1>1. ~ UNCHANGED vars
  BY DEF vars
<1>2. ~ Command
  BY DEF Command, Decide, Redeliver, Handle, CommitLost, CommitRaises, RolledBack,
         CommitDenied, CommitExpired, CommitStale, CommitGrant, Receipt
<1>3. ~ Environment
  BY DEF Environment, Replace, Continue, Fault, Crash, LeaseExpires, PendingExpires, Edit
<1>4. ~ (Delivery \/ Entry \/ Loop \/ Turn)
  BY DEF Delivery, ConsumePermit, InvalidatePermit, RecordFault, Stop, DeliveryLost,
         Entry, EnterResume, EnterGranted, EnterUnsettled, EnterBlocked, EnterRecover,
         EnterDrive,
         Loop, TimeExhausted, Leave, LoopClosed, LoopExisting, LoopNothing, LoopCreate,
         LoopConflict,
         Turn, BeginBarrier, BarrierRaises, SettleBarrier, SettlementRaises,
         TurnRefused, TurnPaused, TurnReserved, ProviderAnswers, ProviderFails,
         ProviderRaises, ReadStep
<1>5. Consume => Execute
  BY DEF Consume, ConsumeGone, RecordMalformed, MalformedRaises, Authorize,
         RecordDenial, SettleDenial, DenialRaises, DecisionRaises, FinishAttempt,
         FreezePending, RecordIntent, SettleTool, ReadStep
<1>6. GrantedAction => Perform
  BY DEF GrantedAction, GrantedMismatch, ObserveGranted, DispatchGranted,
         PrestateMismatch, SettleGranted, MarkIndeterminate, ReadStep
<1> QED
  BY <1>1, <1>2, <1>3, <1>4, <1>5, <1>6 DEF Next, RuntimeStep

\* UncertaintyStops: the Run is INDETERMINATE exactly when a granted action is or the
\* barrier of a Worker's model call is, whichever of them came first, and no crash,
\* continue, redelivery or recovery lets anything happen to the workspace then
\* (mark_granted_action_indeterminate, record_runtime_fault_and_classify_barrier,
\* GrantedActionRuntime.execute).
THEOREM Stops == Spec => UncertaintyStops
<1> DEFINE Agree == run = "INDETERMINATE" <=>
                        \/ barrier = "INDETERMINATE"
                        \/ \E i \in TurnIds : actions[i].intent = "INDETERMINATE"
           Still == run = "INDETERMINATE" => effects' = effects
<1>1. Init => UncertainInv
  BY DEF Init, UncertainInv, ActivePCs, BarrierPCs
<1>2. Inv /\ DecisionInv /\ UncertainInv /\ [Next]_vars => UncertainInv'
  BY UncertainNext
<1>3. UncertainInv => Agree
  BY DEF UncertainInv
<1>4. UncertainInv /\ [Next]_vars => [Still]_vars
  BY EffectsMove DEF UncertainInv, ActivePCs, Execute, Perform
<1>5. UncertaintyStops <=> []Agree /\ [][Still]_vars
  BY DEF UncertaintyStops
<1> HIDE DEF Agree, Still
<1> QED
  BY <1>1, <1>2, <1>3, <1>4, <1>5, DecisionInvariant, PTL DEF Spec
=============================================================================
