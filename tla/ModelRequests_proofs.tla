-------------------------- MODULE ModelRequests_proofs --------------------------
(***************************************************************************)
(* Theorems about ModelRequests, for every set of budgets, every ceiling,   *)
(* reservation and usage, and any number of turns, commands and crashes.    *)
(*                                                                         *)
(* The inductive invariant Inv adds to the type and to the properties       *)
(*   HeldInv   at each stage of the call, what has become of the barrier    *)
(*             and of the last attempt; a reservation is charged in full,   *)
(*   FreshInv  an authorization whose sequence is still current was derived *)
(*             from the current state, so that what is committed under it   *)
(*             was checked against the counters it changes,                 *)
(*   TurnInv   the last attempt is one of the last turn,                    *)
(*   RetryInv  what the next round of the loop knows of the last attempt.   *)
(* Only the last attempt is ever written, so the steps that change one are  *)
(* summed up as Rewrites, and the one that adds one as ReserveAdds.         *)
(***************************************************************************)
EXTENDS ModelRequests, SequenceTheorems, OrderFacts, TLAPS

-----------------------------------------------------------------------------
(* The sum of the charges *)

Sums(s, g) == g = [n \in 0 .. Len(s) |-> IF n = 0 THEN 0 ELSE g[n - 1] + s[n].charged]

LEMMA SumExists ==
    ASSUME NEW s \in Seq(Attempts)
    PROVE  \E g : Sums(s, g)
<1> DEFINE Upto(n, g) ==
               g = [k \in 0 .. n |-> IF k = 0 THEN 0 ELSE g[k - 1] + s[k].charged]
           Summed == {n \in 0 .. Len(s) : \E g : Upto(n, g)}
<1>1. Len(s) \in Nat
  OBVIOUS
<1>2. 0 \in Summed
  <2> DEFINE h == [k \in 0 .. 0 |-> 0]
  <2>1. \A k \in 0 .. 0 : k = 0 /\ h[k] = 0
    OBVIOUS
  <2>2. \A k \in 0 .. 0 : h[k] = IF k = 0 THEN 0 ELSE h[k - 1] + s[k].charged
    BY <2>1
  <2>3. h = [k \in 0 .. 0 |-> IF k = 0 THEN 0 ELSE h[k - 1] + s[k].charged]
    BY <2>2
  <2>4. \E f : f = [k \in 0 .. 0 |-> IF k = 0 THEN 0 ELSE f[k - 1] + s[k].charged]
    BY <2>3, Zenon
  <2> QED
    BY <1>1, <2>4
<1>3. ASSUME NEW n \in 0 .. Len(s) - 1, n \in Summed PROVE n + 1 \in Summed
  <2>1. PICK g : Upto(n, g)
    BY <1>3
  <2> DEFINE h == [k \in 0 .. n + 1 |-> IF k = n + 1 THEN g[n] + s[n + 1].charged ELSE g[k]]
  <2>2. \A k \in 0 .. n + 1 : h[k] = IF k = 0 THEN 0 ELSE h[k - 1] + s[k].charged
    <3> SUFFICES ASSUME NEW k \in 0 .. n + 1
                 PROVE  h[k] = IF k = 0 THEN 0 ELSE h[k - 1] + s[k].charged
      OBVIOUS
    <3>1. CASE k = n + 1
      <4>1. k # 0 /\ k - 1 = n /\ n \in 0 .. n + 1 /\ n # n + 1
        BY <3>1
      <4> QED
        BY <3>1, <4>1
    <3>2. CASE k # n + 1
      <4>1. k \in 0 .. n /\ (k # 0 => k - 1 \in 0 .. n + 1 /\ k - 1 # n + 1)
        BY <3>2
      <4>2. g[k] = IF k = 0 THEN 0 ELSE g[k - 1] + s[k].charged
        BY <2>1, <4>1
      <4> QED
        BY <3>2, <4>1, <4>2
    <3> QED
      BY <3>1, <3>2
  <2>3. h = [k \in 0 .. n + 1 |-> IF k = 0 THEN 0 ELSE h[k - 1] + s[k].charged]
    BY <2>2
  <2>4. \E f : f = [k \in 0 .. n + 1 |-> IF k = 0 THEN 0 ELSE f[k - 1] + s[k].charged]
    BY <2>3, Zenon
  <2> QED
    BY <1>1, <2>4
<1> HIDE DEF Summed
<1>4. \A n \in 0 .. Len(s) : n \in Summed
  <2>1. \A n \in 0 .. Len(s) - 1 : n \in Summed => n + 1 \in Summed
    BY <1>3
  <2> QED
    BY <1>1, <1>2, <2>1, UpTo, Zenon
<1>5. Len(s) \in Summed
  BY <1>1, <1>4
<1> QED
  BY <1>5, Zenon DEF Summed, Sums

LEMMA SumSteps ==
    ASSUME NEW s \in Seq(Attempts), NEW g, Sums(s, g)
    PROVE  g[0] = 0 /\ \A n \in 1 .. Len(s) : g[n] = g[n - 1] + s[n].charged
<1>1. \A n \in 0 .. Len(s) : g[n] = IF n = 0 THEN 0 ELSE g[n - 1] + s[n].charged
  BY Zenon DEF Sums
<1> QED
  BY <1>1

LEMMA ChargesSum ==
    ASSUME NEW s \in Seq(Attempts)
    PROVE  \E g : Sums(s, g) /\ ChargesOf(s) = g[Len(s)]
<1>1. Sums(s, CHOOSE g : Sums(s, g))
  BY SumExists, Zenon
<1>2. ChargesOf(s) = (CHOOSE g : Sums(s, g))[Len(s)]
  BY Zenon DEF ChargesOf, Sums
<1> QED
  BY <1>1, <1>2

\* Sequences with the same charges up to n have the same sums up to n.
LEMMA SumsAgree ==
    ASSUME NEW s \in Seq(Attempts), NEW t \in Seq(Attempts), NEW g, NEW h,
           Sums(s, g), Sums(t, h), NEW n \in Nat, n <= Len(s), n <= Len(t),
           \A i \in 1 .. n : s[i].charged = t[i].charged
    PROVE  g[n] = h[n] /\ g[n] \in Nat
<1> DEFINE Same == {k \in 0 .. n : g[k] = h[k] /\ g[k] \in Nat}
<1>1. 0 \in Same
  BY SumSteps
<1>2. ASSUME NEW k \in 0 .. n - 1, k \in Same PROVE k + 1 \in Same
  <2>1. k + 1 \in 1 .. n /\ k + 1 \in 1 .. Len(s) /\ k + 1 \in 1 .. Len(t) /\ k + 1 - 1 = k
    OBVIOUS
  <2>2. g[k + 1] = g[k] + s[k + 1].charged /\ h[k + 1] = h[k] + t[k + 1].charged
    BY <2>1, SumSteps
  <2>3. s[k + 1].charged \in Nat /\ s[k + 1].charged = t[k + 1].charged
    <3>1. s[k + 1] \in Attempts
      BY <2>1
    <3> QED
      BY <2>1, <3>1 DEF Attempts
  <2> QED
    BY <1>2, <2>1, <2>2, <2>3
<1> HIDE DEF Same
<1>3. \A k \in 0 .. n : k \in Same
  <2>1. \A k \in 0 .. n - 1 : k \in Same => k + 1 \in Same
    BY <1>2
  <2> QED
    BY <1>1, <2>1, UpTo, Zenon
<1> QED
  BY <1>3 DEF Same

LEMMA ChargesEmpty == ChargesOf(<<>>) = 0
<1>1. <<>> \in Seq(Attempts) /\ Len(<<>>) = 0
  OBVIOUS
<1> QED
  BY <1>1, ChargesSum, SumSteps

\* The sum up to the last attempt, and the charge of the last.
LEMMA ChargesSplit ==
    ASSUME NEW s \in Seq(Attempts), NEW t \in Seq(Attempts), Len(t) = Len(s) + 1,
           \A i \in 1 .. Len(s) : s[i].charged = t[i].charged
    PROVE  /\ ChargesOf(s) \in Nat
           /\ ChargesOf(t) = ChargesOf(s) + t[Len(t)].charged
<1>1. PICK g : Sums(s, g) /\ ChargesOf(s) = g[Len(s)]
  BY ChargesSum
<1>2. PICK h : Sums(t, h) /\ ChargesOf(t) = h[Len(t)]
  BY ChargesSum
<1>3. Len(s) \in Nat /\ Len(s) <= Len(t) /\ Len(t) \in 1 .. Len(t) /\ Len(t) - 1 = Len(s)
  OBVIOUS
<1>4. g[Len(s)] = h[Len(s)] /\ g[Len(s)] \in Nat
  BY <1>1, <1>2, <1>3, SumsAgree
<1>5. h[Len(t)] = h[Len(t) - 1] + t[Len(t)].charged
  BY <1>2, <1>3, SumSteps
<1> QED
  BY <1>1, <1>2, <1>3, <1>4, <1>5

\* Two sequences that differ in the last charge only
LEMMA ChargesLast ==
    ASSUME NEW s \in Seq(Attempts), NEW t \in Seq(Attempts),
           Len(t) = Len(s), Len(s) # 0,
           \A i \in 1 .. Len(s) - 1 : s[i].charged = t[i].charged
    PROVE  \E rest \in Nat : /\ ChargesOf(s) = rest + s[Len(s)].charged
                             /\ ChargesOf(t) = rest + t[Len(t)].charged
<1>1. PICK g : Sums(s, g) /\ ChargesOf(s) = g[Len(s)]
  BY ChargesSum
<1>2. PICK h : Sums(t, h) /\ ChargesOf(t) = h[Len(t)]
  BY ChargesSum
<1>3. Len(s) - 1 \in Nat /\ Len(s) - 1 <= Len(s) /\ Len(s) \in 1 .. Len(s)
  OBVIOUS
<1>4. g[Len(s) - 1] = h[Len(s) - 1] /\ g[Len(s) - 1] \in Nat
  <2>1. PICK n \in Nat : n = Len(s) - 1
    BY <1>3
  <2>2. n <= Len(s) /\ n <= Len(t)
    BY <1>3, <2>1
  <2>3. \A i \in 1 .. n : s[i].charged = t[i].charged
    BY <2>1
  <2>4. g[n] = h[n] /\ g[n] \in Nat
    BY <1>1, <1>2, <2>2, <2>3, SumsAgree
  <2> QED
    BY <2>1, <2>4
<1>5. /\ g[Len(s)] = g[Len(s) - 1] + s[Len(s)].charged
      /\ h[Len(s)] = h[Len(s) - 1] + t[Len(s)].charged
  BY <1>1, <1>2, <1>3, SumSteps
<1> QED
  BY <1>1, <1>2, <1>4, <1>5

-----------------------------------------------------------------------------
(* The inductive invariant *)

LastAttempt == attempts[Len(attempts)]

\* Between the begin and the settlement of a barrier.
InBarrier == {"reserve", "commit", "provider", "settle", "settleBarrier"}

\* A reservation that waits for its outcome is the last one, under a barrier
\* that no later call gets past.
HeldInv ==
    /\ pc # "idle" => bound \in Budgets
    /\ pc \in InBarrier => barrier = "IN_FLIGHT"
    /\ pc \in {"provider", "settle"} =>
           attempts # <<>> /\ LastAttempt.state = "RESERVED" /\ verdict = "AUTHORIZED"
    /\ pc \in {"reserve", "commit", "settleBarrier", "backoff"} =>
           \A i \in DOMAIN attempts : attempts[i].state # "RESERVED"
    /\ barrier = "INDETERMINATE" => "RUNTIME_FAULT" \in causes
    /\ UnsettledIsHeld
    /\ \A i \in DOMAIN attempts :
           attempts[i].state = "RESERVED" => attempts[i].charged = ReservedUnits

Permitted == /\ causes = {} /\ bound = approved /\ bound = current
             /\ ~TrancheIsSpent /\ ~CallsAreFull /\ ~UnitsAreFull

\* An authorization that is still in time was derived from the current state.
FreshInv ==
    /\ pc = "commit" => snap # "unread"
    /\ pc = "commit" /\ snap = "fresh" /\ verdict = "AUTHORIZED" => Permitted

\* The last attempt is one of the last turn.
TurnInv ==
    attempts # <<>> =>
        /\ turns # <<>> /\ LastAttempt.turn = Len(turns)
        /\ \A i \in DOMAIN attempts : attempts[i].turn <= Len(turns)

\* What the next round of the loop relies on.
RetryInv ==
    /\ pc \in {"begin", "reserve", "commit"} /\ number > 1 =>
           /\ attempts # <<>> /\ LastAttempt.state = "KNOWN_CLOSED_REJECTION"
           /\ LastAttempt.backoff /\ LastAttempt.number = number - 1
    /\ pc \in {"provider", "settle"} => attempts # <<>> /\ LastAttempt.number = number
    /\ pc = "settleBarrier" /\ verdict = "AUTHORIZED" =>
           /\ attempts # <<>> /\ LastAttempt.state = answer.kind
           /\ LastAttempt.number = number
    /\ pc = "backoff" =>
           /\ attempts # <<>> /\ LastAttempt.state = "KNOWN_CLOSED_REJECTION"
           /\ LastAttempt.number = number /\ number <= RetryCeiling

Inv ==
    /\ TypeOK /\ ChargedOnce /\ HeldInv /\ FreshInv /\ TurnInv /\ RetryInv
    /\ RetriedWhenRejected /\ CommittedByItsLast /\ CeilingsHold

-----------------------------------------------------------------------------
(* The transactions that write the attempts *)

States == {"OPEN", "COMPLETION_COMMITTED"}

LEMMA TurnsType ==
    ASSUME TypeTurns
    PROVE  /\ Len(attempts) \in Nat /\ DOMAIN attempts = 1 .. Len(attempts)
           /\ Len(turns) \in Nat /\ DOMAIN turns = 1 .. Len(turns)
           /\ \A i \in DOMAIN attempts : attempts[i] \in Attempts
           /\ \A t \in DOMAIN turns : turns[t] \in States
           /\ attempts # <<>> <=> Len(attempts) # 0
           /\ turns # <<>> <=> Len(turns) # 0
BY DEF TypeTurns, States

LEMMA ReserveEffect ==
    ASSUME TypeOK, bound \in Budgets, ReserveAttempt
    PROVE  /\ attempts' \in Seq(Attempts) /\ Len(attempts') = Len(attempts) + 1
           /\ \A i \in DOMAIN attempts : attempts'[i] = attempts[i]
           /\ attempts'[Len(attempts')] = NewAttempt(Len(turns'))
           /\ turns' \in Seq(States)
           /\ \A t \in DOMAIN turns : turns'[t] = turns[t]
           /\ number = 1 => Len(turns') = Len(turns) + 1 /\ turns'[Len(turns')] = "OPEN"
           /\ number # 1 => turns' = turns /\ turns[Len(turns)] = "OPEN"
<1>1. turns \in Seq(States) /\ Len(turns) \in Nat /\ DOMAIN turns = 1 .. Len(turns)
  BY TurnsType DEF TypeOK, TypeTurns, States
<1>2. /\ turns' \in Seq(States)
      /\ \A t \in DOMAIN turns : turns'[t] = turns[t]
      /\ number = 1 => Len(turns') = Len(turns) + 1 /\ turns'[Len(turns')] = "OPEN"
      /\ number # 1 => turns' = turns /\ turns[Len(turns)] = "OPEN"
  <2>1. CASE number = 1
    <3>1. turns' = Append(turns, "OPEN")
      BY <2>1 DEF ReserveAttempt
    <3> QED
      BY <1>1, <2>1, <3>1 DEF States
  <2>2. CASE number # 1
    BY <1>1, <2>2 DEF ReserveAttempt, Last
  <2> QED
    BY <2>1, <2>2
<1>3. Len(turns') \in Nat
  BY <1>2
<1>4. NewAttempt(Len(turns')) \in Attempts
  BY <1>3, ModelRequestsAssumption DEF NewAttempt, Attempts, TypeOK, TypeProcess, RetryCeiling
<1>5. attempts' = Append(attempts, NewAttempt(Len(turns')))
  BY DEF ReserveAttempt
<1>6. attempts \in Seq(Attempts)
  BY DEF TypeOK, TypeTurns
<1>7. /\ attempts' \in Seq(Attempts) /\ Len(attempts') = Len(attempts) + 1
      /\ \A i \in DOMAIN attempts : attempts'[i] = attempts[i]
      /\ attempts'[Len(attempts')] = NewAttempt(Len(turns'))
  BY <1>4, <1>5, <1>6
<1> QED
  BY <1>2, <1>7

LEMMA SettleEffect ==
    ASSUME TypeOK, SettleAttempt, attempts # <<>>, LastAttempt.budget = approved
    PROVE  /\ attempts' \in Seq(Attempts) /\ Len(attempts') = Len(attempts)
           /\ \A i \in DOMAIN attempts : i # Len(attempts) => attempts'[i] = attempts[i]
           /\ LastAttempt' = [LastAttempt EXCEPT !.state = answer.kind,
                                                 !.charged = answer.charged]
<1> DEFINE last == Len(attempts)
           a == [LastAttempt EXCEPT !.state = answer.kind]
           b == [a EXCEPT !.charged = answer.charged]
<1>1. attempts \in Seq(Attempts) /\ last \in DOMAIN attempts /\ LastAttempt \in Attempts
  BY TurnsType DEF TypeOK, TypeTurns, LastAttempt
<1>2. answer.kind \in Outcomes /\ answer.charged \in Nat
  BY DEF TypeOK, TypeProcess
<1>3. a \in Attempts /\ b \in Attempts
  BY <1>1, <1>2 DEF Attempts
<1>4. attempts' = [attempts EXCEPT ![last] = b]
  <2>1. attempts' = [attempts EXCEPT ![last].state = answer.kind,
                                     ![last].charged = answer.charged]
    BY DEF SettleAttempt, Last, LastAttempt
  <2> QED
    BY <1>1, <2>1 DEF LastAttempt
<1> HIDE DEF b
<1>5. /\ attempts' \in Seq(Attempts) /\ Len(attempts') = last
      /\ \A i \in DOMAIN attempts : attempts'[i] = IF i = last THEN b ELSE attempts[i]
  BY <1>1, <1>3, <1>4
<1> QED
  BY <1>1, <1>5 DEF LastAttempt, b

LEMMA BackoffEffect ==
    ASSUME TypeOK, RecordBackoff, attempts # <<>>
    PROVE  /\ attempts' \in Seq(Attempts) /\ Len(attempts') = Len(attempts)
           /\ \A i \in DOMAIN attempts : i # Len(attempts) => attempts'[i] = attempts[i]
           /\ LastAttempt' = [LastAttempt EXCEPT !.backoff = TRUE]
<1> DEFINE last == Len(attempts)
           b == [LastAttempt EXCEPT !.backoff = TRUE]
<1>1. attempts \in Seq(Attempts) /\ last \in DOMAIN attempts /\ LastAttempt \in Attempts
  BY TurnsType DEF TypeOK, TypeTurns, LastAttempt
<1>2. b \in Attempts
  BY <1>1 DEF Attempts
<1>3. attempts' = [attempts EXCEPT ![last] = b]
  BY <1>1 DEF RecordBackoff, LastAttempt
<1> HIDE DEF b
<1>4. /\ attempts' \in Seq(Attempts) /\ Len(attempts') = last
      /\ \A i \in DOMAIN attempts : attempts'[i] = IF i = last THEN b ELSE attempts[i]
  BY <1>1, <1>2, <1>3
<1> QED
  BY <1>1, <1>4 DEF LastAttempt, b

LEMMA AttemptsChange ==
    ASSUME [Next]_vars
    PROVE  \/ ReserveAttempt \/ RecordBackoff
           \/ SettleAttempt /\ LastAttempt.budget = approved
           \/ UNCHANGED <<attempts, turns>>
<1>1. CASE ReadSequence \/ SequenceConflict \/ StartTurn \/ BeginBarrier
  BY <1>1 DEF ReadSequence, SequenceConflict, Raise, StartTurn, BeginBarrier
<1>2. CASE EvaluateReservation \/ PauseForCeiling \/ ProviderAnswers
  BY <1>2 DEF EvaluateReservation, PauseForCeiling, ProviderAnswers
<1>3. CASE SettleBarrier \/ RecordFault \/ FaultUnrecorded \/ StopRaises \/ Crash
  BY <1>3 DEF SettleBarrier, Raise, RecordFault, FaultUnrecorded, StopRaises, Crash
<1>4. CASE OwnerStep
  BY <1>4 DEF OwnerStep, ProposeBudget, ApproveBudget, OtherCommand, Continue, PlanAgain
<1>5. CASE SettleAttempt /\ LastAttempt.budget # approved
  BY <1>5 DEF SettleAttempt, LastAttempt, Last, Raise
<1>6. CASE UNCHANGED vars
  BY <1>6 DEF vars
<1> QED
  BY <1>1, <1>2, <1>3, <1>4, <1>5, <1>6 DEF Next, DeliveryStep, LiveStep

-----------------------------------------------------------------------------
(* Types *)

LEMMA InitType == Init => TypeOK
<1> SUFFICES ASSUME Init PROVE TypeOK
  OBVIOUS
<1>1. TypeRun /\ TypeBounds
  BY ModelRequestsAssumption DEF Init, TypeRun, TypeBounds
<1>2. TypeCounters
  BY ModelRequestsAssumption DEF Init, TypeCounters
<1>3. TypeTurns
  BY DEF Init, TypeTurns
<1>4. TypeProcess
  BY ModelRequestsAssumption DEF Init, TypeProcess, NoAnswer, Stages, Ceilings, Denials,
                                 Outcomes, RetryCeiling
<1> QED
  BY <1>1, <1>2, <1>3, <1>4 DEF TypeOK

LEMMA Frame ==
    /\ TypeRun /\ UNCHANGED <<runVars, causes, barrier>> => TypeRun'
    /\ TypeCounters /\ UNCHANGED <<counterVars, usageVars>> => TypeCounters'
    /\ TypeTurns /\ UNCHANGED <<turns, attempts>> => TypeTurns'
    /\ TypeProcess /\ UNCHANGED <<pc, snap, localVars>> => TypeProcess'
    /\ TypeBounds /\ UNCHANGED outerVars => TypeBounds'
BY DEF TypeRun, TypeCounters, TypeTurns, TypeProcess, TypeBounds, runVars, counterVars,
       usageVars, localVars, outerVars, deathVars

\* What a settlement of usage may write, for use that is a number.
LEMMA UsageType ==
    ASSUME TypeRun, TypeCounters, NEW b \in Budgets, NEW ms \in SUBSET Metrics,
           NEW used, \A m \in ms : used[m] \in Nat, SettleUsage(b, ms, used)
    PROVE  /\ usage' \in [Metrics -> Nat] /\ warned' \subseteq Budgets \X Metrics
           /\ causes' \subseteq {"BUDGET_EXHAUSTED", "RUNTIME_FAULT"}
           /\ causes \subseteq causes'
BY DEF SettleUsage, TypeRun, TypeCounters

LEMMA EvaluateType == Evaluate \in Ceilings \cup Denials \cup {"AUTHORIZED"}
BY DEF Evaluate, Ceilings, Denials

LEMMA RaiseType == TypeOK /\ Raise /\ UNCHANGED outerVars => TypeOK'
<1> SUFFICES ASSUME TypeOK, Raise, UNCHANGED outerVars PROVE TypeOK'
  OBVIOUS
<1>1. TypeProcess'
  BY DEF TypeOK, TypeProcess, Raise, Stages, localVars
<1> QED
  BY <1>1, Frame DEF TypeOK, Raise

LEMMA StepType == Inv /\ [Next]_vars => TypeOK'
<1> SUFFICES ASSUME Inv, [Next]_vars PROVE TypeOK'
  OBVIOUS
<1> USE Frame DEF TypeOK
<1>a. TypeOK
  BY DEF Inv
<1>1. CASE ReadSequence \/ FaultUnrecorded \/ StopRaises \/ Crash
  <2>1. TypeProcess'
    BY <1>1, <1>a DEF ReadSequence, FaultUnrecorded, StopRaises, Crash, TypeProcess, Stages, localVars
  <2>2. TypeBounds'
    BY <1>1, <1>a, ModelRequestsAssumption
       DEF ReadSequence, FaultUnrecorded, StopRaises, Crash, TypeBounds, outerVars, deathVars
  <2> QED
    BY <1>1, <1>a, <2>1, <2>2 DEF ReadSequence, FaultUnrecorded, StopRaises, Crash
<1>2. CASE SequenceConflict
  BY <1>2, <1>a, RaiseType DEF SequenceConflict
<1>3. CASE StartTurn
  <2>1. TypeProcess'
    BY <1>3, <1>a DEF StartTurn, TypeProcess, TypeRun, Stages, NoAnswer, Outcomes,
                      Ceilings, Denials, RetryCeiling
  <2> QED
    BY <1>3, <1>a, <2>1 DEF StartTurn
<1>4. CASE BeginBarrier
  <2>1. CASE Raise
    BY <1>4, <1>a, <2>1, RaiseType DEF BeginBarrier
  <2>2. CASE ~Raise
    <3>1. TypeProcess' /\ TypeRun'
      BY <1>4, <1>a, <2>2 DEF BeginBarrier, TypeProcess, TypeRun, Stages, runVars, localVars
    <3> QED
      BY <1>4, <1>a, <2>2, <3>1 DEF BeginBarrier
  <2> QED
    BY <2>1, <2>2
<1>5. CASE EvaluateReservation
  <2>1. TypeProcess'
    BY <1>5, <1>a, EvaluateType DEF EvaluateReservation, TypeProcess, Stages
  <2> QED
    BY <1>5, <1>a, <2>1 DEF EvaluateReservation
<1>6. CASE PauseForCeiling
  <2>1. TypeProcess' /\ TypeRun'
    BY <1>6, <1>a DEF PauseForCeiling, TypeProcess, TypeRun, Stages, localVars
  <2> QED
    BY <1>6, <1>a, <2>1 DEF PauseForCeiling
<1>7. CASE ReserveAttempt
  <2>1. bound \in Budgets /\ (owner = "WORKER" => tranche >= 1)
    BY <1>7, <1>a DEF ReserveAttempt, Ready, Inv, HeldInv, FreshInv, Permitted,
                      TrancheIsSpent, TypeCounters
  <2>2. TypeTurns'
    BY <1>7, <1>a, <2>1, ReserveEffect DEF TypeTurns, States
  <2>3. {calls', units', planning', tranche', planning + 1} \subseteq Nat
    <3>1. calls \in Nat /\ units \in Nat /\ planning \in Nat /\ tranche \in Nat
          /\ ReservedUnits \in Nat /\ owner \in {"PLANNING", "WORKER"}
      BY <1>a, ModelRequestsAssumption DEF TypeCounters, TypeProcess
    <3>2. calls' = calls + 1 /\ units' = units + ReservedUnits
          /\ planning' \in {planning, planning + 1}
      BY <1>7 DEF ReserveAttempt
    <3>3. tranche' \in Nat
      BY <1>7, <2>1, <3>1 DEF ReserveAttempt
    <3> QED
      BY <3>1, <3>2, <3>3
  <2>4. /\ usage' \in [Metrics -> Nat] /\ warned' \subseteq Budgets \X Metrics
        /\ causes' \subseteq {"BUDGET_EXHAUSTED", "RUNTIME_FAULT"}
    <3> DEFINE ms == IF owner = "PLANNING" /\ number = 1 THEN Metrics
                     ELSE {"MODEL_CALLS", "UNITS"}
               used == [m \in Metrics |-> CASE m = "PLANNING_REQUESTS" -> planning + 1
                                            [] m = "MODEL_CALLS"       -> calls'
                                            [] m = "UNITS"             -> units']
    <3>1. SettleUsage(bound, ms, used)
      BY <1>7 DEF ReserveAttempt
    <3>2. ms \in SUBSET Metrics /\ \A m \in ms : used[m] \in Nat
      BY <2>3 DEF Metrics
    <3> HIDE DEF ms, used
    <3> QED
      BY <1>a, <2>1, <3>1, <3>2, UsageType
  <2>5. TypeCounters'
    BY <2>3, <2>4 DEF TypeCounters
  <2>6. TypeRun'
    BY <1>7, <1>a, <2>4 DEF ReserveAttempt, TypeRun, runVars
  <2>7. TypeProcess'
    BY <1>7, <1>a DEF ReserveAttempt, TypeProcess, localVars
  <2> QED
    BY <1>7, <1>a, <2>2, <2>5, <2>6, <2>7 DEF ReserveAttempt
<1>8. CASE ProviderAnswers
  <2>1. TypeProcess'
    BY <1>8, <1>a, ModelRequestsAssumption DEF ProviderAnswers, TypeProcess, Stages
  <2> QED
    BY <1>8, <1>a, <2>1 DEF ProviderAnswers
<1>9. CASE SettleAttempt
  <2>1. CASE Raise
    BY <1>9, <1>a, <2>1, RaiseType DEF SettleAttempt
  <2>2. CASE ~Raise
    <3>1. /\ attempts # <<>> /\ LastAttempt.budget = approved
          /\ LastAttempt.charged = ReservedUnits
      BY <1>9, <1>a, <2>2, TurnsType DEF SettleAttempt, Ready, Inv, HeldInv, LastAttempt, Last
    <3>2. attempts' \in Seq(Attempts) /\ turns' \in Seq(States)
      <4>1. attempts' \in Seq(Attempts)
        BY <1>9, <1>a, <3>1, SettleEffect
      <4>2. turns \in Seq(States) /\ "COMPLETION_COMMITTED" \in States
        BY <1>a DEF TypeTurns, States
      <4>3. turns' \in {turns, [turns EXCEPT ![Len(turns)] = "COMPLETION_COMMITTED"]}
        BY <1>9, <2>2 DEF SettleAttempt
      <4> QED
        BY <4>1, <4>2, <4>3
    <3>3. units' \in Nat
      <4>1. PICK rest \in Nat : ChargesOf(attempts) = rest + LastAttempt.charged
        BY <1>a, <3>1, TurnsType, ChargesLast DEF TypeTurns, LastAttempt
      <4>2. units = rest + ReservedUnits
        BY <1>a, <3>1, <4>1 DEF Inv, ChargedOnce
      <4>3. ReservedUnits \in Nat /\ answer.charged \in Nat
        BY <1>a, ModelRequestsAssumption DEF TypeProcess
      <4>4. units' = units - ReservedUnits + answer.charged
        BY <1>9, <2>2 DEF SettleAttempt, Settled
      <4> QED
        BY <4>2, <4>3, <4>4
    <3>4. /\ usage' \in [Metrics -> Nat] /\ warned' \subseteq Budgets \X Metrics
          /\ causes' \subseteq {"BUDGET_EXHAUSTED", "RUNTIME_FAULT"}
      <4> DEFINE used == [m \in Metrics |-> IF m = "UNITS" THEN units' ELSE calls]
      <4>1. SettleUsage(approved, {"MODEL_CALLS", "UNITS"}, used)
        BY <1>9, <2>2 DEF SettleAttempt
      <4>2. /\ {"MODEL_CALLS", "UNITS"} \in SUBSET Metrics
            /\ \A m \in {"MODEL_CALLS", "UNITS"} : used[m] \in Nat
        BY <1>a, <3>3 DEF Metrics, TypeCounters
      <4> HIDE DEF used
      <4>3. approved \in Budgets
        BY <1>a DEF TypeRun
      <4> QED
        BY <1>a, <4>1, <4>2, <4>3, UsageType
    <3>5. TypeCounters'
      BY <1>9, <1>a, <2>2, <3>3, <3>4 DEF SettleAttempt, TypeCounters
    <3>6. TypeRun' /\ TypeProcess'
      BY <1>9, <1>a, <2>2, <3>4 DEF SettleAttempt, TypeRun, TypeProcess, Stages, runVars,
                                    localVars
    <3> QED
      BY <1>9, <1>a, <3>2, <3>5, <3>6 DEF SettleAttempt, TypeTurns, States
  <2> QED
    BY <2>1, <2>2
<1>10. CASE SettleBarrier
  <2>1. CASE Raise
    BY <1>10, <1>a, <2>1, RaiseType DEF SettleBarrier
  <2>2. CASE ~Raise
    <3> DEFINE used == [m \in Metrics |-> calls]
    <3>1. SettleUsage(current, {"MODEL_CALLS"}, used)
      BY <1>10, <2>2 DEF SettleBarrier
    <3>2. /\ {"MODEL_CALLS"} \in SUBSET Metrics /\ current \in Budgets
          /\ \A m \in {"MODEL_CALLS"} : used[m] \in Nat
      BY <1>a DEF Metrics, TypeCounters, TypeRun
    <3> HIDE DEF used
    <3>3. /\ usage' \in [Metrics -> Nat] /\ warned' \subseteq Budgets \X Metrics
          /\ causes' \subseteq {"BUDGET_EXHAUSTED", "RUNTIME_FAULT"}
      BY <1>a, <3>1, <3>2, UsageType
    <3>4. TypeCounters'
      BY <1>10, <1>a, <2>2, <3>3 DEF SettleBarrier, TypeCounters, counterVars
    <3>5. TypeRun' /\ TypeProcess'
      BY <1>10, <1>a, <2>2, <3>3 DEF SettleBarrier, TypeRun, TypeProcess, Stages, runVars,
                                     localVars
    <3> QED
      BY <1>10, <1>a, <2>2, <3>4, <3>5 DEF SettleBarrier
  <2> QED
    BY <2>1, <2>2
<1>11. CASE RecordBackoff
  <2>1. attempts # <<>> /\ number <= RetryCeiling
    BY <1>11 DEF RecordBackoff, Ready, Inv, RetryInv
  <2>2. TypeTurns'
    BY <1>11, <1>a, <2>1, BackoffEffect DEF RecordBackoff, TypeTurns
  <2>3. TypeProcess'
    BY <1>11, <1>a, <2>1 DEF RecordBackoff, TypeProcess, Stages, RetryCeiling
  <2> QED
    BY <1>11, <1>a, <2>2, <2>3 DEF RecordBackoff
<1>12. CASE RecordFault
  <2>1. TypeRun' /\ TypeProcess'
    BY <1>12, <1>a DEF RecordFault, TypeRun, TypeProcess, Stages, localVars
  <2> QED
    BY <1>12, <1>a, <2>1 DEF RecordFault
<1>13. CASE OwnerStep
  <2>1. TypeRun'
    BY <1>13, <1>a DEF OwnerStep, ProposeBudget, ApproveBudget, OtherCommand, Continue, PlanAgain,
                       TypeRun, runVars
  <2>2. TypeProcess'
    BY <1>13, <1>a DEF OwnerStep, ProposeBudget, ApproveBudget, OtherCommand, Continue, PlanAgain,
                       Committed, TypeProcess, localVars
  <2>3. TypeBounds'
    BY <1>13, <1>a, ModelRequestsAssumption
       DEF OwnerStep, ProposeBudget, ApproveBudget, OtherCommand, Continue, PlanAgain, TypeBounds,
           outerVars, deathVars
  <2> QED
    BY <1>13, <1>a, <2>1, <2>2, <2>3
       DEF OwnerStep, ProposeBudget, ApproveBudget, OtherCommand, Continue, PlanAgain
<1>14. CASE UNCHANGED vars
  BY <1>14, <1>a DEF vars
<1> QED
  BY <1>1, <1>2, <1>3, <1>4, <1>5, <1>6, <1>7, <1>8, <1>9, <1>10, <1>11, <1>12, <1>13,
     <1>14 DEF Next, DeliveryStep, LiveStep

-----------------------------------------------------------------------------
(* One charge for each attempt *)

\* A settlement that the store accepts is of the reservation that is held.
LEMMA SettledIsHeld ==
    ASSUME Inv, SettleAttempt
    PROVE  /\ attempts # <<>> /\ LastAttempt.state = "RESERVED"
           /\ LastAttempt.charged = ReservedUnits /\ LastAttempt \in Attempts
           /\ LastAttempt.number = number /\ Len(attempts) \in DOMAIN attempts
           /\ pc = "settle"
BY TurnsType DEF SettleAttempt, Ready, Inv, HeldInv, RetryInv, LastAttempt, TypeOK

\* The steps that leave every count alone.
LEMMA CountersChange ==
    ASSUME [Next]_vars
    PROVE  \/ ReserveAttempt \/ RecordBackoff
           \/ SettleBarrier /\ ~Raise
           \/ SettleAttempt /\ LastAttempt.budget = approved
           \/ UNCHANGED <<attempts, turns, counterVars, usageVars>>
<1>1. CASE ReadSequence \/ SequenceConflict \/ StartTurn \/ BeginBarrier
  BY <1>1 DEF ReadSequence, SequenceConflict, Raise, StartTurn, BeginBarrier
<1>2. CASE EvaluateReservation \/ PauseForCeiling \/ ProviderAnswers
  BY <1>2 DEF EvaluateReservation, PauseForCeiling, ProviderAnswers
<1>3. CASE SettleBarrier /\ Raise
  BY <1>3 DEF Raise
<1>4. CASE RecordFault \/ FaultUnrecorded \/ StopRaises \/ Crash
  BY <1>4 DEF RecordFault, FaultUnrecorded, StopRaises, Crash
<1>5. CASE OwnerStep
  BY <1>5 DEF OwnerStep, ProposeBudget, ApproveBudget, OtherCommand, Continue, PlanAgain
<1>6. CASE SettleAttempt /\ LastAttempt.budget # approved
  BY <1>6 DEF SettleAttempt, LastAttempt, Last, Raise
<1>7. CASE UNCHANGED vars
  BY <1>7 DEF vars
<1>8. CASE SettleBarrier
  <2>1. CASE Raise
    BY <1>3, <1>8, <2>1
  <2> QED
    BY <1>8, <2>1
<1>9. CASE SettleAttempt
  BY <1>6, <1>9
<1> QED
  BY <1>1, <1>2, <1>4, <1>5, <1>7, <1>8, <1>9 DEF Next, DeliveryStep, LiveStep

LEMMA ChargeStep == Inv /\ [Next]_vars => ChargedOnce'
<1> SUFFICES ASSUME Inv, [Next]_vars PROVE ChargedOnce'
  OBVIOUS
<1>a. TypeOK /\ ChargedOnce /\ attempts \in Seq(Attempts)
  BY DEF Inv, TypeOK, TypeTurns
<1>1. CASE ReserveAttempt
  <2>1. bound \in Budgets
    BY <1>1 DEF Inv, HeldInv, ReserveAttempt, Ready
  <2>2. /\ Len(attempts') = Len(attempts) + 1 /\ attempts' \in Seq(Attempts)
        /\ \A i \in DOMAIN attempts : attempts'[i] = attempts[i]
        /\ attempts'[Len(attempts')].charged = ReservedUnits
    BY <1>1, <1>a, <2>1, ReserveEffect DEF NewAttempt
  <2>3. ChargesOf(attempts') = ChargesOf(attempts) + ReservedUnits
    BY <1>a, <2>2, ChargesSplit
  <2>4. calls' = calls + 1 /\ units' = units + ReservedUnits
    BY <1>1 DEF ReserveAttempt
  <2>5. /\ usage'["MODEL_CALLS"] = calls' /\ usage'["UNITS"] = units'
        /\ usage'["PLANNING_REQUESTS"] = planning'
    BY <1>1, <1>a DEF ReserveAttempt, SettleUsage, Metrics, ChargedOnce
  <2> QED
    BY <1>a, <2>2, <2>3, <2>4, <2>5 DEF ChargedOnce
<1>2. CASE SettleAttempt /\ LastAttempt.budget = approved
  <2>1. attempts # <<>> /\ LastAttempt \in Attempts /\ LastAttempt.charged = ReservedUnits
    BY <1>2, SettledIsHeld
  <2>2. /\ Len(attempts') = Len(attempts) /\ attempts' \in Seq(Attempts)
        /\ \A i \in DOMAIN attempts : i # Len(attempts) => attempts'[i] = attempts[i]
        /\ LastAttempt'.charged = answer.charged
    BY <1>2, <1>a, <2>1, SettleEffect DEF Attempts
  <2>3. PICK rest \in Nat : /\ ChargesOf(attempts) = rest + ReservedUnits
                            /\ ChargesOf(attempts') = rest + answer.charged
    <3>1. Len(attempts) # 0
          /\ \A i \in 1 .. Len(attempts) - 1 : attempts[i].charged = attempts'[i].charged
      BY <1>a, <2>1, <2>2
    <3>2. \E rest \in Nat : /\ ChargesOf(attempts) = rest + attempts[Len(attempts)].charged
                            /\ ChargesOf(attempts') = rest + attempts'[Len(attempts')].charged
      BY <1>a, <2>2, <3>1, ChargesLast
    <3> QED
      BY <2>1, <2>2, <3>2 DEF LastAttempt
  <2>4. /\ units' = units - ReservedUnits + answer.charged /\ calls' = calls
        /\ planning' = planning
        /\ SettleUsage(approved, {"MODEL_CALLS", "UNITS"},
                       [m \in Metrics |-> IF m = "UNITS" THEN units' ELSE calls])
    BY <1>2 DEF SettleAttempt, LastAttempt, Last, Settled
  <2>5. units' = ChargesOf(attempts')
    BY <1>a, <2>3, <2>4, ModelRequestsAssumption DEF ChargedOnce, TypeOK, TypeProcess
  <2>6. /\ usage'["MODEL_CALLS"] = calls' /\ usage'["UNITS"] = units'
        /\ usage'["PLANNING_REQUESTS"] = planning'
    BY <1>a, <2>4 DEF SettleUsage, Metrics, ChargedOnce
  <2> QED
    BY <1>a, <2>2, <2>4, <2>5, <2>6 DEF ChargedOnce
<1>3. CASE RecordBackoff
  <2>1. attempts # <<>> /\ LastAttempt \in Attempts
    BY <1>3, <1>a, TurnsType DEF RecordBackoff, Ready, Inv, RetryInv, LastAttempt, TypeOK
  <2>2. /\ Len(attempts') = Len(attempts) /\ attempts' \in Seq(Attempts)
        /\ \A i \in DOMAIN attempts : i # Len(attempts) => attempts'[i] = attempts[i]
        /\ LastAttempt'.charged = LastAttempt.charged
    BY <1>3, <1>a, <2>1, BackoffEffect DEF Attempts
  <2>3. ChargesOf(attempts') = ChargesOf(attempts)
    <3>1. Len(attempts) # 0
          /\ \A i \in 1 .. Len(attempts) - 1 : attempts[i].charged = attempts'[i].charged
      BY <1>a, <2>1, <2>2
    <3>2. \E rest \in Nat : /\ ChargesOf(attempts) = rest + attempts[Len(attempts)].charged
                            /\ ChargesOf(attempts') = rest + attempts'[Len(attempts')].charged
      BY <1>a, <2>2, <3>1, ChargesLast
    <3> QED
      BY <2>1, <2>2, <3>2 DEF LastAttempt
  <2> QED
    BY <1>3, <1>a, <2>2, <2>3 DEF RecordBackoff, ChargedOnce, counterVars, usageVars
<1>4. CASE SettleBarrier /\ ~Raise
  BY <1>4, <1>a DEF SettleBarrier, SettleUsage, Metrics, ChargedOnce, counterVars
<1>5. CASE UNCHANGED <<attempts, turns, counterVars, usageVars>>
  BY <1>5, <1>a DEF ChargedOnce, counterVars, usageVars
<1> QED
  BY <1>1, <1>2, <1>3, <1>4, <1>5, CountersChange

-----------------------------------------------------------------------------
(* What is held, and what is still current *)

LEMMA HeldStep == Inv /\ [Next]_vars => HeldInv'
<1> SUFFICES ASSUME Inv, [Next]_vars PROVE HeldInv'
  OBVIOUS
<1>a. TypeOK /\ HeldInv /\ DOMAIN attempts = 1 .. Len(attempts) /\ Len(attempts) \in Nat
  BY TurnsType DEF Inv, TypeOK
<1> USE DEF HeldInv, InBarrier, UnsettledIsHeld, Unsettled, LastAttempt
<1>1. CASE ReserveAttempt
  <2>1. /\ Len(attempts') = Len(attempts) + 1 /\ attempts' \in Seq(Attempts)
        /\ \A i \in DOMAIN attempts : attempts'[i] = attempts[i]
        /\ attempts'[Len(attempts')] = NewAttempt(Len(turns'))
    BY <1>1, <1>a, ReserveEffect DEF ReserveAttempt, Ready
  <2>2. /\ \A i \in DOMAIN attempts : attempts[i].state # "RESERVED"
        /\ barrier = "IN_FLIGHT" /\ bound \in Budgets /\ verdict = "AUTHORIZED"
    BY <1>1, <1>a DEF ReserveAttempt, Ready
  <2>3. pc' = "provider" /\ barrier' = barrier /\ bound' = bound /\ verdict' = verdict
    BY <1>1 DEF ReserveAttempt, localVars
  <2>4. /\ attempts'[Len(attempts')].state = "RESERVED"
        /\ attempts'[Len(attempts')].charged = ReservedUnits
    BY <2>1 DEF NewAttempt
  <2>5. \A i \in DOMAIN attempts' : i = Len(attempts') \/ i \in DOMAIN attempts
    BY <1>a, <2>1
  <2> QED
    BY <2>1, <2>2, <2>3, <2>4, <2>5
<1>2. CASE SettleAttempt /\ LastAttempt.budget = approved
  <2>1. /\ attempts # <<>> /\ LastAttempt \in Attempts
        /\ Len(attempts) \in DOMAIN attempts /\ pc = "settle"
    BY <1>2, SettledIsHeld
  <2>2. /\ Len(attempts') = Len(attempts) /\ attempts' \in Seq(Attempts)
        /\ \A i \in DOMAIN attempts : i # Len(attempts) => attempts'[i] = attempts[i]
        /\ LastAttempt'.state = answer.kind
    BY <1>2, <1>a, <2>1, SettleEffect DEF Attempts
  <2>3. answer.kind # "RESERVED"
    BY <1>a DEF TypeOK, TypeProcess, Outcomes
  <2>4. DOMAIN attempts' = DOMAIN attempts
    BY <1>a, <2>2
  <2>5. \A i \in DOMAIN attempts' : attempts'[i].state # "RESERVED"
    BY <1>a, <2>2, <2>3, <2>4
  <2>6. pc' = "settleBarrier" /\ barrier' = barrier /\ bound' = bound /\ causes \subseteq causes'
    BY <1>2 DEF SettleAttempt, Last, LastAttempt, localVars, SettleUsage
  <2> QED
    BY <1>a, <2>1, <2>5, <2>6
<1>3. CASE RecordBackoff
  <2>1. attempts # <<>> /\ LastAttempt \in Attempts
    BY <1>3, <1>a, TurnsType DEF RecordBackoff, Ready, Inv, RetryInv, LastAttempt, TypeOK
  <2>2. /\ Len(attempts') = Len(attempts) /\ attempts' \in Seq(Attempts)
        /\ \A i \in DOMAIN attempts : i # Len(attempts) => attempts'[i] = attempts[i]
        /\ LastAttempt'.state = LastAttempt.state
    BY <1>3, <1>a, <2>1, BackoffEffect DEF Attempts
  <2>3. \A i \in DOMAIN attempts' : attempts'[i].state # "RESERVED"
    BY <1>3, <1>a, <2>2 DEF RecordBackoff, Ready
  <2>4. pc' = "begin" /\ UNCHANGED <<barrier, bound, causes>> /\ bound \in Budgets
    BY <1>3, <1>a DEF RecordBackoff, Ready, runVars
  <2> QED
    BY <1>a, <2>3, <2>4
<1>4. CASE SettleBarrier
  <2>1. CASE Raise
    BY <1>4, <1>a, <2>1 DEF SettleBarrier, Ready, Raise, localVars
  <2>2. CASE ~Raise
    <3>1. /\ barrier' = "SETTLED" /\ pc' \in {"backoff", "idle"} /\ bound' = bound
          /\ UNCHANGED attempts /\ pc = "settleBarrier"
      BY <1>4, <2>2 DEF SettleBarrier, Ready, localVars
    <3> QED
      BY <1>a, <3>1
  <2> QED
    BY <2>1, <2>2
<1>5. CASE BeginBarrier
  <2>1. CASE Raise
    BY <1>5, <1>a, <2>1 DEF BeginBarrier, Ready, Raise, localVars
  <2>2. CASE ~Raise
    BY <1>5, <1>a, <2>2 DEF BeginBarrier, MayBegin, Ready, localVars
  <2> QED
    BY <2>1, <2>2
<1>6. CASE SettleAttempt /\ LastAttempt.budget # approved
  BY <1>6, <1>a DEF SettleAttempt, Last, Ready, Raise, localVars
<1>7. CASE ReadSequence \/ SequenceConflict
  BY <1>7, <1>a DEF ReadSequence, SequenceConflict, Raise, localVars, Stages
<1>8. CASE StartTurn
  BY <1>8, <1>a DEF StartTurn, TypeOK, TypeRun
<1>9. CASE EvaluateReservation \/ PauseForCeiling \/ ProviderAnswers
  BY <1>9, <1>a DEF EvaluateReservation, PauseForCeiling, ProviderAnswers, Ready, localVars
<1>10. CASE RecordFault \/ FaultUnrecorded \/ StopRaises \/ Crash
  BY <1>10, <1>a DEF RecordFault, FaultUnrecorded, StopRaises, Crash, Ready, localVars
<1>11. CASE OwnerStep
  BY <1>11, <1>a DEF OwnerStep, ProposeBudget, ApproveBudget, OtherCommand, Continue, PlanAgain, localVars
<1>12. CASE UNCHANGED vars
  BY <1>12, <1>a DEF vars, localVars, runVars
<1> QED
  BY <1>1, <1>2, <1>3, <1>4, <1>5, <1>6, <1>7, <1>8, <1>9, <1>10, <1>11, <1>12
     DEF Next, DeliveryStep, LiveStep

LEMMA FreshStep == Inv /\ [Next]_vars => FreshInv'
<1> SUFFICES ASSUME Inv, [Next]_vars PROVE FreshInv'
  OBVIOUS
<1>a. FreshInv /\ TypeOK
  BY DEF Inv
<1> USE DEF FreshInv
<1>1. CASE EvaluateReservation
  <2>1. pc' = "commit" => snap' = snap /\ snap # "unread" /\ verdict' = Evaluate
    BY <1>1 DEF EvaluateReservation
  <2>2. Evaluate = "AUTHORIZED" => Permitted
    BY DEF Evaluate, Permitted, BindingChanged
  <2>3. Permitted' = Permitted
    BY <1>1 DEF EvaluateReservation, Permitted, TrancheIsSpent, CallsAreFull, UnitsAreFull,
                runVars, counterVars
  <2> QED
    BY <2>1, <2>2, <2>3
<1>2. CASE ReadSequence
  BY <1>2, <1>a DEF ReadSequence
<1>3. CASE OwnerStep
  <2>1. CASE PlanAgain
    BY <2>1 DEF PlanAgain
  <2>2. CASE ~PlanAgain
    BY <1>3, <1>a, <2>2
       DEF OwnerStep, ProposeBudget, ApproveBudget, OtherCommand, Continue, Committed
  <2> QED
    BY <2>1, <2>2
<1>4. CASE SequenceConflict \/ StartTurn \/ BeginBarrier \/ PauseForCeiling \/ RecordFault
  BY <1>4 DEF SequenceConflict, Raise, StartTurn, BeginBarrier, PauseForCeiling, RecordFault
<1>5. CASE ReserveAttempt \/ ProviderAnswers \/ SettleAttempt \/ SettleBarrier \/ RecordBackoff
  BY <1>5 DEF ReserveAttempt, ProviderAnswers, SettleAttempt, SettleBarrier, RecordBackoff, Raise
<1>6. CASE FaultUnrecorded \/ StopRaises \/ Crash
  BY <1>6 DEF FaultUnrecorded, StopRaises, Crash
<1>7. CASE UNCHANGED vars
  BY <1>7, <1>a DEF vars, localVars, runVars, counterVars, Permitted, TrancheIsSpent,
                    CallsAreFull, UnitsAreFull
<1> QED
  BY <1>1, <1>2, <1>3, <1>4, <1>5, <1>6, <1>7 DEF Next, DeliveryStep, LiveStep

-----------------------------------------------------------------------------
(* Turns and their attempts *)

\* What the two transactions on an attempt that exists leave of it: every earlier
\* attempt, and of the last one its turn, number and budget.
Rewrites ==
    /\ attempts # <<>> /\ Len(attempts') = Len(attempts)
    /\ \A i \in DOMAIN attempts : i # Len(attempts) => attempts'[i] = attempts[i]
    /\ LastAttempt'.turn = LastAttempt.turn /\ LastAttempt'.number = LastAttempt.number
    /\ LastAttempt'.budget = LastAttempt.budget
    /\ Len(turns') = Len(turns) /\ LastAttempt' \in Attempts

LEMMA SettleRewrites ==
    ASSUME Inv, SettleAttempt, LastAttempt.budget = approved
    PROVE  /\ Rewrites /\ LastAttempt'.state = answer.kind
           /\ LastAttempt'.charged = answer.charged
           /\ LastAttempt'.backoff = LastAttempt.backoff
           /\ \A t \in DOMAIN turns : t # Len(turns) => turns'[t] = turns[t]
           /\ turns # <<>> => turns'[Len(turns)] = IF Commits(answer.kind)
                                                  THEN "COMPLETION_COMMITTED"
                                                  ELSE turns[Len(turns)]
<1>1. TypeOK /\ attempts # <<>> /\ LastAttempt \in Attempts
  BY SettledIsHeld DEF Inv
<1>2. /\ attempts' \in Seq(Attempts) /\ Len(attempts') = Len(attempts)
      /\ \A i \in DOMAIN attempts : i # Len(attempts) => attempts'[i] = attempts[i]
      /\ LastAttempt' = [LastAttempt EXCEPT !.state = answer.kind, !.charged = answer.charged]
  BY <1>1, SettleEffect
<1>3. turns' = IF Commits(answer.kind)
               THEN [turns EXCEPT ![Len(turns)] = "COMPLETION_COMMITTED"] ELSE turns
  BY DEF SettleAttempt, Last, LastAttempt
<1>4. /\ \A t \in DOMAIN turns : t # Len(turns) => turns'[t] = turns[t]
      /\ turns # <<>> => turns'[Len(turns)] = IF Commits(answer.kind)
                                             THEN "COMPLETION_COMMITTED"
                                             ELSE turns[Len(turns)]
      /\ Len(turns') = Len(turns)
  BY <1>1, <1>3, TurnsType DEF TypeOK, TypeTurns
<1>5. LastAttempt' \in Attempts
  BY <1>1, <1>2 DEF LastAttempt, TypeOK, TypeTurns
<1> QED
  BY <1>1, <1>2, <1>4, <1>5 DEF Rewrites, Attempts

LEMMA BackoffRewrites ==
    ASSUME Inv, RecordBackoff
    PROVE  /\ Rewrites /\ LastAttempt'.state = LastAttempt.state
           /\ LastAttempt'.backoff = TRUE /\ LastAttempt'.charged = LastAttempt.charged
           /\ UNCHANGED turns /\ pc = "backoff"
<1>1. TypeOK /\ attempts # <<>> /\ LastAttempt \in Attempts /\ UNCHANGED turns
      /\ pc = "backoff"
  BY TurnsType DEF Inv, TypeOK, RetryInv, RecordBackoff, Ready, LastAttempt
<1>2. /\ attempts' \in Seq(Attempts) /\ Len(attempts') = Len(attempts)
      /\ \A i \in DOMAIN attempts : i # Len(attempts) => attempts'[i] = attempts[i]
      /\ LastAttempt' = [LastAttempt EXCEPT !.backoff = TRUE]
  BY <1>1, BackoffEffect
<1>3. LastAttempt' \in Attempts
  BY <1>1, <1>2 DEF LastAttempt, TypeOK, TypeTurns
<1> QED
  BY <1>1, <1>2, <1>3 DEF Rewrites, Attempts

\* What a reservation adds: one attempt, of the last turn.
LEMMA ReserveAdds ==
    ASSUME Inv, ReserveAttempt
    PROVE  /\ Len(attempts') = Len(attempts) + 1
           /\ \A i \in DOMAIN attempts : attempts'[i] = attempts[i]
           /\ DOMAIN attempts' = DOMAIN attempts \cup {Len(attempts')}
           /\ LastAttempt' = NewAttempt(Len(turns')) /\ attempts' # <<>>
           /\ \A t \in DOMAIN turns : turns'[t] = turns[t]
           /\ number = 1 => Len(turns') = Len(turns) + 1 /\ turns'[Len(turns')] = "OPEN"
           /\ number # 1 => turns' = turns /\ turns[Len(turns)] = "OPEN"
           /\ DOMAIN turns' = 1 .. Len(turns')
<1>1. TypeOK /\ bound \in Budgets
  BY DEF Inv, HeldInv, ReserveAttempt, Ready
<1>2. /\ attempts' \in Seq(Attempts) /\ Len(attempts') = Len(attempts) + 1
      /\ \A i \in DOMAIN attempts : attempts'[i] = attempts[i]
      /\ attempts'[Len(attempts')] = NewAttempt(Len(turns'))
      /\ turns' \in Seq(States)
      /\ \A t \in DOMAIN turns : turns'[t] = turns[t]
      /\ number = 1 => Len(turns') = Len(turns) + 1 /\ turns'[Len(turns')] = "OPEN"
      /\ number # 1 => turns' = turns /\ turns[Len(turns)] = "OPEN"
  BY <1>1, ReserveEffect
<1>3. DOMAIN attempts = 1 .. Len(attempts) /\ Len(attempts) \in Nat
  BY <1>1, TurnsType DEF TypeOK
<1>4. DOMAIN attempts' = DOMAIN attempts \cup {Len(attempts')} /\ attempts' # <<>>
  BY <1>2, <1>3
<1> QED
  BY <1>2, <1>4 DEF LastAttempt

LEMMA TurnStep == Inv /\ [Next]_vars => TurnInv'
<1> SUFFICES ASSUME Inv, [Next]_vars PROVE TurnInv'
  OBVIOUS
<1>a. /\ TurnInv /\ RetryInv /\ DOMAIN attempts = 1 .. Len(attempts) /\ Len(attempts) \in Nat
      /\ DOMAIN turns = 1 .. Len(turns) /\ Len(turns) \in Nat
      /\ \A i \in DOMAIN attempts : attempts[i] \in Attempts
      /\ number \in Nat /\ (attempts # <<>> <=> Len(attempts) # 0)
  BY TurnsType DEF Inv, TypeOK, TypeProcess, RetryCeiling
<1>1. CASE ReserveAttempt
  <2>1. number # 1 => turns # <<>> /\ number > 1
    BY <1>1, <1>a DEF ReserveAttempt, Ready, RetryInv, TurnInv, Inv, TypeOK, TypeProcess,
                      RetryCeiling
  <2>2. /\ turns' # <<>> /\ LastAttempt'.turn = Len(turns')
        /\ Len(turns') \in Nat /\ Len(turns') >= Len(turns)
    <3>1. LastAttempt'.turn = Len(turns')
      BY <1>1, ReserveAdds DEF NewAttempt
    <3>2. CASE number = 1
      <4>1. Len(turns') = Len(turns) + 1
        BY <1>1, <3>2, ReserveAdds
      <4>2. turns' # <<>>
        BY <1>a, <4>1
      <4> QED
        BY <1>a, <3>1, <4>1, <4>2
    <3>3. CASE number # 1
      <4>1. turns' = turns
        BY <1>1, <3>3, ReserveAdds
      <4> QED
        BY <1>a, <2>1, <3>1, <3>3, <4>1
    <3> QED
      BY <3>2, <3>3
  <2>3. \A i \in DOMAIN attempts : attempts[i].turn <= Len(turns)
    BY <1>a DEF TurnInv
  <2>4. \A i \in DOMAIN attempts' : attempts'[i].turn <= Len(turns')
    <3> SUFFICES ASSUME NEW i \in DOMAIN attempts' PROVE attempts'[i].turn <= Len(turns')
      OBVIOUS
    <3>1. CASE i \in DOMAIN attempts
      <4>1. attempts[i].turn \in Nat
        BY <1>a, <3>1 DEF Attempts
      <4>2. attempts'[i] = attempts[i] /\ attempts[i].turn <= Len(turns)
        BY <1>1, <2>3, <3>1, ReserveAdds
      <4> QED
        BY <1>a, <2>2, <4>1, <4>2
    <3>2. CASE i = Len(attempts')
      BY <2>2, <3>2 DEF LastAttempt
    <3> QED
      BY <1>1, <3>1, <3>2, ReserveAdds
  <2> QED
    BY <2>2, <2>4 DEF TurnInv
<1>2. ASSUME Rewrites PROVE TurnInv'
  <2>1. DOMAIN attempts' = DOMAIN attempts
    BY <1>2, StepType, TurnsType DEF Rewrites, Inv, TypeOK
  <2>2. turns' # <<>>
    BY <1>2, <1>a DEF Rewrites, TurnInv
  <2>3. \A i \in DOMAIN attempts : attempts'[i].turn = attempts[i].turn
    BY <1>2, <1>a DEF Rewrites, LastAttempt
  <2> QED
    BY <1>2, <1>a, <2>1, <2>2, <2>3 DEF Rewrites, TurnInv, LastAttempt
<1>3. CASE UNCHANGED <<attempts, turns>>
  BY <1>3, <1>a DEF TurnInv, LastAttempt
<1> QED
  BY <1>1, <1>2, <1>3, AttemptsChange, SettleRewrites, BackoffRewrites

LEMMA RetryStep == Inv /\ [Next]_vars => RetryInv'
<1> SUFFICES ASSUME Inv, [Next]_vars PROVE RetryInv'
  OBVIOUS
<1>a. TypeOK /\ RetryInv /\ number \in Nat
  BY DEF Inv, TypeOK, TypeProcess, RetryCeiling
<1> USE DEF RetryInv
<1>1. CASE ReserveAttempt
  <2>1. attempts' # <<>> /\ LastAttempt'.number = number
    BY <1>1, ReserveAdds DEF NewAttempt
  <2> QED
    BY <1>1, <2>1 DEF ReserveAttempt, localVars
<1>2. CASE SettleAttempt /\ LastAttempt.budget = approved
  <2>1. /\ attempts' # <<>> /\ LastAttempt'.number = number
        /\ LastAttempt'.state = answer.kind
    BY <1>2, SettleRewrites, SettledIsHeld, StepType, TurnsType DEF Rewrites, TypeOK
  <2> QED
    BY <1>2, <2>1 DEF SettleAttempt, LastAttempt, Last, localVars
<1>3. CASE RecordBackoff
  <2>1. /\ attempts' # <<>> /\ LastAttempt'.number = number /\ LastAttempt'.backoff
        /\ LastAttempt'.state = "KNOWN_CLOSED_REJECTION"
    BY <1>3, <1>a, BackoffRewrites, StepType, TurnsType DEF Rewrites, TypeOK
  <2>2. pc' = "begin" /\ number' = number + 1
    BY <1>3 DEF RecordBackoff
  <2> QED
    BY <1>a, <2>1, <2>2
<1>4. CASE SettleBarrier
  <2>1. CASE Raise
    BY <1>4, <2>1 DEF Raise
  <2>2. CASE ~Raise
    <3>1. pc = "settleBarrier" /\ UNCHANGED <<attempts, localVars>>
          /\ pc' \in {"idle", "backoff"} /\ (pc' = "backoff" => Retries)
      BY <1>4, <2>2 DEF SettleBarrier, Ready
    <3> QED
      BY <1>a, <3>1 DEF Retries, localVars, LastAttempt
  <2> QED
    BY <2>1, <2>2
<1>5. CASE SettleAttempt /\ LastAttempt.budget # approved
  BY <1>5 DEF SettleAttempt, LastAttempt, Last, Raise
<1>6. CASE ReadSequence \/ SequenceConflict
  BY <1>6, <1>a DEF ReadSequence, SequenceConflict, Raise, LastAttempt
<1>7. CASE StartTurn
  BY <1>7, <1>a DEF StartTurn
<1>8. CASE BeginBarrier
  <2>1. CASE Raise
    BY <2>1 DEF Raise
  <2>2. CASE ~Raise
    BY <1>8, <1>a, <2>2 DEF BeginBarrier, Ready, localVars, LastAttempt
  <2> QED
    BY <2>1, <2>2
<1>9. CASE EvaluateReservation
  BY <1>9, <1>a DEF EvaluateReservation, LastAttempt, Denials
<1>10. CASE PauseForCeiling
  BY <1>10, <1>a DEF PauseForCeiling, LastAttempt, Ceilings, localVars
<1>11. CASE ProviderAnswers
  BY <1>11, <1>a DEF ProviderAnswers, LastAttempt
<1>12. CASE RecordFault \/ FaultUnrecorded \/ StopRaises \/ Crash
  BY <1>12 DEF RecordFault, FaultUnrecorded, StopRaises, Crash
<1>13. CASE OwnerStep
  BY <1>13, <1>a DEF OwnerStep, ProposeBudget, ApproveBudget, OtherCommand, Continue, PlanAgain,
                     localVars, LastAttempt
<1>14. CASE UNCHANGED vars
  BY <1>14, <1>a DEF vars, localVars, LastAttempt
<1> QED
  BY <1>1, <1>2, <1>3, <1>4, <1>5, <1>6, <1>7, <1>8, <1>9, <1>10, <1>11, <1>12, <1>13,
     <1>14 DEF Next, DeliveryStep, LiveStep

\* Only the last attempt is rewritten: what is said of an earlier one, and of the
\* number and the turn of any, stays.
LEMMA RetriedStep == Inv /\ [Next]_vars => RetriedWhenRejected'
<1> SUFFICES ASSUME Inv, [Next]_vars PROVE RetriedWhenRejected'
  OBVIOUS
<1>a. /\ RetriedWhenRejected /\ DOMAIN attempts = 1 .. Len(attempts) /\ Len(attempts) \in Nat
      /\ DOMAIN turns = 1 .. Len(turns) /\ Len(turns) \in Nat /\ number \in 1 .. RetryCeiling + 1
      /\ \A i \in DOMAIN attempts : attempts[i].number \in Nat
      /\ (attempts # <<>> <=> Len(attempts) # 0)
  BY TurnsType DEF Inv, TypeOK, TypeProcess, RetryCeiling, Attempts
<1>b. \A i \in DOMAIN attempts : attempts[i].number > 1 =>
          /\ i > 1 /\ attempts[i - 1].turn = attempts[i].turn
          /\ attempts[i - 1].number = attempts[i].number - 1
          /\ attempts[i - 1].state = "KNOWN_CLOSED_REJECTION" /\ attempts[i - 1].backoff
  BY <1>a DEF RetriedWhenRejected
<1>1. CASE ReserveAttempt
  <2>1. number > 1 => /\ attempts # <<>> /\ LastAttempt.state = "KNOWN_CLOSED_REJECTION"
                      /\ LastAttempt.backoff /\ LastAttempt.number = number - 1
                      /\ LastAttempt.turn = Len(turns)
    BY <1>1 DEF ReserveAttempt, Ready, Inv, RetryInv, TurnInv
  <2>2. /\ LastAttempt'.number = number /\ LastAttempt'.turn = Len(turns')
        /\ Len(attempts') = Len(attempts) + 1
        /\ DOMAIN attempts' = DOMAIN attempts \cup {Len(attempts')}
        /\ \A i \in DOMAIN attempts : attempts'[i] = attempts[i]
    <3>1. LastAttempt' = NewAttempt(Len(turns'))
      BY <1>1, ReserveAdds
    <3>2. LastAttempt'.number = number /\ LastAttempt'.turn = Len(turns')
      BY <3>1 DEF NewAttempt
    <3> QED
      BY <1>1, <3>2, ReserveAdds
  <2>3. number > 1 => Len(turns') = Len(turns)
    <3>1. number # 1 => turns' = turns
      BY <1>1, ReserveAdds
    <3> QED
      BY <1>a, <3>1 DEF RetryCeiling
  <2> SUFFICES ASSUME NEW i \in DOMAIN attempts'
               PROVE  /\ attempts'[i].number > 1 =>
                             /\ i > 1 /\ attempts'[i - 1].turn = attempts'[i].turn
                             /\ attempts'[i - 1].number = attempts'[i].number - 1
                             /\ attempts'[i - 1].state = "KNOWN_CLOSED_REJECTION"
                             /\ attempts'[i - 1].backoff
                      /\ attempts'[i].number <= RetryCeiling + 1
    BY DEF RetriedWhenRejected
  <2>4. CASE i \in DOMAIN attempts
    <3>1. i > 1 => i - 1 \in DOMAIN attempts
      BY <1>a, <2>4
    <3> QED
      BY <1>a, <1>b, <2>2, <2>4, <3>1 DEF RetriedWhenRejected
  <2>5. CASE i = Len(attempts')
    <3>1. /\ attempts'[i].number = number /\ attempts'[i].turn = Len(turns')
          /\ i - 1 = Len(attempts)
      BY <1>a, <2>2, <2>5 DEF LastAttempt
    <3>2. number > 1 => i > 1 /\ attempts'[i - 1] = LastAttempt
      BY <1>a, <2>1, <2>2, <2>5, <3>1 DEF LastAttempt
    <3> QED
      BY <1>a, <2>1, <2>3, <3>1, <3>2
  <2> QED
    BY <2>2, <2>4, <2>5
<1>2. ASSUME Rewrites PROVE RetriedWhenRejected'
  <2>1. DOMAIN attempts' = DOMAIN attempts
    BY <1>2, StepType, TurnsType DEF Rewrites, Inv, TypeOK
  <2>2. ASSUME NEW i \in DOMAIN attempts
        PROVE  attempts'[i].number = attempts[i].number /\ attempts'[i].turn = attempts[i].turn
    <3>1. CASE i = Len(attempts)
      BY <1>2, <3>1 DEF Rewrites, LastAttempt
    <3>2. CASE i # Len(attempts)
      BY <1>2, <2>2, <3>2 DEF Rewrites
    <3> QED
      BY <3>1, <3>2
  <2>3. ASSUME NEW i \in DOMAIN attempts, i > 1
        PROVE  i - 1 \in DOMAIN attempts /\ attempts'[i - 1] = attempts[i - 1]
    <3>1. i - 1 \in DOMAIN attempts /\ i - 1 # Len(attempts)
      BY <1>a, <2>3
    <3> QED
      BY <1>2, <3>1 DEF Rewrites
  <2>4. \A i \in DOMAIN attempts : attempts[i].number <= RetryCeiling + 1
    BY <1>a DEF RetriedWhenRejected
  <2> SUFFICES ASSUME NEW i \in DOMAIN attempts
               PROVE  /\ attempts'[i].number > 1 =>
                             /\ i > 1 /\ attempts'[i - 1].turn = attempts'[i].turn
                             /\ attempts'[i - 1].number = attempts'[i].number - 1
                             /\ attempts'[i - 1].state = "KNOWN_CLOSED_REJECTION"
                             /\ attempts'[i - 1].backoff
                      /\ attempts'[i].number <= RetryCeiling + 1
    BY <2>1 DEF RetriedWhenRejected
  <2>5. attempts'[i].number = attempts[i].number /\ attempts'[i].turn = attempts[i].turn
    BY <2>2
  <2>6. CASE attempts[i].number > 1
    <3>1. i > 1 /\ attempts'[i - 1] = attempts[i - 1]
      BY <1>b, <2>3, <2>6
    <3> QED
      BY <1>b, <2>4, <2>5, <2>6, <3>1
  <2> QED
    BY <2>4, <2>5, <2>6
<1>3. CASE UNCHANGED <<attempts, turns>>
  BY <1>3, <1>a DEF RetriedWhenRejected
<1> QED
  BY <1>1, <1>2, <1>3, AttemptsChange, SettleRewrites, BackoffRewrites

LEMMA CommittedStep == Inv /\ [Next]_vars => CommittedByItsLast'
<1> SUFFICES ASSUME Inv, [Next]_vars PROVE CommittedByItsLast'
  OBVIOUS
<1>a. /\ CommittedByItsLast /\ TurnInv
      /\ DOMAIN attempts = 1 .. Len(attempts) /\ Len(attempts) \in Nat
      /\ DOMAIN turns = 1 .. Len(turns) /\ Len(turns) \in Nat
      /\ (attempts # <<>> <=> Len(attempts) # 0) /\ (turns # <<>> <=> Len(turns) # 0)
  BY TurnsType DEF Inv, TypeOK
<1>1. CASE ReserveAttempt
  <2>1. LastAttempt'.turn = Len(turns') /\ LastAttempt'.state = "RESERVED"
    <3>1. LastAttempt' = NewAttempt(Len(turns'))
      BY <1>1, ReserveAdds
    <3> QED
      BY <3>1 DEF NewAttempt
  <2>2. /\ Len(attempts') = Len(attempts) + 1
        /\ DOMAIN attempts' = DOMAIN attempts \cup {Len(attempts')}
        /\ \A i \in DOMAIN attempts : attempts'[i] = attempts[i]
        /\ \A t \in DOMAIN turns : turns'[t] = turns[t]
        /\ DOMAIN turns' = 1 .. Len(turns')
    BY <1>1, ReserveAdds
  <2>3. turns'[Len(turns')] = "OPEN" /\ Len(turns') \in {Len(turns), Len(turns) + 1}
    <3>1. number = 1 => Len(turns') = Len(turns) + 1 /\ turns'[Len(turns')] = "OPEN"
      BY <1>1, ReserveAdds
    <3>2. number # 1 => turns' = turns /\ turns[Len(turns)] = "OPEN"
      BY <1>1, ReserveAdds
    <3> QED
      BY <3>1, <3>2
  <2> SUFFICES ASSUME NEW t \in DOMAIN turns'
               PROVE  \E i \in DOMAIN attempts' :
                         /\ attempts'[i].turn = t
                         /\ \A j \in DOMAIN attempts' : attempts'[j].turn = t => j <= i
                         /\ turns'[t] = "COMPLETION_COMMITTED" <=>
                                attempts'[i].state = "COMPLETED"
    BY DEF CommittedByItsLast
  <2>4. CASE t = Len(turns')
    <3>1. /\ Len(attempts') \in DOMAIN attempts' /\ attempts'[Len(attempts')].turn = t
          /\ attempts'[Len(attempts')].state = "RESERVED"
      BY <2>1, <2>2, <2>4 DEF LastAttempt
    <3>2. \A j \in DOMAIN attempts' : attempts'[j].turn = t => j <= Len(attempts')
      BY <1>a, <2>2
    <3>3. turns'[t] = "COMPLETION_COMMITTED" <=>
              attempts'[Len(attempts')].state = "COMPLETED"
      BY <2>3, <2>4, <3>1
    <3> Len(attempts') \in DOMAIN attempts'
      BY <3>1
    <3> WITNESS Len(attempts') \in DOMAIN attempts'
    <3> QED
      BY <3>1, <3>2, <3>3
  <2>5. CASE t # Len(turns')
    <3>1. t \in DOMAIN turns /\ turns'[t] = turns[t]
      <4>1. t \in 1 .. Len(turns') /\ t # Len(turns')
        BY <2>2, <2>5
      <4>2. Len(turns) \in Nat /\ Len(turns') \in {Len(turns), Len(turns) + 1}
        BY <1>a, <2>3
      <4>3. t \in 1 .. Len(turns)
        BY <4>1, <4>2
      <4>4. t \in DOMAIN turns
        BY <1>a, <4>3
      <4> QED
        BY <2>2, <4>4
    <3>2. PICK i \in DOMAIN attempts :
              /\ attempts[i].turn = t
              /\ \A j \in DOMAIN attempts : attempts[j].turn = t => j <= i
              /\ turns[t] = "COMPLETION_COMMITTED" <=> attempts[i].state = "COMPLETED"
      BY <1>a, <3>1 DEF CommittedByItsLast
    <3>3. \A j \in DOMAIN attempts' : attempts'[j].turn = t => j \in DOMAIN attempts
      BY <2>1, <2>2, <2>5 DEF LastAttempt
    <3>4. i \in DOMAIN attempts' /\ attempts'[i] = attempts[i]
      BY <2>2
    <3>5. \A j \in DOMAIN attempts' : attempts'[j].turn = t => j <= i
      BY <2>2, <3>2, <3>3
    <3> QED
      BY <3>1, <3>2, <3>4, <3>5
  <2> QED
    BY <2>4, <2>5
<1>2. ASSUME Rewrites,
             \A t \in DOMAIN turns : t # Len(turns) => turns'[t] = turns[t],
             turns'[Len(turns)] = "COMPLETION_COMMITTED" <=> LastAttempt'.state = "COMPLETED"
      PROVE  CommittedByItsLast'
  <2>1. /\ DOMAIN attempts' = DOMAIN attempts /\ DOMAIN turns' = DOMAIN turns
        /\ Len(attempts') = Len(attempts) /\ Len(turns') = Len(turns)
    BY <1>2, StepType, TurnsType DEF Rewrites, Inv, TypeOK
  <2>2. \A i \in DOMAIN attempts : attempts'[i].turn = attempts[i].turn
    <3> SUFFICES ASSUME NEW i \in DOMAIN attempts PROVE attempts'[i].turn = attempts[i].turn
      OBVIOUS
    <3>1. CASE i = Len(attempts)
      BY <1>2, <3>1 DEF Rewrites, LastAttempt
    <3>2. CASE i # Len(attempts)
      BY <1>2, <3>2 DEF Rewrites
    <3> QED
      BY <3>1, <3>2
  <2>3. /\ Len(attempts) \in DOMAIN attempts /\ attempts[Len(attempts)].turn = Len(turns)
        /\ attempts'[Len(attempts)] = LastAttempt'
    BY <1>a, <1>2, <2>1 DEF Rewrites, TurnInv, LastAttempt
  <2> SUFFICES ASSUME NEW t \in DOMAIN turns
               PROVE  \E i \in DOMAIN attempts :
                         /\ attempts'[i].turn = t
                         /\ \A j \in DOMAIN attempts : attempts'[j].turn = t => j <= i
                         /\ turns'[t] = "COMPLETION_COMMITTED" <=>
                                attempts'[i].state = "COMPLETED"
    BY <2>1 DEF CommittedByItsLast
  <2>4. CASE t = Len(turns)
    <3>1. \A j \in DOMAIN attempts : j <= Len(attempts)
      BY <1>a
    <3>2. \A j \in DOMAIN attempts : attempts'[j].turn = t => j <= Len(attempts)
      BY <3>1
    <3>3. /\ attempts'[Len(attempts)].turn = t
          /\ turns'[t] = "COMPLETION_COMMITTED" <=>
                 attempts'[Len(attempts)].state = "COMPLETED"
      <4>1. attempts'[Len(attempts)].turn = t
        BY <2>2, <2>3, <2>4
      <4> QED
        BY <1>2, <2>3, <2>4, <4>1
    <3> QED
      BY <2>3, <3>2, <3>3
  <2>5. CASE t # Len(turns)
    <3>1. PICK i \in DOMAIN attempts :
              /\ attempts[i].turn = t
              /\ \A j \in DOMAIN attempts : attempts[j].turn = t => j <= i
              /\ turns[t] = "COMPLETION_COMMITTED" <=> attempts[i].state = "COMPLETED"
      BY <1>a DEF CommittedByItsLast
    <3>2. i # Len(attempts)
      BY <2>3, <2>5, <3>1
    <3>3. attempts'[i] = attempts[i] /\ turns'[t] = turns[t]
      BY <1>2, <2>5, <3>2 DEF Rewrites
    <3> QED
      BY <2>2, <3>1, <3>3
  <2> QED
    BY <2>4, <2>5
<1>3. CASE SettleAttempt /\ LastAttempt.budget = approved
  <2>1. /\ LastAttempt.state = "RESERVED" /\ LastAttempt.turn = Len(turns) /\ turns # <<>>
        /\ Len(attempts) \in DOMAIN attempts /\ Len(turns) \in DOMAIN turns
    BY <1>3, <1>a, SettledIsHeld DEF TurnInv
  <2>2. PICK i \in DOMAIN attempts :
            /\ \A j \in DOMAIN attempts : attempts[j].turn = Len(turns) => j <= i
            /\ turns[Len(turns)] = "COMPLETION_COMMITTED" <=> attempts[i].state = "COMPLETED"
    BY <1>a, <2>1 DEF CommittedByItsLast
  <2>3. i = Len(attempts)
    BY <1>a, <2>1, <2>2 DEF LastAttempt
  <2>4. turns[Len(turns)] # "COMPLETION_COMMITTED"
    BY <2>1, <2>2, <2>3 DEF LastAttempt
  <2>5. turns'[Len(turns)] = "COMPLETION_COMMITTED" <=> LastAttempt'.state = "COMPLETED"
    BY <1>3, <2>1, <2>4, SettleRewrites DEF Commits
  <2> QED
    BY <1>2, <1>3, <2>5, SettleRewrites
<1>4. CASE RecordBackoff
  <2>1. /\ Rewrites /\ turns' = turns /\ LastAttempt'.state = LastAttempt.state
    BY <1>4, BackoffRewrites
  <2>2. /\ LastAttempt.turn = Len(turns) /\ turns # <<>>
        /\ Len(attempts) \in DOMAIN attempts /\ Len(turns) \in DOMAIN turns
    BY <1>a, <2>1 DEF Rewrites, TurnInv
  <2>3. PICK i \in DOMAIN attempts :
            /\ \A j \in DOMAIN attempts : attempts[j].turn = Len(turns) => j <= i
            /\ turns[Len(turns)] = "COMPLETION_COMMITTED" <=> attempts[i].state = "COMPLETED"
    BY <1>a, <2>2 DEF CommittedByItsLast
  <2>4. i = Len(attempts)
    BY <1>a, <2>2, <2>3 DEF LastAttempt
  <2>5. turns'[Len(turns)] = "COMPLETION_COMMITTED" <=> LastAttempt'.state = "COMPLETED"
    BY <2>1, <2>3, <2>4 DEF LastAttempt
  <2> QED
    BY <1>2, <2>1, <2>5
<1>5. CASE UNCHANGED <<attempts, turns>>
  BY <1>5, <1>a DEF CommittedByItsLast
<1> QED
  BY <1>1, <1>3, <1>4, <1>5, AttemptsChange

-----------------------------------------------------------------------------
(* Ceilings *)

LEMMA CausesGrow == [Next]_vars => causes \subseteq causes'
<1> SUFFICES ASSUME [Next]_vars PROVE causes \subseteq causes'
  OBVIOUS
<1>0. CASE Raise
  BY <1>0 DEF Raise
<1>1. CASE ReadSequence \/ SequenceConflict \/ StartTurn \/ BeginBarrier
  BY <1>0, <1>1 DEF ReadSequence, SequenceConflict, StartTurn, BeginBarrier
<1>2. CASE EvaluateReservation \/ PauseForCeiling \/ ProviderAnswers
  BY <1>2 DEF EvaluateReservation, PauseForCeiling, ProviderAnswers
<1>3. CASE ReserveAttempt
  BY <1>3 DEF ReserveAttempt, SettleUsage
<1>4. CASE SettleAttempt
  BY <1>0, <1>4 DEF SettleAttempt, SettleUsage
<1>5. CASE SettleBarrier
  BY <1>0, <1>5 DEF SettleBarrier, SettleUsage
<1>6. CASE RecordBackoff \/ RecordFault \/ FaultUnrecorded \/ StopRaises \/ Crash
  BY <1>6 DEF RecordBackoff, RecordFault, FaultUnrecorded, StopRaises, Crash
<1>7. CASE OwnerStep
  BY <1>7 DEF OwnerStep, ProposeBudget, ApproveBudget, OtherCommand, Continue, PlanAgain
<1>8. CASE UNCHANGED vars
  BY <1>8 DEF vars
<1> QED
  BY <1>1, <1>2, <1>3, <1>4, <1>5, <1>6, <1>7, <1>8 DEF Next, DeliveryStep, LiveStep

LEMMA CeilingOf ==
    ASSUME NEW b \in Budgets
    PROVE  /\ Ceiling(b, "MODEL_CALLS") = CallCeiling[b] /\ CallCeiling[b] \in Nat
           /\ Ceiling(b, "UNITS") = UnitCeiling[b] /\ UnitCeiling[b] \in Nat
BY ModelRequestsAssumption DEF Ceiling

\* Use that is settled under the one budget of all attempts is warned of.
LEMMA WarnedBySettling ==
    ASSUME NEW b \in Budgets, NEW m, NEW ms, NEW used, SettleUsage(b, ms, used),
           m \in ms \cap {"MODEL_CALLS", "UNITS"}, usage[m] \in Nat, used[m] \in Nat,
           usage[m] * 100 >= Ceiling(b, m) * 80 /\ Ceiling(b, m) > 0 => <<b, m>> \in warned,
           usage'[m] * 100 >= Ceiling(b, m) * 80, Ceiling(b, m) > 0
    PROVE  <<b, m>> \in warned'
<1>1. Ceiling(b, m) \in Nat
  BY CeilingOf
<1>2. usage'[m] = used[m]
  BY DEF SettleUsage, Metrics
<1>3. CASE usage[m] * 100 >= Ceiling(b, m) * 80
  BY <1>3 DEF SettleUsage
<1>4. CASE ~(usage[m] * 100 >= Ceiling(b, m) * 80)
  <2>1. Crossed(usage[m], used[m], Ceiling(b, m))
    BY <1>1, <1>2, <1>4 DEF Crossed
  <2> QED
    BY <2>1 DEF SettleUsage
<1> QED
  BY <1>3, <1>4

LEMMA CeilingStep == Inv /\ [Next]_vars => CeilingsHold'
<1> SUFFICES ASSUME Inv, [Next]_vars PROVE CeilingsHold'
  OBVIOUS
<1>a. /\ CeilingsHold /\ ChargedOnce /\ TypeOK
      /\ DOMAIN attempts = 1 .. Len(attempts) /\ Len(attempts) \in Nat
      /\ (attempts # <<>> <=> Len(attempts) # 0)
      /\ \A i \in DOMAIN attempts : attempts[i] \in Attempts
      /\ calls \in Nat /\ units \in Nat /\ ReservedUnits \in Nat
      /\ usage["MODEL_CALLS"] \in Nat /\ usage["UNITS"] \in Nat
  BY TurnsType, ModelRequestsAssumption DEF Inv, TypeOK, TypeCounters, Metrics
<1>b. causes \subseteq causes'
  BY CausesGrow
\* The warning, once a settlement has been made under the budget of the last attempt.
<1>c. ASSUME NEW b \in Budgets, NEW ms, NEW used, SettleUsage(b, ms, used),
             {"MODEL_CALLS", "UNITS"} \subseteq ms,
             used["MODEL_CALLS"] \in Nat, used["UNITS"] \in Nat,
             attempts' # <<>>, attempts'[Len(attempts')].budget = b,
             Len(attempts') \in DOMAIN attempts',
             DOMAIN attempts \subseteq DOMAIN attempts',
             \A i \in DOMAIN attempts : attempts'[i].budget = attempts[i].budget
      PROVE  WarnedInTime'
  <2> SUFFICES ASSUME NEW c \in Budgets, \A i \in DOMAIN attempts' : attempts'[i].budget = c,
                      NEW m \in Metrics \ {"PLANNING_REQUESTS"},
                      usage'[m] * 100 >= Ceiling(c, m) * 80, Ceiling(c, m) > 0
               PROVE  <<c, m>> \in warned'
    BY DEF WarnedInTime
  <2>1. c = b /\ m \in {"MODEL_CALLS", "UNITS"}
    BY <1>c DEF Metrics
  <2>2. \A i \in DOMAIN attempts : attempts[i].budget = b
    BY <1>c, <2>1
  <2>3. usage[m] * 100 >= Ceiling(b, m) * 80 => <<b, m>> \in warned
    <3>1. CASE attempts # <<>>
      BY <1>a, <2>1, <2>2, <3>1 DEF CeilingsHold, WarnedInTime
    <3>2. CASE attempts = <<>>
      <4>1. usage[m] = 0
        BY <1>a, <2>1, <3>2, ChargesEmpty DEF ChargedOnce
      <4>2. Ceiling(b, m) \in Nat
        BY <2>1, CeilingOf
      <4> QED
        BY <2>1, <4>1, <4>2
    <3> QED
      BY <3>1, <3>2
  <2>4. usage[m] \in Nat /\ used[m] \in Nat /\ m \in ms \cap {"MODEL_CALLS", "UNITS"}
    BY <1>a, <1>c, <2>1
  <2> QED
    BY <1>c, <2>1, <2>3, <2>4, WarnedBySettling
<1>1. CASE ReserveAttempt
  <2>1. /\ bound \in Budgets /\ bound = approved
        /\ calls + 1 <= CallCeiling[approved]
        /\ units + ReservedUnits <= UnitCeiling[approved]
    <3>1. bound \in Budgets /\ bound = approved /\ ~CallsAreFull /\ ~UnitsAreFull
      BY <1>1 DEF ReserveAttempt, Ready, Inv, HeldInv, FreshInv, Permitted
    <3> QED
      BY <1>a, <3>1, CeilingOf DEF CallsAreFull, UnitsAreFull
  <2>2. /\ attempts' # <<>> /\ DOMAIN attempts' = DOMAIN attempts \cup {Len(attempts')}
        /\ \A i \in DOMAIN attempts : attempts'[i] = attempts[i]
        /\ LastAttempt' = NewAttempt(Len(turns'))
    BY <1>1, ReserveAdds
  <2>3. LastAttempt'.budget = bound /\ LastAttempt'.charged = ReservedUnits
    BY <2>2 DEF NewAttempt
  <2>4. calls' = calls + 1 /\ units' = units + ReservedUnits
    BY <1>1 DEF ReserveAttempt
  <2> DEFINE isNew == owner = "PLANNING" /\ number = 1
             ms == IF isNew THEN Metrics ELSE {"MODEL_CALLS", "UNITS"}
             used == [m \in Metrics |-> CASE m = "PLANNING_REQUESTS" -> planning + 1
                                          [] m = "MODEL_CALLS"       -> calls'
                                          [] m = "UNITS"             -> units']
  <2>5. SettleUsage(bound, ms, used)
    BY <1>1 DEF ReserveAttempt
  <2>6. /\ {"MODEL_CALLS", "UNITS"} \subseteq ms
        /\ used["MODEL_CALLS"] = calls' /\ used["UNITS"] = units'
    BY DEF Metrics
  <2> HIDE DEF ms, used
  <2>7. WithinCeilings'
    BY <1>a, <2>1, <2>3, <2>4 DEF WithinCeilings, LastBudget, Last, LastAttempt
  <2>8. ExhaustedIsClosed'
    <3>1. calls' >= CallCeiling[bound] => "BUDGET_EXHAUSTED" \in causes'
      BY <2>1, <2>5, <2>6, CeilingOf DEF SettleUsage, IsExhausted
    <3> QED
      BY <2>3, <3>1 DEF ExhaustedIsClosed, LastBudget, Last, LastAttempt
  <2>9. WarnedInTime'
    <3>1. bound \in Budgets /\ calls' \in Nat /\ units' \in Nat
      BY <1>a, <2>1, <2>4
    <3>2. used["MODEL_CALLS"] \in Nat /\ used["UNITS"] \in Nat
      BY <2>6, <3>1
    <3>3. /\ attempts'[Len(attempts')].budget = bound
          /\ Len(attempts') \in DOMAIN attempts' /\ DOMAIN attempts \subseteq DOMAIN attempts'
          /\ \A i \in DOMAIN attempts : attempts'[i].budget = attempts[i].budget
      BY <2>2, <2>3 DEF LastAttempt
    <3> QED
      BY <1>c, <2>2, <2>5, <2>6, <3>1, <3>2, <3>3
  <2> QED
    BY <2>7, <2>8, <2>9 DEF CeilingsHold
<1>2. CASE SettleAttempt /\ LastAttempt.budget = approved
  <2>1. /\ approved \in Budgets /\ answer.charged \in Nat
        /\ attempts # <<>> /\ LastAttempt.charged = ReservedUnits
    BY <1>2, <1>a, SettledIsHeld DEF TypeOK, TypeRun, TypeProcess
  <2>2. Rewrites /\ LastAttempt'.charged = answer.charged
    BY <1>2, SettleRewrites
  <2>3. LastAttempt'.budget = approved
    BY <1>2, <2>2 DEF Rewrites
  <2> DEFINE used == [m \in Metrics |-> IF m = "UNITS" THEN units' ELSE calls]
  <2>4. /\ units' = units - ReservedUnits + answer.charged /\ calls' = calls
        /\ SettleUsage(approved, {"MODEL_CALLS", "UNITS"}, used)
    BY <1>2 DEF SettleAttempt, LastAttempt, Last, Settled
  <2>5. used["MODEL_CALLS"] = calls' /\ used["UNITS"] = units' /\ units' \in Nat
    BY <2>4, StepType DEF Metrics, TypeOK, TypeCounters
  <2> HIDE DEF used
  <2>6. WithinCeilings'
    <3>1. /\ calls <= CallCeiling[approved]
          /\ units - ReservedUnits + ReservedUnits <= UnitCeiling[approved]
      BY <1>2, <1>a, <2>1 DEF CeilingsHold, WithinCeilings, LastBudget, Last, LastAttempt
    <3>2. units' - answer.charged + ReservedUnits = units - ReservedUnits + ReservedUnits
      BY <1>a, <2>1, <2>4
    <3> QED
      BY <2>2, <2>3, <2>4, <3>1, <3>2 DEF WithinCeilings, LastBudget, Last, LastAttempt
  <2>7. ExhaustedIsClosed'
    <3>1. calls' >= CallCeiling[approved] => "BUDGET_EXHAUSTED" \in causes'
      BY <2>1, <2>4, <2>5, CeilingOf DEF SettleUsage, IsExhausted
    <3> QED
      BY <2>3, <3>1 DEF ExhaustedIsClosed, LastBudget, Last, LastAttempt
  <2>8. /\ attempts' # <<>> /\ DOMAIN attempts' = DOMAIN attempts
        /\ Len(attempts') \in DOMAIN attempts'
        /\ \A i \in DOMAIN attempts : attempts'[i].budget = attempts[i].budget
    <3>1. DOMAIN attempts' = 1 .. Len(attempts') /\ (attempts' # <<>> <=> Len(attempts') # 0)
      BY StepType, TurnsType DEF TypeOK
    <3>2. ASSUME NEW i \in DOMAIN attempts PROVE attempts'[i].budget = attempts[i].budget
      <4>1. CASE i = Len(attempts)
        BY <2>2, <4>1 DEF Rewrites, LastAttempt
      <4>2. CASE i # Len(attempts)
        BY <2>2, <3>2, <4>2 DEF Rewrites
      <4> QED
        BY <4>1, <4>2
    <3> QED
      BY <1>a, <2>2, <3>1, <3>2 DEF Rewrites
  <2>9. WarnedInTime'
    BY <1>a, <1>c, <2>1, <2>3, <2>4, <2>5, <2>8 DEF LastAttempt
  <2> QED
    BY <2>6, <2>7, <2>9 DEF CeilingsHold
<1>3. ASSUME UNCHANGED <<calls, units, attempts>>, \A m \in Metrics : usage'[m] = usage[m],
             warned \subseteq warned'
      PROVE  CeilingsHold'
  <2>1. WithinCeilings' /\ ExhaustedIsClosed'
    BY <1>a, <1>b, <1>3 DEF CeilingsHold, WithinCeilings, ExhaustedIsClosed, LastBudget
  <2>2. WarnedInTime'
    BY <1>a, <1>3 DEF CeilingsHold, WarnedInTime
  <2> QED
    BY <2>1, <2>2 DEF CeilingsHold
<1>4. CASE RecordBackoff
  <2>1. Rewrites /\ LastAttempt'.charged = LastAttempt.charged
        /\ UNCHANGED <<calls, units, usage, warned>>
    BY <1>4, BackoffRewrites DEF RecordBackoff, counterVars, usageVars
  <2>2. WithinCeilings' /\ ExhaustedIsClosed'
    BY <1>a, <1>b, <2>1 DEF CeilingsHold, WithinCeilings, ExhaustedIsClosed, LastBudget, Last,
                           LastAttempt, Rewrites
  <2>3. DOMAIN attempts' = DOMAIN attempts
    BY <2>1, StepType, TurnsType DEF Rewrites, Inv, TypeOK
  <2>4. \A i \in DOMAIN attempts : attempts'[i].budget = attempts[i].budget
    <3> SUFFICES ASSUME NEW i \in DOMAIN attempts PROVE attempts'[i].budget = attempts[i].budget
      OBVIOUS
    <3>1. CASE i = Len(attempts)
      BY <2>1, <3>1 DEF Rewrites, LastAttempt
    <3>2. CASE i # Len(attempts)
      BY <2>1, <3>2 DEF Rewrites
    <3> QED
      BY <3>1, <3>2
  <2>5. WarnedInTime'
    BY <1>a, <2>1, <2>3, <2>4 DEF CeilingsHold, WarnedInTime, Rewrites
  <2> QED
    BY <2>2, <2>5 DEF CeilingsHold
<1>5. CASE SettleBarrier /\ ~Raise
  <2>1. \A m \in Metrics : usage'[m] = usage[m]
    BY <1>5, <1>a DEF SettleBarrier, SettleUsage, ChargedOnce, Metrics
  <2> QED
    BY <1>3, <1>5, <2>1 DEF SettleBarrier, SettleUsage, counterVars
<1>6. CASE UNCHANGED <<attempts, turns, counterVars, usageVars>>
  BY <1>3, <1>6 DEF counterVars, usageVars
<1> QED
  BY <1>1, <1>2, <1>4, <1>5, <1>6, CountersChange

-----------------------------------------------------------------------------
(* Theorems *)

LEMMA InitInv == Init => Inv
<1> SUFFICES ASSUME Init PROVE Inv
  OBVIOUS
<1>1. TypeOK
  BY InitType
<1>2. /\ attempts = <<>> /\ turns = <<>> /\ Len(attempts) = 0
      /\ DOMAIN attempts = {} /\ DOMAIN turns = {}
  BY DEF Init
<1>3. ChargedOnce
  BY <1>2, ChargesEmpty DEF Init, ChargedOnce, Metrics
<1>4. HeldInv /\ FreshInv
  BY <1>2 DEF Init, HeldInv, FreshInv, InBarrier, UnsettledIsHeld, Unsettled
<1>5. TurnInv /\ RetryInv
  BY <1>2 DEF Init, TurnInv, RetryInv
<1>6. RetriedWhenRejected /\ CommittedByItsLast
  BY <1>2 DEF RetriedWhenRejected, CommittedByItsLast
<1>7. CeilingsHold
  BY <1>2 DEF CeilingsHold, WithinCeilings, ExhaustedIsClosed, WarnedInTime
<1> QED
  BY <1>1, <1>3, <1>4, <1>5, <1>6, <1>7 DEF Inv

LEMMA StepInv == Inv /\ [Next]_vars => Inv'
BY StepType, ChargeStep, HeldStep, FreshStep, TurnStep, RetryStep, RetriedStep, CommittedStep,
   CeilingStep DEF Inv

\* The inductive invariant holds in every reachable state.
THEOREM Invariant == Spec => []Inv
BY InitInv, StepInv, PTL DEF Spec

\* The variables keep their types, whatever the owner and the provider do.
THEOREM TypeCorrect == Spec => []TypeOK
<1>1. Inv => TypeOK
  BY DEF Inv
<1> QED
  BY <1>1, Invariant, PTL

\* Each attempt has exactly one charge in the two tables of counters, and one
\* whose outcome is not recorded is the last one and keeps its barrier.
THEOREM AttemptsAreAccounted == Spec => []AttemptsAccounted
<1>1. Inv => AttemptsAccounted
  BY DEF Inv, HeldInv, AttemptsAccounted
<1> QED
  BY <1>1, Invariant, PTL

\* No sequence of reservations, settlements and new budgets passes a ceiling
\* unseen: the last attempt kept to it, reaching it closes dispatch, and 80
\* percent of it is warned of.
THEOREM CeilingsAreKept == Spec => []CeilingsHold
<1>1. Inv => CeilingsHold
  BY DEF Inv
<1> QED
  BY <1>1, Invariant, PTL

\* A turn is a series of certain rejections and then its end; it is committed
\* when that end was completed by the model that was asked.
THEOREM TurnsAreRejectionsAndAnEnd == Spec => []TurnsAreAccounted
<1>1. Inv => TurnsAreAccounted
  BY DEF Inv, TurnsAreAccounted
<1> QED
  BY <1>1, Invariant, PTL

\* An attempt is reserved with dispatch open and under the budget that is current
\* and approved at that moment, though all of it was checked in an earlier
\* transaction.
THEOREM SendsUnderAuthority == Spec => SentUnderAuthority
<1> DEFINE Sent == Len(attempts') > Len(attempts) =>
                       causes = {} /\ Last(attempts').budget = approved /\ approved = current
<1>1. ASSUME Inv, [Next]_vars PROVE [Sent]_vars
  <2>1. CASE ReserveAttempt
    <3>1. Permitted
      BY <1>1, <2>1 DEF Inv, FreshInv, ReserveAttempt, Ready
    <3>2. attempts'[Len(attempts')].budget = bound
      <4>1. LastAttempt' = NewAttempt(Len(turns'))
        BY <1>1, <2>1, ReserveAdds
      <4>2. NewAttempt(Len(turns')).budget = bound
        BY DEF NewAttempt
      <4> QED
        BY <4>1, <4>2 DEF LastAttempt
    <3>3. Last(attempts').budget = bound
      BY <3>2 DEF Last
    <3>4. causes = {} /\ bound = approved /\ approved = current
      BY <3>1 DEF Permitted
    <3> QED
      BY <3>3, <3>4
  <2>2. CASE RecordBackoff \/ (SettleAttempt /\ LastAttempt.budget = approved)
    <3>1. Rewrites
      BY <1>1, <2>2, SettleRewrites, BackoffRewrites
    <3>2. Len(attempts') = Len(attempts) /\ Len(attempts) \in Nat
      BY <1>1, <3>1, TurnsType DEF Inv, TypeOK, Rewrites
    <3> QED
      BY <3>2
  <2>3. CASE UNCHANGED <<attempts, turns>>
    BY <1>1, <2>3, TurnsType DEF Inv, TypeOK
  <2> QED
    BY <1>1, <2>1, <2>2, <2>3, AttemptsChange
<1>2. Inv /\ [Next]_vars => [Sent]_vars
  BY <1>1
<1>3. Spec => [][Sent]_vars
  BY <1>2, Invariant, PTL DEF Spec
<1> QED
  BY <1>3 DEF SentUnderAuthority
=============================================================================
