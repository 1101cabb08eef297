------------------------- MODULE TaskScheduling_proofs -------------------------
(***************************************************************************)
(* Theorems about TaskScheduling, for every set of Tasks, every Plan the    *)
(* validation lets through, every ceiling, and any number of Attempts,      *)
(* pauses, resumes, lapsed leases and replays.                              *)
(*                                                                         *)
(* The inductive invariant Inv adds to the type and to the properties       *)
(*   HandInv     the Attempt that is driven has an id that was handed out,  *)
(*   SelInv      a selection that no later commit has outdated still stands *)
(*               when it is used: dispatch is open and the Task eligible.   *)
(*               The creation compares sequence numbers only, so this is    *)
(*               what makes its Attempt obey the Plan,                      *)
(*   PauseInv    a pause belongs to a paused Task and a reserved resume to  *)
(*               a ready one, so that no resume is counted twice,           *)
(*   TrancheInv  each tranche was paid from the allocation of its Task,     *)
(*               which bounds the tranches by the calls that are allowed.   *)
(***************************************************************************)
EXTENDS TaskScheduling, PlanScopes_proofs, FiniteSetTheorems

(* The auxiliary invariants *)

HandInv == pc \in {"turn", "answered"} => hand \in Ids

SelInv ==
    /\ pc = "create" => sel \in TaskSet
    /\ pc = "create" /\ fresh => Open /\ Eligible(sel)

PauseInv ==
    \A k \in TaskSet :
        /\ pause[k] # None => task[k] = "PAUSED"
        /\ resume[k] # 0 => task[k] = "READY"

TrancheInv ==
    \A k \in TaskSet :
        /\ Len(tranches[k]) <= counters[k].allocated
        /\ counters[k].active <= Len(tranches[k])
        /\ counters[k].remaining > 0 => counters[k].active > 0

Inv ==
    /\ TypeOK /\ HandInv /\ SelInv /\ PauseInv /\ TrancheInv
    /\ TasksApart /\ WithinCaps /\ WorkersAreCounted

-----------------------------------------------------------------------------
(* What typed values contain *)

LEMMA CeilingsType ==
    /\ TrancheCalls \in Nat \ {0} /\ Bootstraps \in Nat \ {0} /\ CallCeiling \in Nat \ {0}
    /\ AttemptCeiling \in Nat \ {0} /\ ResumeCeiling \in Nat \ {0}
    /\ CheckpointCeiling \in Nat \ {0} /\ InvalidCeiling \in Nat \ {0}
    /\ MaxNames \in Nat /\ MaxLeases \in Nat
BY SchedulingAssumption

LEMMA FirstType ==
    ASSUME NEW S \in SUBSET Nat, S # {}
    PROVE  First(S) \in S /\ \A m \in S : First(S) <= m
BY SmallestElement DEF First

LEMMA CountersType ==
    ASSUME TypeBudget, NEW k \in TaskSet
    PROVE  /\ counters[k] \in Counters /\ counters[k].allocated \in 0 .. CallCeiling
           /\ counters[k].spent \in 0 .. CallCeiling
           /\ counters[k].bootstraps \in 0 .. Bootstraps
           /\ counters[k].attempts \in 0 .. AttemptCeiling
           /\ counters[k].resumes \in 0 .. ResumeCeiling
           /\ counters[k].active \in 0 .. CallCeiling
           /\ counters[k].remaining \in 0 .. TrancheCalls
           /\ counters[k].checkpoints \in 0 .. CheckpointCeiling
           /\ counters[k].invalid \in 0 .. InvalidCeiling
           /\ tranches[k] \in Seq(1 .. named) /\ resume[k] \in 0 .. named
BY DEF TypeBudget, Counters

LEMMA RowsType ==
    ASSUME TypeAttempts
    PROVE  /\ Len(attempts) \in Nat /\ DOMAIN attempts = 1 .. Len(attempts)
           /\ \A i \in DOMAIN attempts : attempts[i] \in AttemptRows
           /\ Len(leases) \in Nat /\ DOMAIN leases = 1 .. Len(leases)
           /\ \A l \in DOMAIN leases : leases[l] \in LeaseRows
BY DEF TypeAttempts

LEMMA TasksType ==
    /\ DOMAIN Tasks \subseteq Nat
    /\ \A p \in DOMAIN Tasks : Tasks[p] \in TaskSet
<1>1. Tasks \in Seq(TaskSet)
  BY SchedulingAssumption
<1> QED
  BY <1>1

\* The rows with an id that has been named stay typed when more ids are.
LEMMA MoreNames ==
    ASSUME named \in Nat, named' \in Nat, named <= named'
    PROVE  /\ AttemptRows \subseteq AttemptRows' /\ LeaseRows \subseteq LeaseRows'
           /\ Seq(AttemptRows) \subseteq Seq(AttemptRows')
           /\ Seq(LeaseRows) \subseteq Seq(LeaseRows')
           /\ Seq(1 .. named) \subseteq Seq(1 .. named')
<1>1. 1 .. named \subseteq 1 .. named'
  OBVIOUS
<1>2. AttemptRows \subseteq AttemptRows' /\ LeaseRows \subseteq LeaseRows'
  BY <1>1 DEF AttemptRows, LeaseRows
<1> QED
  BY <1>1, <1>2

-----------------------------------------------------------------------------
(* Counting *)

LEMMA Finite ==
    ASSUME NEW n \in Nat, NEW S, S \subseteq 1 .. n
    PROVE  IsFiniteSet(S) /\ Cardinality(S) \in Nat /\ Cardinality(S) <= n
<1>1. IsFiniteSet(1 .. n) /\ Cardinality(1 .. n) = n
  BY FS_Interval
<1> QED
  BY <1>1, FS_Subset, FS_CardinalityType

LEMMA CountedOnce ==
    ASSUME NEW n \in Nat, NEW S, NEW T, S \subseteq T, T \subseteq 1 .. n
    PROVE  /\ Cardinality(S) \in Nat /\ Cardinality(T) \in Nat
           /\ Cardinality(S) <= Cardinality(T)
BY Finite, FS_Subset

LEMMA OneLonger ==
    ASSUME NEW n \in Nat, NEW S, S \subseteq 1 .. n
    PROVE  S \cup {n + 1} \subseteq 1 .. n + 1 /\ n + 1 \in Nat
OBVIOUS

LEMMA OneMore ==
    ASSUME NEW n \in Nat, NEW S, S \subseteq 1 .. n
    PROVE  Cardinality(S \cup {n + 1}) = Cardinality(S) + 1
<1>1. n + 1 \notin S
  OBVIOUS
<1> QED
  BY <1>1, Finite, FS_AddElement

LEMMA OneLess ==
    ASSUME NEW n \in Nat, NEW S, S \subseteq 1 .. n, NEW l \in S
    PROVE  Cardinality(S \ {l}) = Cardinality(S) - 1
BY Finite, FS_RemoveElement

-----------------------------------------------------------------------------
(* What the steps do to the Attempts and to the leases *)

\* The Attempts are those they were; one that runs may end or wait, and one that
\* waits may run again.
SameAttempts ==
    /\ Len(attempts') = Len(attempts) /\ DOMAIN attempts' = DOMAIN attempts
    /\ \A i \in DOMAIN attempts :
           /\ attempts'[i].task = attempts[i].task /\ attempts'[i].id = attempts[i].id
           /\ attempts'[i].tranche = attempts[i].tranche
           /\ attempts'[i].state \in Live => attempts[i].state \in Live
           /\ attempts[i].state = "SUCCEEDED" => attempts'[i].state = "SUCCEEDED"

States == Live \cup {"SUCCEEDED", "FAILED", "STALE"}

SameLeases ==
    /\ Len(leases') = Len(leases) /\ DOMAIN leases' = DOMAIN leases
    /\ \A l \in DOMAIN leases :
           /\ leases'[l].task = leases[l].task /\ leases'[l].id = leases[l].id
           /\ leases'[l].under = leases[l].under

\* An Attempt gets another state.
LEMMA StateChange ==
    ASSUME TypeAttempts, named' = named, NEW i \in DOMAIN attempts,
           NEW state \in States,
           attempts' = [attempts EXCEPT ![i].state = state]
    PROVE  /\ attempts' \in Seq(AttemptRows') /\ Len(attempts') = Len(attempts)
           /\ attempts'[i] = [attempts[i] EXCEPT !.state = state]
           /\ \A j \in DOMAIN attempts : j # i => attempts'[j] = attempts[j]
<1>1. AttemptRows' = AttemptRows
  BY DEF AttemptRows
<1> DEFINE row == [attempts[i] EXCEPT !.state = state]
<1>2. row \in AttemptRows
  BY RowsType DEF AttemptRows, States
<1>3. attempts' = [attempts EXCEPT ![i] = row]
  OBVIOUS
<1> HIDE DEF row
<1>4. attempts \in Seq(AttemptRows) /\ i \in 1 .. Len(attempts)
  BY RowsType DEF TypeAttempts
<1>5. [attempts EXCEPT ![i] = row] \in Seq(AttemptRows)
  BY <1>2, <1>4, ExceptSeq
<1>6. Len([attempts EXCEPT ![i] = row]) = Len(attempts)
  BY <1>2, <1>4, ExceptSeq
<1> QED
  BY <1>1, <1>3, <1>4, <1>5, <1>6 DEF row

LEMMA StateKeeps ==
    ASSUME TypeAttempts, named' = named, NEW i \in DOMAIN attempts,
           NEW state \in States,
           attempts' = [attempts EXCEPT ![i].state = state],
           attempts[i].state \in Live
    PROVE  SameAttempts
<1>1. attempts' \in Seq(AttemptRows') /\ Len(attempts') = Len(attempts)
  BY StateChange
<1>2. DOMAIN attempts' = DOMAIN attempts
  BY <1>1, RowsType
<1>3. attempts'[i] = [attempts[i] EXCEPT !.state = state]
  BY StateChange
<1>4. \A j \in DOMAIN attempts : j # i => attempts'[j] = attempts[j]
  BY StateChange
<1>5. attempts[i] \in AttemptRows
  BY RowsType
<1>6. /\ attempts'[i].task = attempts[i].task /\ attempts'[i].id = attempts[i].id
      /\ attempts'[i].tranche = attempts[i].tranche
  BY <1>3, <1>5 DEF AttemptRows
<1>7. attempts[i].state # "SUCCEEDED"
  BY DEF Live
<1> QED
  BY <1>1, <1>2, <1>4, <1>6, <1>7 DEF SameAttempts

\* A lease gets other fields.
LEMMA LeaseChange ==
    ASSUME TypeAttempts, named' = named, NEW l \in DOMAIN leases,
           NEW row \in LeaseRows, leases' = [leases EXCEPT ![l] = row],
           row.task = leases[l].task, row.id = leases[l].id, row.under = leases[l].under
    PROVE  leases' \in Seq(LeaseRows') /\ SameLeases
           /\ leases'[l] = row /\ \A m \in DOMAIN leases : m # l => leases'[m] = leases[m]
<1>1. LeaseRows' = LeaseRows
  BY DEF LeaseRows
<1>2. leases \in Seq(LeaseRows) /\ l \in 1 .. Len(leases)
  BY RowsType DEF TypeAttempts
<1>3. leases' \in Seq(LeaseRows) /\ Len(leases') = Len(leases)
  BY <1>2, ExceptSeq
<1>4. leases'[l] = row /\ \A m \in DOMAIN leases : m # l => leases'[m] = leases[m]
  BY <1>2
<1>5. DOMAIN leases' = DOMAIN leases
  BY <1>2
<1> QED
  BY <1>1, <1>3, <1>4, <1>5 DEF SameLeases

\* The end of an Attempt that runs.
LEMMA EndEffect ==
    ASSUME TypeAttempts, named' = named, NEW i \in DOMAIN attempts,
           NEW state \in {"SUCCEEDED", "FAILED"}, attempts[i].state \in Live,
           EndAttempt(i, state)
    PROVE  /\ TypeAttempts' /\ SameAttempts /\ SameLeases
           /\ Active' \subseteq Active /\ Unexpired' \subseteq Unexpired
           /\ Active' = {l \in Active : leases[l].id # attempts[i].id}
           /\ usage' = Cardinality(Active')
<1>1. SameAttempts /\ attempts' \in Seq(AttemptRows')
  BY StateKeeps, StateChange DEF EndAttempt, States
<1> DEFINE row(l) == IF l \in Active /\ leases[l].id = attempts[i].id
                     THEN [leases[l] EXCEPT !.state = "REVOKED"] ELSE leases[l]
<1>2. leases' = [l \in 1 .. Len(leases) |-> row(l)]
  BY RowsType DEF EndAttempt, Released
<1>3. LeaseRows' = LeaseRows
  BY DEF LeaseRows
<1>4. \A l \in 1 .. Len(leases) : row(l) \in LeaseRows
  BY RowsType DEF LeaseRows
<1>5. leases' \in Seq(LeaseRows') /\ Len(leases') = Len(leases)
  BY <1>2, <1>3, <1>4, RowsType
<1>6. DOMAIN leases' = DOMAIN leases /\ DOMAIN leases = 1 .. Len(leases)
  BY <1>2, RowsType
<1>7. \A l \in DOMAIN leases : leases'[l] = row(l)
  BY <1>2, <1>6
<1>8. \A l \in DOMAIN leases :
          /\ leases'[l].task = leases[l].task /\ leases'[l].id = leases[l].id
          /\ leases'[l].lapsed = leases[l].lapsed /\ leases'[l].under = leases[l].under
          /\ l \in Active' <=> l \in Active /\ leases[l].id # attempts[i].id
  <2> SUFFICES ASSUME NEW l \in DOMAIN leases
               PROVE  /\ leases'[l].task = leases[l].task /\ leases'[l].id = leases[l].id
                      /\ leases'[l].lapsed = leases[l].lapsed
                      /\ leases'[l].under = leases[l].under
                      /\ l \in Active' <=> l \in Active /\ leases[l].id # attempts[i].id
    OBVIOUS
  <2>1. leases[l] \in LeaseRows
    BY RowsType
  <2>2. CASE l \in Active /\ leases[l].id = attempts[i].id
    <3>1. leases'[l] = [leases[l] EXCEPT !.state = "REVOKED"]
      BY <1>7, <2>2
    <3> QED
      BY <1>6, <2>1, <2>2, <3>1 DEF LeaseRows, Active
  <2>3. CASE ~(l \in Active /\ leases[l].id = attempts[i].id)
    <3>1. leases'[l] = leases[l]
      BY <1>7, <2>3
    <3> QED
      BY <1>6, <2>3, <3>1 DEF Active
  <2> QED
    BY <2>2, <2>3
<1>9. SameLeases
  BY <1>5, <1>6, <1>8 DEF SameLeases
<1>10. Active' = {l \in Active : leases[l].id # attempts[i].id}
  BY <1>6, <1>8 DEF Active
<1>11. Unexpired' \subseteq Unexpired
  BY <1>6, <1>8, <1>10 DEF Active, Unexpired
<1>12. usage' = Cardinality(Active')
  BY <1>10 DEF EndAttempt
<1>13. usage' \in 0 .. Len(leases')
  <2>1. Active' \subseteq 1 .. Len(leases)
    BY <1>6 DEF Active
  <2>2. Len(leases) \in Nat
    BY RowsType
  <2>3. Cardinality(Active') \in Nat /\ Cardinality(Active') <= Len(leases)
    BY <2>1, <2>2, Finite
  <2> QED
    BY <1>5, <1>12, <2>2, <2>3
<1> QED
  BY <1>1, <1>5, <1>9, <1>10, <1>11, <1>12, <1>13 DEF TypeAttempts

-----------------------------------------------------------------------------
(* What the steps do to the counters of a Task *)

\* Only the counters of k change, and they keep their type.
Counted(k) == /\ counters' \in [TaskSet -> Counters]
              /\ \A n \in TaskSet \ {k} : counters'[n] = counters[n]

LEMMA CreateCounts ==
    ASSUME TypeBudget, CreateAttempt, sel \in TaskSet
    PROVE  /\ Counted(sel) /\ counters'[sel].attempts = counters[sel].attempts + 1
           /\ counters'[sel].allocated = counters[sel].allocated
           /\ counters'[sel].spent = counters[sel].spent
           /\ counters'[sel].resumes = counters[sel].resumes
           /\ counters'[sel].active = counters[sel].active
           /\ counters'[sel].remaining = counters[sel].remaining
<1>1. counters' = [counters EXCEPT ![sel].attempts = @ + 1]
  BY DEF CreateAttempt
<1>2. counters[sel].attempts + 1 \in 0 .. AttemptCeiling
  <2>1. ~AtAttemptCeiling(sel)
    BY DEF CreateAttempt, MayCreate
  <2>2. counters[sel].attempts \in 0 .. AttemptCeiling
    BY CountersType
  <2>3. AttemptCeiling \in Nat
    BY CeilingsType
  <2> QED
    BY <2>1, <2>2, <2>3 DEF AtAttemptCeiling
<1>3. counters \in [TaskSet -> Counters]
  BY DEF TypeBudget
<1> QED
  BY <1>1, <1>2, <1>3 DEF Counted, Counters
Held     == TheAttempt(hand)
HeldTask == attempts[Held].task

LEMMA HeldType ==
    ASSUME TypeAttempts, hand \in Ids
    PROVE  /\ Held \in DOMAIN attempts /\ attempts[Held].id = hand
           /\ attempts[Held] \in AttemptRows /\ HeldTask \in TaskSet
<1>1. Held \in DOMAIN attempts /\ attempts[Held].id = hand
  BY DEF Held, TheAttempt, Ids
<1> QED
  BY <1>1, RowsType DEF HeldTask, AttemptRows

LEMMA ReserveCounts ==
    ASSUME TypeBudget, TypeAttempts, WithinCaps, hand \in Ids, Reserve
    PROVE  /\ Counted(HeldTask) /\ counters[HeldTask].remaining > 0
           /\ counters'[HeldTask].spent = counters[HeldTask].spent + 1
           /\ counters'[HeldTask].remaining = counters[HeldTask].remaining - 1
           /\ counters'[HeldTask].active = IF counters[HeldTask].remaining = 1 THEN 0
                                           ELSE counters[HeldTask].active
           /\ counters'[HeldTask].allocated = counters[HeldTask].allocated
           /\ counters'[HeldTask].attempts = counters[HeldTask].attempts
           /\ counters'[HeldTask].resumes = counters[HeldTask].resumes
<1> DEFINE k == HeldTask
           c == counters[k]
           active == IF c.remaining = 1 THEN 0 ELSE c.active
           after == [c EXCEPT !.spent = c.spent + 1, !.remaining = c.remaining - 1,
                              !.active = active]
<1>1. k \in TaskSet /\ Held \in DOMAIN attempts
  BY HeldType
<1>2. c.remaining > 0
  <2>1. ~OutOfTranche(Held)
    BY DEF Reserve, Held
  <2> QED
    BY <1>1, <2>1, CountersType, CeilingsType DEF OutOfTranche, HeldTask
<1>3. c.spent + c.remaining = c.allocated
  BY <1>1 DEF WithinCaps
<1>4. /\ c.spent + 1 \in 0 .. CallCeiling /\ c.remaining - 1 \in 0 .. TrancheCalls
      /\ active \in 0 .. CallCeiling
  <2>1. /\ c.spent \in 0 .. CallCeiling /\ c.allocated \in 0 .. CallCeiling
        /\ c.remaining \in 0 .. TrancheCalls /\ c.active \in 0 .. CallCeiling
    BY <1>1, CountersType
  <2>2. CallCeiling \in Nat /\ TrancheCalls \in Nat
    BY CeilingsType
  <2> HIDE DEF c
  <2> QED
    BY <1>2, <1>3, <2>1, <2>2
<1>5. c \in Counters
  BY <1>1, CountersType
<1>6. after \in Counters
  BY <1>4, <1>5 DEF Counters
<1>7. counters \in [TaskSet -> Counters]
  BY DEF TypeBudget
<1>8. counters' = [counters EXCEPT ![k].spent = @ + 1, ![k].remaining = @ - 1,
                                  ![k].active = IF counters[k].remaining = 1 THEN 0 ELSE @]
  BY Zenon DEF Reserve, Held, HeldTask
<1>9. counters' = [counters EXCEPT ![k] = after]
  BY <1>1, <1>5, <1>7, <1>8 DEF Counters
<1>10. /\ after.spent = c.spent + 1 /\ after.remaining = c.remaining - 1
       /\ after.active = active /\ after.allocated = c.allocated
       /\ after.attempts = c.attempts /\ after.resumes = c.resumes
  BY <1>5 DEF Counters
<1> HIDE DEF after
<1>11. Counted(k) /\ counters'[k] = after
  BY <1>1, <1>6, <1>7, <1>9 DEF Counted
<1> QED
  BY <1>2, <1>10, <1>11

LEMMA MalformedCounts ==
    ASSUME TypeBudget, TypeAttempts, hand \in Ids, Malformed
    PROVE  /\ Counted(HeldTask)
           /\ counters'[HeldTask].spent = counters[HeldTask].spent
           /\ counters'[HeldTask].remaining = counters[HeldTask].remaining
           /\ counters'[HeldTask].active = counters[HeldTask].active
           /\ counters'[HeldTask].allocated = counters[HeldTask].allocated
           /\ counters'[HeldTask].attempts = counters[HeldTask].attempts
           /\ counters'[HeldTask].resumes = counters[HeldTask].resumes
<1> DEFINE n == counters[HeldTask].invalid + 1
<1>1. HeldTask \in TaskSet
  BY HeldType
<1>2. n <= InvalidCeiling /\ counters' = [counters EXCEPT ![HeldTask].invalid = n]
  BY DEF Malformed, HeldTask, Held
<1>3. n \in 0 .. InvalidCeiling
  <2>1. counters[HeldTask].invalid \in 0 .. InvalidCeiling
    BY <1>1, CountersType
  <2>2. InvalidCeiling \in Nat
    BY CeilingsType
  <2> QED
    BY <1>2, <2>1, <2>2
<1>4. counters \in [TaskSet -> Counters]
  BY DEF TypeBudget
<1> HIDE DEF n
<1> QED
  BY <1>1, <1>2, <1>3, <1>4 DEF Counted, Counters

LEMMA CheckpointCounts ==
    ASSUME TypeBudget, NEW k \in TaskSet, Checkpoint(k)
    PROVE  /\ Counted(k) /\ counters'[k].spent = counters[k].spent
           /\ counters'[k].remaining = counters[k].remaining
           /\ counters'[k].active = counters[k].active
           /\ counters'[k].allocated = counters[k].allocated
           /\ counters'[k].attempts = counters[k].attempts
           /\ counters'[k].resumes = counters[k].resumes
<1> DEFINE n == counters[k].checkpoints + 1
<1>1. n <= CheckpointCeiling /\ counters' = [counters EXCEPT ![k].checkpoints = n]
  BY DEF Checkpoint
<1>2. n \in 0 .. CheckpointCeiling
  <2>1. counters[k].checkpoints \in 0 .. CheckpointCeiling
    BY CountersType
  <2>2. CheckpointCeiling \in Nat
    BY CeilingsType
  <2> QED
    BY <1>1, <2>1, <2>2
<1>3. counters \in [TaskSet -> Counters]
  BY DEF TypeBudget
<1> HIDE DEF n
<1> QED
  BY <1>1, <1>2, <1>3 DEF Counted, Counters

LEMMA ResumeCounts ==
    ASSUME TypeBudget, NEW k \in TaskSet, ResumeTask(k)
    PROVE  /\ Counted(k) /\ counters'[k].resumes = counters[k].resumes + 1
           /\ counters'[k].spent = counters[k].spent
           /\ counters'[k].remaining = counters[k].remaining
           /\ counters'[k].active = counters[k].active
           /\ counters'[k].allocated = counters[k].allocated
           /\ counters'[k].attempts = counters[k].attempts
<1>1. counters' = [counters EXCEPT ![k].resumes = @ + 1]
  BY DEF ResumeTask
<1>2. counters[k].resumes + 1 \in 0 .. ResumeCeiling
  <2>1. counters[k].resumes < ResumeCeiling
    BY DEF ResumeTask, UnderCaps
  <2>2. counters[k].resumes \in 0 .. ResumeCeiling
    BY CountersType
  <2>3. ResumeCeiling \in Nat
    BY CeilingsType
  <2> QED
    BY <2>1, <2>2, <2>3
<1>3. counters \in [TaskSet -> Counters]
  BY DEF TypeBudget
<1> QED
  BY <1>1, <1>2, <1>3 DEF Counted, Counters

LEMMA SizeType ==
    ASSUME TypeBudget, NEW k \in TaskSet, CallsLeft(k)
    PROVE  /\ TrancheSize(k) \in 1 .. TrancheCalls
           /\ counters[k].allocated + TrancheSize(k) \in 0 .. CallCeiling
<1>1. /\ counters[k].allocated \in Nat /\ counters[k].allocated < CallCeiling
      /\ CallCeiling \in Nat /\ TrancheCalls \in Nat \ {0}
  BY CountersType, CeilingsType DEF CallsLeft
<1> DEFINE left == CallCeiling - counters[k].allocated
<1>2. left \in Nat \ {0}
  BY <1>1
<1>3. /\ TrancheSize(k) \in {TrancheCalls, left}
      /\ TrancheSize(k) <= TrancheCalls /\ TrancheSize(k) <= left
  BY <1>1, <1>2, FirstType DEF TrancheSize
<1> QED
  BY <1>1, <1>2, <1>3

LEMMA AllocateCounts ==
    ASSUME TypeBudget, TrancheInv, NEW k \in TaskSet, NEW id, NEW p, Allocate(k, id, p)
    PROVE  /\ Counted(k) /\ counters[k].remaining = 0
           /\ TrancheSize(k) \in Nat \ {0}
           /\ counters'[k].allocated = counters[k].allocated + TrancheSize(k)
           /\ counters'[k].remaining = TrancheSize(k)
           /\ counters'[k].active = Len(tranches[k]) + 1
           /\ counters'[k].spent = counters[k].spent
           /\ counters'[k].attempts = counters[k].attempts
           /\ counters'[k].resumes = counters[k].resumes
<1> DEFINE c == counters[k]
           size == TrancheSize(k)
           bootstrap == IF c.bootstraps < Bootstraps THEN 1 ELSE 0
           active == Len(tranches[k]) + 1
           after == [c EXCEPT !.allocated = c.allocated + size,
                              !.bootstraps = c.bootstraps + bootstrap,
                              !.active = active, !.remaining = size]
<1>1. CallsLeft(k) /\ c.remaining = 0
  BY DEF Allocate
<1>2. size \in 1 .. TrancheCalls /\ c.allocated + size \in 0 .. CallCeiling
  BY <1>1, SizeType
<1>3. c \in Counters /\ counters \in [TaskSet -> Counters]
  BY CountersType DEF TypeBudget
<1>4. c.bootstraps + bootstrap \in 0 .. Bootstraps
  BY CountersType, CeilingsType
<1>5. active \in 0 .. CallCeiling
  <2>1. Len(tranches[k]) \in Nat /\ c.allocated \in Nat /\ CallCeiling \in Nat
    BY CountersType, CeilingsType
  <2>2. Len(tranches[k]) <= c.allocated /\ c.allocated < CallCeiling
    BY <1>1 DEF TrancheInv, CallsLeft
  <2> QED
    BY <2>1, <2>2
<1>6. size \in 0 .. TrancheCalls /\ size \in Nat \ {0}
  BY <1>2, CeilingsType
<1>7. counters' = [counters EXCEPT ![k].allocated = @ + size,
                      ![k].bootstraps = @ + bootstrap,
                      ![k].active = active, ![k].remaining = size]
  BY DEF Allocate
<1> HIDE DEF size, bootstrap, active
<1>8. after \in Counters
  BY <1>2, <1>3, <1>4, <1>5, <1>6 DEF Counters
<1>9. counters' = [counters EXCEPT ![k] = after]
  BY <1>3, <1>7 DEF Counters
<1>10. /\ after.allocated = c.allocated + size /\ after.remaining = size
       /\ after.active = active /\ after.spent = c.spent
       /\ after.attempts = c.attempts /\ after.resumes = c.resumes
  BY <1>3 DEF Counters
<1> HIDE DEF after
<1>11. Counted(k) /\ counters'[k] = after
  BY <1>3, <1>8, <1>9 DEF Counted
<1> QED
  BY <1>1, <1>6, <1>10, <1>11 DEF size, active

-----------------------------------------------------------------------------
(* The steps *)

\* Nothing durable changes but, by its replacement, the budget.
Quiet == /\ budget' \in {budget} \cup Budgets
         /\ UNCHANGED <<plan, run, causes, attemptVars, budgetVars>>

\* A reservation finds the tranche spent and pauses the Run.
Exhaust ==
    /\ pc = "turn" /\ run' = "PAUSED" /\ causes' = causes \cup {"BUDGET_EXHAUSTED"}
    /\ EndDelivery /\ UNCHANGED <<plan, budget, attemptVars, budgetVars>>

\* Finish and Fail.
EndsAttempt ==
    \E state \in {"SUCCEEDED", "FAILED"} :
        /\ pc = "answered" /\ Authorized(Held) /\ EndAttempt(Held, state)
        /\ causes' = causes \cup Full(usage') /\ EndTurn
        /\ UNCHANGED <<plan, budget, run, task, budgetVars>>

LEMMA QuietSteps ==
    Deliver \/ SelectExisting \/ SelectTask \/ NothingToSelect \/ CreationRaises \/ Act
        \/ NoAction \/ UNCHANGED vars \/ (\E b \in Budgets : ReplaceBudget(b)) => Quiet
<1> USE DEF Quiet, runVars
<1>1. Deliver \/ SelectTask \/ Act \/ UNCHANGED vars => Quiet
  BY DEF Deliver, SelectTask, Act, vars
<1>2. SelectExisting => Quiet
  BY DEF SelectExisting, Stop
<1>3. NothingToSelect => Quiet
  BY DEF NothingToSelect, Stop
<1>4. CreationRaises => Quiet
  BY DEF CreationRaises, Stop
<1>5. NoAction => Quiet
  BY DEF NoAction, Stop
<1>6. ASSUME NEW b \in Budgets, ReplaceBudget(b) PROVE Quiet
  BY <1>6 DEF ReplaceBudget
<1> QED
  BY <1>1, <1>2, <1>3, <1>4, <1>5, <1>6

LEMMA Steps ==
    ASSUME [Next]_vars
    PROVE  \/ Quiet \/ Exhaust \/ CreateAttempt \/ Reserve \/ Malformed \/ EndsAttempt \/ Wait
           \/ \E k \in TaskSet :
                 \/ \E id \in Names(k), p \in BOOLEAN : Allocate(k, id, p)
                 \/ \E p \in BOOLEAN : RefuseTranche(k, p)
                 \/ Checkpoint(k) \/ ResumeTask(k)
           \/ \E l \in DOMAIN leases : Lapse(l) \/ ExpireLease(l) \/ RenewLease(l)
           \/ \E i \in DOMAIN attempts : IssueLease(i) \/ Grant(i) \/ Invalidate(i)
<1>1. NotReserved => Quiet \/ Exhaust
  BY DEF NotReserved, Stop, Quiet, Exhaust, runVars
<1>2. Finish => EndsAttempt
  BY DEF Finish, Terminal, EndsAttempt, Held
<1>3. Fail => EndsAttempt
  BY DEF Fail, Terminal, EndsAttempt, Held
<1> QED
  BY <1>1, <1>2, <1>3, QuietSteps DEF Next, Runtime, Service

\* The Attempt that is acted upon runs.
LEMMA HeldRuns ==
    ASSUME TypeAttempts, HandInv, Malformed \/ EndsAttempt \/ Wait \/ Reserve
    PROVE  /\ hand \in Ids /\ Held \in DOMAIN attempts /\ HeldTask \in TaskSet
           /\ attempts[Held].state = "RUNNING"
<1>1. pc \in {"turn", "answered"}
  BY DEF Malformed, EndsAttempt, Wait, Reserve
<1>2. Runnable(Held)
  BY Zenon DEF Malformed, EndsAttempt, Wait, Reserve, Held, Authorized
<1> QED
  BY <1>1, <1>2, HeldType DEF HandInv, Runnable

-----------------------------------------------------------------------------
(* The type *)

LEMMA RunType == TypeRun /\ [Next]_vars => TypeRun'
<1> SUFFICES ASSUME TypeRun, [Next]_vars PROVE TypeRun'
  OBVIOUS
<1> USE DEF TypeRun, Causes, Full, Committed
<1>1. CASE Quiet
  BY <1>1 DEF Quiet, runVars
<1>2. CASE Exhaust
  BY <1>2 DEF Exhaust
<1>3. CASE CreateAttempt
  BY <1>3 DEF CreateAttempt
<1>4. CASE Reserve
  BY <1>4 DEF Reserve, runVars
<1>5. CASE Malformed
  BY <1>5 DEF Malformed
<1>6. CASE EndsAttempt
  BY <1>6 DEF EndsAttempt
<1>7. CASE Wait
  BY <1>7 DEF Wait, runVars
<1>8. ASSUME NEW k \in TaskSet PROVE
          /\ \A id, p : Allocate(k, id, p) => TypeRun'
          /\ \A p : RefuseTranche(k, p) => TypeRun'
          /\ Checkpoint(k) => TypeRun'
          /\ ResumeTask(k) => TypeRun'
  BY DEF Allocate, RefuseTranche, Checkpoint, ResumeTask, CausesAfterResume
<1>9. ASSUME NEW l \in DOMAIN leases, Lapse(l) \/ ExpireLease(l) \/ RenewLease(l)
      PROVE TypeRun'
  BY <1>9 DEF Lapse, ExpireLease, RenewLease, runVars
<1>10. ASSUME NEW i \in DOMAIN attempts, IssueLease(i) \/ Grant(i) \/ Invalidate(i) PROVE TypeRun'
  BY <1>10 DEF IssueLease, Grant, Invalidate
<1> QED
  BY <1>1, <1>2, <1>3, <1>4, <1>5, <1>6, <1>7, <1>8, <1>9, <1>10, Steps
LEMMA NamesType ==
    ASSUME TypeAttempts, TypeBudget, NEW k, NEW id \in Names(k)
    PROVE  id \in 1 .. named + 1
<1>1. named \in Nat
  BY DEF TypeBudget
<1>2. \A i \in DOMAIN attempts : attempts[i].id \in 1 .. named
  BY RowsType DEF AttemptRows
<1> QED
  BY <1>1, <1>2 DEF Names, AttemptsOf

LEMMA AllocateNames ==
    ASSUME TypeAttempts, TypeBudget, NEW k \in TaskSet, NEW id \in Names(k), NEW p,
           Allocate(k, id, p)
    PROVE  named' \in {named, named + 1} /\ id \in 1 .. named'
<1>1. id \in 1 .. named + 1 /\ named \in Nat
  BY NamesType DEF TypeBudget
<1> DEFINE S == {n \in {named, named + 1} : n >= id}
<1>2. named + 1 \in S /\ S \in SUBSET Nat
  BY <1>1
<1>3. First(S) \in S
  BY <1>2, FirstType
<1> QED
  BY <1>1, <1>3 DEF Allocate

LEMMA BudgetType == Inv /\ [Next]_vars => TypeBudget'
<1> SUFFICES ASSUME Inv, [Next]_vars PROVE TypeBudget'
  OBVIOUS
<1>a. TypeBudget /\ TypeAttempts /\ WithinCaps /\ HandInv /\ TrancheInv /\ SelInv
  BY DEF Inv, TypeOK
<1>1. CASE UNCHANGED <<counters, tranches, resume, named>>
  BY <1>a, <1>1 DEF TypeBudget
<1>2. CASE CreateAttempt
  <2>1. sel \in TaskSet
    BY <1>a, <1>2 DEF SelInv, CreateAttempt
  <2>2. counters' \in [TaskSet -> Counters]
    BY <1>2, <1>a, <2>1, CreateCounts DEF Counted
  <2>3. resume' = [resume EXCEPT ![sel] = 0] /\ UNCHANGED <<tranches, named>>
    BY <1>2 DEF CreateAttempt, ResumeAfter
  <2>4. tranches' = tranches /\ named' = named /\ named \in Nat
    BY <1>a, <2>3 DEF TypeBudget
  <2>5. resume' \in [TaskSet -> 0 .. named]
    <3>1. resume \in [TaskSet -> 0 .. named] /\ 0 \in 0 .. named
      BY <1>a, <2>4 DEF TypeBudget
    <3> QED
      BY <2>3, <3>1
  <2> QED
    BY <1>a, <2>2, <2>4, <2>5 DEF TypeBudget
<1>3. CASE Reserve
  BY <1>a, <1>3, HeldRuns, ReserveCounts DEF Reserve, Counted, TypeBudget
<1>4. CASE Malformed
  BY <1>a, <1>4, HeldRuns, MalformedCounts DEF Malformed, Counted, TypeBudget
<1>5. ASSUME NEW k \in TaskSet, NEW id \in Names(k), NEW p \in BOOLEAN, Allocate(k, id, p)
      PROVE  TypeBudget'
  <2>1. named \in Nat /\ named' \in {named, named + 1} /\ id \in 1 .. named'
    BY <1>a, <1>5, AllocateNames DEF TypeBudget
  <2>2. named' \in Nat /\ named <= named'
    BY <2>1
  <2>3. counters' \in [TaskSet -> Counters]
    BY <1>a, <1>5, AllocateCounts DEF Counted
  <2>4. tranches' \in [TaskSet -> Seq(1 .. named')]
    <3>1. \A n \in TaskSet : tranches[n] \in Seq(1 .. named')
      BY <1>a, <2>1, <2>2, MoreNames DEF TypeBudget
    <3>2. Append(tranches[k], id) \in Seq(1 .. named')
      BY <2>1, <3>1
    <3>3. tranches' = [tranches EXCEPT ![k] = Append(tranches[k], id)]
      BY <1>5 DEF Allocate
    <3> QED
      BY <1>a, <3>1, <3>2, <3>3 DEF TypeBudget
  <2>5. resume' = resume
    BY <1>5 DEF Allocate
  <2>6. resume' \in [TaskSet -> 0 .. named']
    BY <1>a, <2>1, <2>5 DEF TypeBudget
  <2> QED
    BY <2>2, <2>3, <2>4, <2>6 DEF TypeBudget
<1>6. ASSUME NEW k \in TaskSet, Checkpoint(k) PROVE TypeBudget'
  BY <1>a, <1>6, CheckpointCounts DEF Checkpoint, Counted, TypeBudget
<1>7. ASSUME NEW k \in TaskSet, ResumeTask(k) PROVE TypeBudget'
  <2>1. /\ named \in Nat /\ named' = named + 1 /\ tranches' = tranches
        /\ resume' = [resume EXCEPT ![k] = named'] /\ named' \in Nat /\ named <= named'
    BY <1>a, <1>7 DEF ResumeTask, TypeBudget
  <2>2. counters' \in [TaskSet -> Counters]
    BY <1>a, <1>7, ResumeCounts DEF Counted
  <2>3. tranches' \in [TaskSet -> Seq(1 .. named')]
    BY <1>a, <2>1, MoreNames DEF TypeBudget
  <2>4. resume' \in [TaskSet -> 0 .. named']
    BY <1>a, <2>1 DEF TypeBudget
  <2> QED
    BY <2>1, <2>2, <2>3, <2>4 DEF TypeBudget
<1>8. ASSUME NEW k \in TaskSet, NEW p \in BOOLEAN, RefuseTranche(k, p) PROVE TypeBudget'
  BY <1>1, <1>8 DEF RefuseTranche
<1>9. ASSUME NEW l \in DOMAIN leases, Lapse(l) \/ ExpireLease(l) \/ RenewLease(l)
      PROVE TypeBudget'
  BY <1>1, <1>9 DEF Lapse, ExpireLease, RenewLease, budgetVars
<1>10. ASSUME NEW i \in DOMAIN attempts, IssueLease(i) \/ Grant(i) \/ Invalidate(i) PROVE TypeBudget'
  BY <1>1, <1>10 DEF IssueLease, Grant, Invalidate, budgetVars
<1>11. CASE Quiet \/ Exhaust \/ EndsAttempt \/ Wait
  BY <1>1, <1>11 DEF Quiet, Exhaust, EndsAttempt, Wait, budgetVars
<1> QED
  BY <1>2, <1>3, <1>4, <1>5, <1>6, <1>7, <1>8, <1>9, <1>10, <1>11, Steps
LEMMA SnapshotType ==
    ASSUME TypeAttempts, NEW k \in TaskSet, NEW c \in Counters
    PROVE  Snapshot(k, c) \in Counters \X Nat
<1>1. [c EXCEPT !.active = 0, !.remaining = 0, !.bootstraps = 0] \in Counters
  <2>1. 0 \in 0 .. CallCeiling /\ 0 \in 0 .. TrancheCalls /\ 0 \in 0 .. Bootstraps
    BY CeilingsType
  <2> QED
    BY <2>1 DEF Counters
<1>2. Cardinality({l \in DOMAIN leases : leases[l].task = k}) \in Nat
  <2>1. Len(leases) \in Nat /\ DOMAIN leases = 1 .. Len(leases)
    BY RowsType
  <2> QED
    BY <2>1, Finite
<1> QED
  BY <1>1, <1>2 DEF Snapshot

LEMMA PauseType ==
    ASSUME TypeRun, TypeTasks, TypeAttempts, NEW k \in TaskSet, counters'[k] \in Counters,
           NEW reason \in Reasons, PauseTask(k, reason)
    PROVE  TypeTasks'
<1>1. Snapshot(k, counters'[k]) \in Counters \X Nat
  BY SnapshotType
<1> DEFINE row == [reason |-> reason, budget |-> budget,
                snapshot |-> Snapshot(k, counters'[k])]
<1>2. row \in Pauses
  BY <1>1 DEF TypeRun, Pauses
<1>3. pause' = [pause EXCEPT ![k] = row] /\ task' = [task EXCEPT ![k] = "PAUSED"]
  BY DEF PauseTask
<1> HIDE DEF row
<1> QED
  BY <1>2, <1>3 DEF TypeTasks

LEMMA TasksStep == Inv /\ [Next]_vars => TypeTasks'
<1> SUFFICES ASSUME Inv, [Next]_vars PROVE TypeTasks'
  OBVIOUS
<1>a. TypeRun /\ TypeTasks /\ TypeBudget /\ TypeAttempts /\ HandInv /\ SelInv
  BY DEF Inv, TypeOK
<1>b. \A k \in TaskSet : counters'[k] \in Counters
  BY BudgetType DEF TypeBudget
<1>1. CASE UNCHANGED <<task, pause>>
  BY <1>a, <1>1 DEF TypeTasks
<1>2. CASE CreateAttempt
  BY <1>a, <1>2 DEF CreateAttempt, SelInv, TypeTasks
<1>3. CASE Malformed
  <2>1. HeldTask \in TaskSet
    BY <1>a, <1>3, HeldRuns
  <2>2. CASE PauseTask(HeldTask, "REPEATED_INVALID_ACTION")
    <3>1. "REPEATED_INVALID_ACTION" \in Reasons
      BY DEF Reasons
    <3> QED
      BY <1>a, <1>b, <2>1, <2>2, <3>1, PauseType
  <2>3. CASE task' = [task EXCEPT ![HeldTask] = "READY"] /\ UNCHANGED pause
    BY <1>a, <2>1, <2>3 DEF TypeTasks
  <2> QED
    BY <1>3, <2>2, <2>3, Zenon DEF Malformed, Held, HeldTask
<1>4. ASSUME NEW k \in TaskSet, NEW p \in BOOLEAN, RefuseTranche(k, p) PROVE TypeTasks'
  <2>1. PICK reason \in {"NO_PROGRESS", "TASK_CALL_CEILING"} : PauseTask(k, reason)
    BY <1>4 DEF RefuseTranche
  <2>2. reason \in Reasons
    BY DEF Reasons
  <2> QED
    BY <1>a, <1>b, <2>1, <2>2, PauseType
<1>5. ASSUME NEW k \in TaskSet, Checkpoint(k) PROVE TypeTasks'
  <2>1. CASE PauseTask(k, "REPEATED_CHECKPOINT")
    <3>1. "REPEATED_CHECKPOINT" \in Reasons
      BY DEF Reasons
    <3> QED
      BY <1>a, <1>b, <2>1, <3>1, PauseType
  <2> QED
    BY <1>1, <1>5, <2>1 DEF Checkpoint
<1>6. ASSUME NEW k \in TaskSet, ResumeTask(k) PROVE TypeTasks'
  BY <1>a, <1>6 DEF ResumeTask, TypeTasks
<1>7. ASSUME NEW k \in TaskSet, NEW id, NEW p, Allocate(k, id, p) PROVE TypeTasks'
  BY <1>1, <1>7 DEF Allocate, attemptVars
<1>8. ASSUME NEW l \in DOMAIN leases, Lapse(l) \/ ExpireLease(l) \/ RenewLease(l)
      PROVE TypeTasks'
  BY <1>1, <1>8 DEF Lapse, ExpireLease, RenewLease, budgetVars
<1>9. ASSUME NEW i \in DOMAIN attempts, IssueLease(i) \/ Grant(i) \/ Invalidate(i) PROVE TypeTasks'
  BY <1>1, <1>9 DEF IssueLease, Grant, Invalidate, budgetVars
<1>10. CASE Quiet \/ Exhaust \/ EndsAttempt \/ Wait \/ Reserve
  BY <1>1, <1>10 DEF Quiet, Exhaust, EndsAttempt, Wait, Reserve, budgetVars, attemptVars
<1> QED
  BY <1>2, <1>3, <1>4, <1>5, <1>6, <1>7, <1>8, <1>9, <1>10, Steps
LEMMA AppendEffect ==
    ASSUME NEW S, NEW s \in Seq(S), NEW e \in S, NEW t, t = Append(s, e)
    PROVE  /\ t \in Seq(S) /\ Len(t) = Len(s) + 1
           /\ DOMAIN s = 1 .. Len(s) /\ Len(s) \in Nat
           /\ DOMAIN t = DOMAIN s \cup {Len(s) + 1}
           /\ \A i \in DOMAIN s : t[i] = s[i]
           /\ t[Len(s) + 1] = e
<1>1. /\ t \in Seq(S) /\ Len(t) = Len(s) + 1 /\ DOMAIN s = 1 .. Len(s) /\ Len(s) \in Nat
      /\ DOMAIN t = 1 .. Len(s) + 1 /\ t[Len(s) + 1] = e
      /\ \A i \in 1 .. Len(s) : t[i] = s[i]
  OBVIOUS
<1> QED
  BY <1>1

NewRow == [task |-> sel, id |-> AttemptId(sel), state |-> "RUNNING", bound |-> budget,
           tranche |-> IF resume[sel] # 0 THEN 0 ELSE counters[sel].active]

LeaseRow(k, id) == [task |-> k, id |-> id, state |-> "ACTIVE", lapsed |-> FALSE,
                    under |-> budget]

LEMMA IdType ==
    ASSUME TypeBudget, TrancheInv, NEW k \in TaskSet, Allocated(k)
    PROVE  AttemptId(k) \in 1 .. named
<1>1. /\ named \in Nat /\ resume[k] \in 0 .. named /\ tranches[k] \in Seq(1 .. named)
      /\ counters[k].active \in Nat /\ counters[k].remaining \in Nat
  BY CountersType, CeilingsType DEF TypeBudget
<1>2. CASE resume[k] # 0
  BY <1>1, <1>2 DEF AttemptId
<1>3. CASE resume[k] = 0
  <2>1. counters[k].active > 0 /\ counters[k].active <= Len(tranches[k])
    BY <1>3 DEF TrancheInv, Allocated
  <2>2. counters[k].active \in 1 .. Len(tranches[k])
    BY <1>1, <2>1
  <2>3. tranches[k][counters[k].active] \in 1 .. named
    BY <1>1, <2>2
  <2> QED
    BY <1>3, <2>3 DEF AttemptId
<1> QED
  BY <1>2, <1>3

LEMMA CreateEffect ==
    ASSUME Inv, CreateAttempt
    PROVE  /\ sel \in TaskSet /\ fresh /\ TypeAttempts' /\ Cardinality(Active) < Ceiling
           /\ NewRow \in AttemptRows /\ Len(attempts') = Len(attempts) + 1
           /\ DOMAIN attempts' = DOMAIN attempts \cup {Len(attempts) + 1}
           /\ \A i \in DOMAIN attempts : attempts'[i] = attempts[i]
           /\ attempts'[Len(attempts) + 1] = NewRow
           /\ DOMAIN leases' = DOMAIN leases \cup {Len(leases) + 1}
           /\ Len(leases') = Len(leases) + 1
           /\ \A l \in DOMAIN leases : leases'[l] = leases[l]
           /\ leases'[Len(leases) + 1] = LeaseRow(sel, AttemptId(sel))
           /\ hand' = AttemptId(sel) /\ usage' = Cardinality(Active) + 1
<1>a. TypeRun /\ TypeBudget /\ TypeAttempts /\ TrancheInv /\ SelInv
  BY DEF Inv, TypeOK
<1>1. sel \in TaskSet /\ fresh /\ Allocated(sel) /\ Cardinality(Active) < Ceiling
  BY <1>a DEF SelInv, CreateAttempt, MayCreate
<1>2. AttemptId(sel) \in 1 .. named
  BY <1>a, <1>1, IdType
<1>3. NewRow \in AttemptRows /\ LeaseRow(sel, AttemptId(sel)) \in LeaseRows
  BY <1>a, <1>1, <1>2, CountersType, CeilingsType
     DEF NewRow, LeaseRow, AttemptRows, LeaseRows, Live, TypeRun
<1>4. /\ attempts' = Append(attempts, NewRow)
      /\ leases' = Append(leases, LeaseRow(sel, AttemptId(sel)))
      /\ hand' = AttemptId(sel) /\ usage' = Cardinality(Active) + 1 /\ named' = named
  BY DEF CreateAttempt, NewRow, LeaseRow
<1> HIDE DEF NewRow, LeaseRow
<1>5. attempts \in Seq(AttemptRows) /\ leases \in Seq(LeaseRows)
  BY <1>a DEF TypeAttempts
<1>6. /\ attempts' \in Seq(AttemptRows) /\ Len(attempts') = Len(attempts) + 1
      /\ DOMAIN attempts' = DOMAIN attempts \cup {Len(attempts) + 1}
      /\ \A i \in DOMAIN attempts : attempts'[i] = attempts[i]
      /\ attempts'[Len(attempts) + 1] = NewRow
  BY <1>3, <1>4, <1>5, AppendEffect
<1>7. /\ leases' \in Seq(LeaseRows) /\ Len(leases') = Len(leases) + 1
      /\ DOMAIN leases' = DOMAIN leases \cup {Len(leases) + 1}
      /\ \A l \in DOMAIN leases : leases'[l] = leases[l]
      /\ leases'[Len(leases) + 1] = LeaseRow(sel, AttemptId(sel))
  BY <1>3, <1>4, <1>5, AppendEffect
<1>8. AttemptRows' = AttemptRows /\ LeaseRows' = LeaseRows
  BY <1>4 DEF AttemptRows, LeaseRows
<1>9. usage' \in 0 .. Len(leases')
  <2>1. Len(leases) \in Nat /\ Active \subseteq 1 .. Len(leases)
    BY <1>a, RowsType DEF Active
  <2>2. Cardinality(Active) \in Nat /\ Cardinality(Active) <= Len(leases)
    BY <2>1, Finite
  <2> QED
    BY <1>4, <1>7, <2>1, <2>2
<1>10. TypeAttempts'
  BY <1>6, <1>7, <1>8, <1>9 DEF TypeAttempts
<1> QED
  BY <1>1, <1>3, <1>4, <1>6, <1>7, <1>10

LEMMA IssueEffect ==
    ASSUME Inv, NEW i \in DOMAIN attempts, IssueLease(i)
    PROVE  /\ TypeAttempts' /\ UNCHANGED attempts /\ Cardinality(Unexpired) < Ceiling
           /\ DOMAIN leases' = DOMAIN leases \cup {Len(leases) + 1}
           /\ Len(leases') = Len(leases) + 1
           /\ \A l \in DOMAIN leases : leases'[l] = leases[l]
           /\ leases'[Len(leases) + 1] = LeaseRow(attempts[i].task, attempts[i].id)
           /\ usage' = Cardinality(Unexpired) + 1
<1>a. TypeRun /\ TypeAttempts /\ attempts[i] \in AttemptRows
  BY RowsType DEF Inv, TypeOK
<1> DEFINE row == LeaseRow(attempts[i].task, attempts[i].id)
<1>1. row \in LeaseRows
  BY <1>a DEF LeaseRow, AttemptRows, LeaseRows, TypeRun
<1>2. /\ leases' = Append(leases, row) /\ usage' = Cardinality(Unexpired) + 1
      /\ named' = named /\ attempts' = attempts /\ Cardinality(Unexpired) < Ceiling
  BY DEF IssueLease, LeaseRow, budgetVars
<1> HIDE DEF row
<1>3. leases \in Seq(LeaseRows)
  BY <1>a DEF TypeAttempts
<1>4. /\ leases' \in Seq(LeaseRows) /\ Len(leases') = Len(leases) + 1
      /\ DOMAIN leases' = DOMAIN leases \cup {Len(leases) + 1}
      /\ \A l \in DOMAIN leases : leases'[l] = leases[l]
      /\ leases'[Len(leases) + 1] = row
  BY <1>1, <1>2, <1>3, AppendEffect
<1>5. AttemptRows' = AttemptRows /\ LeaseRows' = LeaseRows
  BY <1>2 DEF AttemptRows, LeaseRows
<1>6. usage' \in 0 .. Len(leases')
  <2>1. Len(leases) \in Nat /\ Unexpired \subseteq 1 .. Len(leases)
    BY <1>a, RowsType DEF Active, Unexpired
  <2>2. Cardinality(Unexpired) \in Nat /\ Cardinality(Unexpired) <= Len(leases)
    BY <2>1, Finite
  <2> QED
    BY <1>2, <1>4, <2>1, <2>2
<1>7. TypeAttempts'
  BY <1>a, <1>2, <1>4, <1>5, <1>6 DEF TypeAttempts
<1> QED
  BY <1>2, <1>4, <1>7 DEF row
\* No lease comes into force, and the usage is the old one or that of the
\* leases which are left.
Shrinks ==
    /\ SameLeases /\ Active' \subseteq Active /\ Unexpired' \subseteq Unexpired
    /\ usage' = usage \/ usage' = Cardinality(Active')

LEMMA LeaseStep ==
    ASSUME Inv, NEW l \in DOMAIN leases, Lapse(l) \/ ExpireLease(l) \/ RenewLease(l)
    PROVE  TypeAttempts' /\ Shrinks
<1>a. TypeAttempts /\ leases[l] \in LeaseRows /\ DOMAIN leases = 1 .. Len(leases)
      /\ Len(leases) \in Nat
  BY RowsType DEF Inv, TypeOK
<1>b. UNCHANGED <<attempts, named>>
  BY DEF Lapse, ExpireLease, RenewLease, budgetVars
<1>c. AttemptRows' = AttemptRows /\ LeaseRows' = LeaseRows
  BY <1>b DEF AttemptRows, LeaseRows
<1>1. CASE Lapse(l)
  <2> DEFINE new == [leases[l] EXCEPT !.lapsed = TRUE]
  <2>1. /\ new \in LeaseRows /\ new.task = leases[l].task /\ new.id = leases[l].id
        /\ new.under = leases[l].under /\ new.state = leases[l].state /\ new.lapsed
    BY <1>a DEF LeaseRows
  <2>2. leases' = [leases EXCEPT ![l] = new] /\ usage' = usage
    BY <1>1 DEF Lapse
  <2> HIDE DEF new
  <2>3. /\ leases' \in Seq(LeaseRows') /\ SameLeases /\ leases'[l] = new
        /\ \A m \in DOMAIN leases : m # l => leases'[m] = leases[m]
    BY <1>a, <1>b, <2>1, <2>2, LeaseChange
  <2>4. Active' = Active /\ Unexpired' \subseteq Unexpired
    BY <2>1, <2>3 DEF SameLeases, Active, Unexpired
  <2> QED
    BY <1>a, <1>b, <1>c, <2>2, <2>3, <2>4 DEF TypeAttempts, Shrinks, SameLeases
<1>2. CASE ExpireLease(l)
  <2> DEFINE new == [leases[l] EXCEPT !.state = "EXPIRED"]
  <2>1. /\ new \in LeaseRows /\ new.task = leases[l].task /\ new.id = leases[l].id
        /\ new.under = leases[l].under /\ new.state = "EXPIRED"
    BY <1>a DEF LeaseRows
  <2>2. /\ leases' = [leases EXCEPT ![l] = new] /\ usage' = Cardinality(Active) - 1
        /\ l \in Active /\ leases[l].lapsed
    BY <1>2 DEF ExpireLease
  <2> HIDE DEF new
  <2>3. /\ leases' \in Seq(LeaseRows') /\ SameLeases /\ leases'[l] = new
        /\ \A m \in DOMAIN leases : m # l => leases'[m] = leases[m]
    BY <1>a, <1>b, <2>1, <2>2, LeaseChange
  <2>4. Active' = Active \ {l} /\ Unexpired' \subseteq Unexpired
    BY <2>1, <2>2, <2>3 DEF SameLeases, Active, Unexpired
  <2>5. Active \subseteq 1 .. Len(leases)
    BY <1>a DEF Active
  <2>6. /\ Cardinality(Active') = Cardinality(Active) - 1 /\ Cardinality(Active) <= Len(leases)
        /\ Cardinality(Active) \in Nat /\ Cardinality(Active') \in Nat
    <3>1. Cardinality(Active') = Cardinality(Active) - 1
      BY <1>a, <2>2, <2>4, <2>5, OneLess
    <3>2. Active' \subseteq 1 .. Len(leases)
      BY <2>4, <2>5
    <3> QED
      BY <1>a, <2>5, <3>1, <3>2, Finite
  <2>7. usage' \in 0 .. Len(leases') /\ usage' = Cardinality(Active')
    BY <1>a, <2>2, <2>3, <2>6 DEF SameLeases
  <2> QED
    BY <1>a, <1>b, <1>c, <2>3, <2>4, <2>7 DEF TypeAttempts, Shrinks
<1>3. CASE RenewLease(l)
  <2> DEFINE new == [leases[l] EXCEPT !.lapsed = FALSE]
  <2>1. /\ new \in LeaseRows /\ new.task = leases[l].task /\ new.id = leases[l].id
        /\ new.under = leases[l].under /\ new.state = leases[l].state
    BY <1>a DEF LeaseRows
  <2>2. leases' = [leases EXCEPT ![l] = new] /\ usage' = usage /\ l \in Unexpired
    BY <1>3 DEF RenewLease, Renewable
  <2> HIDE DEF new
  <2>3. /\ leases' \in Seq(LeaseRows') /\ SameLeases /\ leases'[l] = new
        /\ \A m \in DOMAIN leases : m # l => leases'[m] = leases[m]
    BY <1>a, <1>b, <2>1, <2>2, LeaseChange
  <2>4. Active' = Active /\ Unexpired' \subseteq Unexpired
    BY <2>1, <2>2, <2>3 DEF SameLeases, Active, Unexpired
  <2> QED
    BY <1>a, <1>b, <1>c, <2>2, <2>3, <2>4 DEF TypeAttempts, Shrinks, SameLeases
<1> QED
  BY <1>1, <1>2, <1>3

LEMMA AttemptsStep ==
    ASSUME Inv, [Next]_vars
    PROVE  /\ TypeAttempts'
           /\ CreateAttempt \/ SameAttempts
           /\ \/ CreateAttempt
              \/ \E i \in DOMAIN attempts : IssueLease(i)
              \/ Shrinks
<1>a. TypeAttempts /\ TypeBudget /\ HandInv
  BY DEF Inv, TypeOK
<1>b. UNCHANGED attempts => SameAttempts
  BY DEF SameAttempts
<1>c. UNCHANGED <<leases, usage>> => Shrinks
  BY DEF Shrinks, SameLeases, Active, Unexpired
<1>d. UNCHANGED named => AttemptRows' = AttemptRows /\ LeaseRows' = LeaseRows
  BY DEF AttemptRows, LeaseRows
<1>1. CASE UNCHANGED <<attempts, leases, usage, named>>
  BY <1>a, <1>b, <1>c, <1>d, <1>1 DEF TypeAttempts
<1>2. ASSUME UNCHANGED <<attempts, leases, usage>>, named' \in {named, named + 1}
      PROVE  TypeAttempts' /\ SameAttempts /\ Shrinks
  <2>1. named \in Nat /\ named' \in Nat /\ named <= named'
    BY <1>a, <1>2 DEF TypeBudget
  <2> QED
    BY <1>a, <1>b, <1>c, <1>2, <2>1, MoreNames DEF TypeAttempts
<1>3. CASE CreateAttempt
  BY <1>3, CreateEffect
<1>4. ASSUME NEW state \in {"SUCCEEDED", "FAILED"}, EndAttempt(Held, state),
             Malformed \/ EndsAttempt
      PROVE  TypeAttempts' /\ SameAttempts /\ Shrinks
  <2>1. named' = named /\ Held \in DOMAIN attempts /\ attempts[Held].state \in Live
    BY <1>a, <1>4, HeldRuns DEF Malformed, EndsAttempt, budgetVars, Live
  <2> QED
    BY <1>a, <1>4, <2>1, EndEffect DEF Shrinks
<1>5. CASE Malformed
  <2>1. EndAttempt(Held, "FAILED")
    BY <1>5, Zenon DEF Malformed, Held
  <2> QED
    BY <1>4, <1>5, <2>1
<1>6. CASE EndsAttempt
  <2>1. PICK state \in {"SUCCEEDED", "FAILED"} : EndAttempt(Held, state)
    BY <1>6 DEF EndsAttempt
  <2> QED
    BY <1>4, <1>6, <2>1
<1>7. ASSUME NEW i \in DOMAIN attempts, NEW state \in States,
             attempts' = [attempts EXCEPT ![i].state = state], attempts[i].state \in Live,
             UNCHANGED <<leases, usage, named>>
      PROVE  TypeAttempts' /\ SameAttempts /\ Shrinks
  <2>1. attempts' \in Seq(AttemptRows') /\ SameAttempts
    BY <1>a, <1>7, StateChange, StateKeeps
  <2> QED
    BY <1>a, <1>c, <1>d, <1>7, <2>1 DEF TypeAttempts
<1>8. CASE Wait
  <2>1. Held \in DOMAIN attempts /\ attempts[Held].state \in Live /\ "WAITING_APPROVAL" \in States
    BY <1>a, <1>8, HeldRuns DEF Live, States
  <2>2. /\ attempts' = [attempts EXCEPT ![Held].state = "WAITING_APPROVAL"]
        /\ UNCHANGED <<leases, usage, named>>
    BY <1>8 DEF Wait, Held, budgetVars
  <2> QED
    BY <1>7, <2>1, <2>2
<1>9. ASSUME NEW i \in DOMAIN attempts, Grant(i) \/ Invalidate(i)
      PROVE  TypeAttempts' /\ SameAttempts /\ Shrinks
  <2>1. attempts[i].state \in Live
    BY <1>9 DEF Grant, Invalidate, Waiting, Live
  <2>2. PICK state \in {"RUNNING", "STALE"} : attempts' = [attempts EXCEPT ![i].state = state]
    BY <1>9 DEF Grant, Invalidate
  <2>3. state \in States /\ UNCHANGED <<leases, usage, named>>
    BY <1>9 DEF Grant, Invalidate, budgetVars, States, Live
  <2> QED
    BY <1>7, <2>1, <2>2, <2>3
<1>10. ASSUME NEW i \in DOMAIN attempts, IssueLease(i) PROVE TypeAttempts' /\ SameAttempts
  BY <1>b, <1>10, IssueEffect
<1>11. ASSUME NEW l \in DOMAIN leases, Lapse(l) \/ ExpireLease(l) \/ RenewLease(l)
       PROVE  TypeAttempts' /\ SameAttempts /\ Shrinks
  <2>1. UNCHANGED attempts
    BY <1>11 DEF Lapse, ExpireLease, RenewLease
  <2> QED
    BY <1>b, <1>11, <2>1, LeaseStep
<1>12. ASSUME NEW k \in TaskSet, NEW id \in Names(k), NEW p \in BOOLEAN, Allocate(k, id, p)
       PROVE  TypeAttempts' /\ SameAttempts /\ Shrinks
  BY <1>2, <1>a, <1>12, AllocateNames DEF Allocate, attemptVars
<1>13. ASSUME NEW k \in TaskSet, NEW p \in BOOLEAN, RefuseTranche(k, p)
       PROVE  TypeAttempts' /\ SameAttempts /\ Shrinks
  BY <1>2, <1>13 DEF RefuseTranche
<1>14. ASSUME NEW k \in TaskSet, Checkpoint(k) \/ ResumeTask(k)
       PROVE  TypeAttempts' /\ SameAttempts /\ Shrinks
  BY <1>2, <1>14 DEF Checkpoint, ResumeTask
<1>15. CASE Quiet \/ Exhaust \/ Reserve
  BY <1>b, <1>c, <1>1, <1>15 DEF Quiet, Exhaust, Reserve, attemptVars, budgetVars
<1> QED
  BY <1>3, <1>5, <1>6, <1>8, <1>9, <1>10, <1>11, <1>12, <1>13, <1>14, <1>15, Steps
-----------------------------------------------------------------------------
(* The process *)

\* A delivery or a turn comes to its end.
Ends == /\ pc' \in {"stopped", "idle"} /\ sel' \in {sel, None} /\ hand' \in {hand, 0}
        /\ fresh' \in {fresh, FALSE}

\* The runtime takes no step; what it relies on is as it was, or it will be told.
Stays == /\ UNCHANGED <<pc, sel, hand>>
         /\ fresh' = FALSE \/ UNCHANGED <<plan, run, causes, task, attempts, fresh>>

LEMMA ProcessSteps ==
    ASSUME [Next]_vars
    PROVE  SelectExisting \/ SelectTask \/ CreateAttempt \/ Reserve \/ Ends \/ Stays
<1> USE DEF EndDelivery, EndTurn, Stop, Ends
<1>1. CASE Deliver
  BY <1>1 DEF Deliver
<1>2. NothingToSelect \/ CreationRaises \/ NoAction \/ NotReserved => Ends
  <2>1. NothingToSelect => Ends
    BY DEF NothingToSelect
  <2>2. CreationRaises => Ends
    BY DEF CreationRaises
  <2>3. NoAction => Ends
    BY DEF NoAction
  <2>4. NotReserved => Ends
    BY DEF NotReserved
  <2> QED
    BY <2>1, <2>2, <2>3, <2>4
<1>3. Malformed => Ends
  BY DEF Malformed
<1>4. Finish \/ Fail \/ Act \/ Wait => Ends
  BY DEF Finish, Fail, Terminal, Act, Wait
<1> USE DEF Stays, Committed
<1>5. ASSUME NEW k, NEW id, NEW p, Allocate(k, id, p) \/ RefuseTranche(k, p) PROVE Stays
  BY <1>5 DEF Allocate, RefuseTranche
<1>6. ASSUME NEW k, Checkpoint(k) \/ ResumeTask(k) PROVE Stays
  BY <1>6 DEF Checkpoint, ResumeTask
<1>7. ASSUME NEW l, Lapse(l) PROVE Stays
  BY <1>7 DEF Lapse, runVars, runtimeVars
<1>8. ASSUME NEW l, ExpireLease(l) \/ RenewLease(l) PROVE Stays
  BY <1>8 DEF ExpireLease, RenewLease
<1>9. ASSUME NEW i, IssueLease(i) \/ Grant(i) \/ Invalidate(i) PROVE Stays
  BY <1>9 DEF IssueLease, Grant, Invalidate
<1>10. CASE UNCHANGED vars
  BY <1>10 DEF vars, runVars, runtimeVars, attemptVars
<1>11. ASSUME NEW b, ReplaceBudget(b) PROVE Stays
  BY <1>11 DEF ReplaceBudget
<1> QED
  BY <1>1, <1>2, <1>3, <1>4, <1>5, <1>6, <1>7, <1>8, <1>9, <1>10, <1>11
     DEF Next, Runtime, Service

LEMMA SelectedType ==
    ASSUME TypeAttempts, SelectExisting
    PROVE  \/ Ends
           \/ /\ pc' = "turn" /\ hand' \in Ids /\ hand' \in 1 .. named
              /\ UNCHANGED <<sel, fresh>>
<1> DEFINE i == First(Existing)
<1>1. i \in DOMAIN attempts
  <2>1. Existing \subseteq DOMAIN attempts
    BY DEF Existing, With
  <2>2. Existing \in SUBSET Nat /\ Existing # {}
    BY <2>1, RowsType DEF SelectExisting
  <2> QED
    BY <2>1, <2>2, FirstType
<1>2. attempts[i].id \in Ids /\ attempts[i].id \in 1 .. named
  BY <1>1, RowsType DEF Ids, AttemptRows
<1>3. CASE Runnable(i)
  BY <1>2, <1>3 DEF SelectExisting
<1>4. CASE ~Runnable(i)
  BY <1>4 DEF SelectExisting, Stop, EndDelivery, Ends
<1> QED
  BY <1>3, <1>4

LEMMA TaskSelected ==
    ASSUME SelectTask
    PROVE  /\ pc' = "create" /\ sel' \in TaskSet /\ Open /\ Eligible(sel') /\ hand' = hand
           /\ fresh' = TRUE /\ Quiet
<1>1. First(Considered) \in Considered
  BY TasksType, FirstType DEF SelectTask, Considered
<1> QED
  BY <1>1, TasksType DEF SelectTask, Considered, Quiet, runVars

LEMMA RuntimeType == Inv /\ [Next]_vars => TypeRuntime'
<1> SUFFICES ASSUME Inv, [Next]_vars PROVE TypeRuntime'
  OBVIOUS
<1>a. TypeRuntime /\ TypeAttempts /\ TypeBudget
  BY DEF Inv, TypeOK
<1>b. 0 .. named \subseteq 0 .. named' /\ 0 \in 0 .. named
  <2>1. named \in Nat /\ named' \in {named, named + 1}
    <3>1. ASSUME NEW k \in TaskSet, NEW id \in Names(k), NEW p, Allocate(k, id, p)
          PROVE  named' \in {named, named + 1}
      BY <1>a, <3>1, AllocateNames
    <3>2. ASSUME NEW k, NEW p, RefuseTranche(k, p) \/ Checkpoint(k) \/ ResumeTask(k)
          PROVE  named' \in {named, named + 1}
      BY <3>2 DEF RefuseTranche, Checkpoint, ResumeTask
    <3>3. ASSUME NEW l, Lapse(l) \/ ExpireLease(l) \/ RenewLease(l)
          PROVE  named' = named
      BY <3>3 DEF Lapse, ExpireLease, RenewLease, budgetVars
    <3>4. ASSUME NEW i, IssueLease(i) \/ Grant(i) \/ Invalidate(i) PROVE named' = named
      BY <3>4 DEF IssueLease, Grant, Invalidate, budgetVars
    <3>5. CreateAttempt \/ Reserve \/ Malformed => named' = named
      BY DEF CreateAttempt, Reserve, Malformed
    <3>6. Quiet \/ Exhaust \/ EndsAttempt \/ Wait => named' = named
      BY DEF Quiet, Exhaust, EndsAttempt, Wait, budgetVars
    <3> QED
      BY <1>a, <3>1, <3>2, <3>3, <3>4, <3>5, <3>6, Steps DEF TypeBudget
  <2> QED
    BY <2>1
<1>1. CASE SelectExisting
  <2>1. CASE Ends
    BY <1>a, <1>b, <2>1 DEF Ends, TypeRuntime
  <2>2. CASE pc' = "turn" /\ hand' \in 1 .. named /\ UNCHANGED <<sel, fresh>>
    <3>1. hand' \in 0 .. named
      BY <1>a, <2>2 DEF TypeBudget
    <3> QED
      BY <1>a, <1>b, <2>2, <3>1 DEF TypeRuntime
  <2> QED
    BY <1>a, <1>1, <2>1, <2>2, SelectedType
<1>2. CASE SelectTask
  BY <1>a, <1>b, <1>2, TaskSelected DEF TypeRuntime
<1>3. CASE CreateAttempt
  <2>1. hand' \in 0 .. named
    <3>1. NewRow.id \in 1 .. named /\ hand' = NewRow.id
      BY <1>3, CreateEffect DEF AttemptRows, NewRow
    <3> QED
      BY <1>a, <3>1 DEF TypeBudget
  <2> QED
    BY <1>b, <1>3, <2>1 DEF CreateAttempt, TypeRuntime
<1>4. CASE Reserve
  BY <1>a, <1>b, <1>4 DEF Reserve, TypeRuntime
<1>5. CASE Ends
  BY <1>a, <1>b, <1>5 DEF Ends, TypeRuntime
<1>6. CASE Stays
  BY <1>a, <1>b, <1>6 DEF Stays, TypeRuntime
<1> QED
  BY <1>1, <1>2, <1>3, <1>4, <1>5, <1>6, ProcessSteps

LEMMA HandStep == Inv /\ [Next]_vars => HandInv'
<1> SUFFICES ASSUME Inv, [Next]_vars PROVE HandInv'
  OBVIOUS
<1>a. TypeAttempts /\ HandInv
  BY DEF Inv, TypeOK
<1>b. Ids \subseteq Ids'
  <2>1. CASE CreateAttempt
    BY <2>1, CreateEffect DEF Ids
  <2>2. CASE SameAttempts
    BY <2>2 DEF SameAttempts, Ids
  <2> QED
    BY <2>1, <2>2, AttemptsStep
<1>1. CASE SelectExisting
  BY <1>a, <1>b, <1>1, SelectedType DEF HandInv, Ends
<1>2. CASE SelectTask
  BY <1>2, TaskSelected DEF HandInv
<1>3. CASE CreateAttempt
  <2>1. hand' = attempts'[Len(attempts) + 1].id /\ Len(attempts) + 1 \in DOMAIN attempts'
    BY <1>3, CreateEffect DEF NewRow
  <2> QED
    BY <2>1 DEF HandInv, Ids
<1>4. CASE Reserve
  BY <1>a, <1>b, <1>4 DEF Reserve, HandInv
<1>5. CASE Ends
  BY <1>5 DEF Ends, HandInv
<1>6. CASE Stays
  BY <1>a, <1>b, <1>6 DEF Stays, HandInv
<1> QED
  BY <1>1, <1>2, <1>3, <1>4, <1>5, <1>6, ProcessSteps

LEMMA SelStep == Inv /\ [Next]_vars => SelInv'
<1> SUFFICES ASSUME Inv, [Next]_vars PROVE SelInv'
  OBVIOUS
<1>a. SelInv
  BY DEF Inv
<1>1. CASE SelectTask
  <2>1. /\ sel' \in TaskSet /\ Open /\ Eligible(sel')
        /\ UNCHANGED <<plan, run, causes, task, attempts>>
    BY <1>1, TaskSelected DEF Quiet, runVars, attemptVars
  <2>2. Open'
    BY <2>1 DEF Open
  <2>3. Eligible(sel)'
    BY <2>1 DEF Eligible, TasksOf, With
  <2> QED
    BY <2>1, <2>2, <2>3 DEF SelInv
<1>2. CASE SelectExisting
  BY <1>2 DEF SelectExisting, Stop, EndDelivery, SelInv
<1>3. CASE CreateAttempt \/ Reserve
  BY <1>3 DEF CreateAttempt, Reserve, SelInv
<1>4. CASE Ends
  BY <1>4 DEF Ends, SelInv
<1>5. CASE Stays
  <2>1. CASE UNCHANGED <<plan, run, causes, task, attempts, fresh>>
    <3>1. Open' = Open /\ Eligible(sel)' = Eligible(sel)
      BY <1>5, <2>1 DEF Stays, Open, Eligible, TasksOf, With
    <3> QED
      BY <1>a, <1>5, <2>1, <3>1 DEF Stays, SelInv
  <2>2. CASE fresh' = FALSE
    BY <1>a, <1>5, <2>2 DEF Stays, SelInv
  <2> QED
    BY <1>5, <2>1, <2>2 DEF Stays
<1> QED
  BY <1>1, <1>2, <1>3, <1>4, <1>5, ProcessSteps
-----------------------------------------------------------------------------
(* Pauses and tranches *)

LEMMA PausesKept ==
    ASSUME PauseInv, TypeTasks, NEW k \in TaskSet, NEW reason, task[k] = "ACTIVE",
           PauseTask(k, reason), resume' = resume
    PROVE  PauseInv'
<1>1. /\ task'[k] = "PAUSED" /\ resume[k] = 0
      /\ \A n \in TaskSet : n # k => task'[n] = task[n] /\ pause'[n] = pause[n]
  BY DEF PauseTask, TypeTasks, PauseInv
<1> QED
  BY <1>1 DEF PauseInv

LEMMA PauseStep == Inv /\ [Next]_vars => PauseInv'
<1> SUFFICES ASSUME Inv, [Next]_vars PROVE PauseInv'
  OBVIOUS
<1>a. PauseInv /\ TypeTasks /\ TypeAttempts /\ TypeBudget /\ SelInv /\ HandInv
  BY DEF Inv, TypeOK
<1>1. CASE UNCHANGED <<task, pause, resume>>
  BY <1>a, <1>1 DEF PauseInv
<1>2. CASE CreateAttempt
  <2>1. sel \in TaskSet /\ task[sel] \in {"NONE", "READY"}
    BY <1>a, <1>2, CreateEffect DEF SelInv, CreateAttempt, Eligible
  <2>2. /\ task' = [task EXCEPT ![sel] = "ACTIVE"] /\ resume' = [resume EXCEPT ![sel] = 0]
        /\ pause' = pause
    BY <1>2 DEF CreateAttempt, ResumeAfter
  <2>3. pause[sel] = None
    BY <1>a, <2>1 DEF PauseInv
  <2> QED
    BY <1>a, <2>1, <2>2, <2>3 DEF PauseInv, TypeTasks, TypeBudget
<1>3. CASE Malformed
  <2>1. HeldTask \in TaskSet /\ task[HeldTask] = "ACTIVE" /\ resume' = resume
    BY <1>a, <1>3, HeldRuns DEF Malformed, HeldTask, Held
  <2>2. CASE PauseTask(HeldTask, "REPEATED_INVALID_ACTION")
    BY <1>a, <2>1, <2>2, PausesKept
  <2>3. CASE task' = [task EXCEPT ![HeldTask] = "READY"] /\ UNCHANGED pause
    BY <1>a, <2>1, <2>3 DEF PauseInv, TypeTasks
  <2> QED
    BY <1>3, <2>2, <2>3, Zenon DEF Malformed, Held, HeldTask
<1>4. ASSUME NEW k \in TaskSet, NEW p, RefuseTranche(k, p) PROVE PauseInv'
  <2>1. PICK reason : PauseTask(k, reason)
    BY <1>4 DEF RefuseTranche
  <2> QED
    BY <1>a, <1>4, <2>1, PausesKept DEF RefuseTranche
<1>5. ASSUME NEW k \in TaskSet, Checkpoint(k) PROVE PauseInv'
  <2>1. task[k] = "ACTIVE" /\ resume' = resume
    BY <1>5 DEF Checkpoint
  <2>2. CASE PauseTask(k, "REPEATED_CHECKPOINT")
    BY <1>a, <2>1, <2>2, PausesKept
  <2> QED
    BY <1>1, <1>5, <2>1, <2>2 DEF Checkpoint
<1>6. ASSUME NEW k \in TaskSet, ResumeTask(k) PROVE PauseInv'
  <2>1. /\ task' = [task EXCEPT ![k] = "READY"] /\ pause' = [pause EXCEPT ![k] = None]
        /\ resume' = [resume EXCEPT ![k] = named + 1]
    BY <1>6 DEF ResumeTask
  <2> QED
    BY <1>a, <2>1 DEF PauseInv, TypeTasks, TypeBudget
<1>7. ASSUME NEW k \in TaskSet, NEW id, NEW p, Allocate(k, id, p) PROVE PauseInv'
  BY <1>1, <1>7 DEF Allocate, attemptVars
<1>8. ASSUME NEW l \in DOMAIN leases, Lapse(l) \/ ExpireLease(l) \/ RenewLease(l)
      PROVE PauseInv'
  BY <1>1, <1>8 DEF Lapse, ExpireLease, RenewLease, budgetVars
<1>9. ASSUME NEW i \in DOMAIN attempts, IssueLease(i) \/ Grant(i) \/ Invalidate(i) PROVE PauseInv'
  BY <1>1, <1>9 DEF IssueLease, Grant, Invalidate, budgetVars
<1>10. CASE Quiet \/ Exhaust \/ EndsAttempt \/ Wait \/ Reserve
  BY <1>1, <1>10 DEF Quiet, Exhaust, EndsAttempt, Wait, Reserve, budgetVars, attemptVars
<1> QED
  BY <1>2, <1>3, <1>4, <1>5, <1>6, <1>7, <1>8, <1>9, <1>10, Steps

\* The counters of a Task that neither is given calls nor spends any.
Undisturbed(k) ==
    /\ tranches'[k] = tranches[k]
    /\ counters'[k].allocated = counters[k].allocated
    /\ counters'[k].spent = counters[k].spent
    /\ counters'[k].active = counters[k].active
    /\ counters'[k].remaining = counters[k].remaining

\* What a step does to the counters that TrancheInv and WithinCaps relate.
LEMMA CountersStep ==
    ASSUME Inv, [Next]_vars
    PROVE  \/ CreateAttempt /\ \A k \in TaskSet : Undisturbed(k)
           \/ UNCHANGED <<counters, tranches, resume>>
           \/ Reserve /\ UNCHANGED <<tranches, resume>>
           \/ \E k \in TaskSet : \E id \in Names(k), p \in BOOLEAN : Allocate(k, id, p)
           \/ \E k \in TaskSet : ResumeTask(k) /\ \A n \in TaskSet : Undisturbed(n)
           \/ /\ resume' = resume
              /\ \A k \in TaskSet : /\ Undisturbed(k)
                                     /\ counters'[k].attempts = counters[k].attempts
                                     /\ counters'[k].resumes = counters[k].resumes
<1>a. TypeBudget /\ TypeAttempts /\ HandInv
  BY DEF Inv, TypeOK
<1> USE DEF Counted, Undisturbed
<1>1. CASE CreateAttempt
  <2>1. sel \in TaskSet /\ tranches' = tranches
    BY <1>1, CreateEffect DEF CreateAttempt
  <2> QED
    BY <1>a, <1>1, <2>1, CreateCounts
<1>2. CASE Reserve
  BY <1>2 DEF Reserve
<1>3. CASE Malformed
  <2>1. HeldTask \in TaskSet /\ hand \in Ids /\ UNCHANGED <<tranches, resume>>
    BY <1>a, <1>3, HeldRuns DEF Malformed
  <2> QED
    BY <1>a, <1>3, <2>1, MalformedCounts
<1>4. ASSUME NEW k \in TaskSet, Checkpoint(k)
      PROVE  /\ resume' = resume
             /\ \A n \in TaskSet : /\ Undisturbed(n)
                                    /\ counters'[n].attempts = counters[n].attempts
                                    /\ counters'[n].resumes = counters[n].resumes
  <2>1. UNCHANGED <<tranches, resume>>
    BY <1>4 DEF Checkpoint
  <2> QED
    BY <1>a, <1>4, <2>1, CheckpointCounts
<1>5. ASSUME NEW k \in TaskSet, ResumeTask(k) PROVE \A n \in TaskSet : Undisturbed(n)
  <2>1. tranches' = tranches
    BY <1>5 DEF ResumeTask
  <2> QED
    BY <1>a, <1>5, <2>1, ResumeCounts
<1>6. ASSUME NEW k, NEW p, RefuseTranche(k, p)
      PROVE  UNCHANGED <<counters, tranches, resume>>
  BY <1>6 DEF RefuseTranche
<1>7. ASSUME NEW l \in DOMAIN leases, Lapse(l) \/ ExpireLease(l) \/ RenewLease(l)
      PROVE UNCHANGED <<counters, tranches, resume>>
  BY <1>7 DEF Lapse, ExpireLease, RenewLease, budgetVars
<1>8. ASSUME NEW i \in DOMAIN attempts, IssueLease(i) \/ Grant(i) \/ Invalidate(i)
      PROVE UNCHANGED <<counters, tranches, resume>>
  BY <1>8 DEF IssueLease, Grant, Invalidate, budgetVars
<1>9. Quiet \/ Exhaust \/ EndsAttempt \/ Wait => UNCHANGED <<counters, tranches, resume>>
  BY DEF Quiet, Exhaust, EndsAttempt, Wait, budgetVars
<1> HIDE DEF Undisturbed
<1> QED
  BY <1>1, <1>2, <1>3, <1>4, <1>5, <1>6, <1>7, <1>8, <1>9, Steps

LEMMA TrancheStep == Inv /\ [Next]_vars => TrancheInv'
<1> SUFFICES ASSUME Inv, [Next]_vars PROVE TrancheInv'
  OBVIOUS
<1>a. TypeBudget /\ TypeAttempts /\ HandInv /\ TrancheInv /\ WithinCaps
  BY DEF Inv, TypeOK
<1>1. ASSUME \A k \in TaskSet : Undisturbed(k) PROVE TrancheInv'
  BY <1>a, <1>1 DEF TrancheInv, Undisturbed
<1>2. CASE UNCHANGED <<counters, tranches>>
  BY <1>a, <1>2 DEF TrancheInv
<1>3. CASE Reserve /\ UNCHANGED tranches
  <2>1. hand \in Ids /\ HeldTask \in TaskSet
    BY <1>a, <1>3, HeldRuns
  <2>2. /\ counters[HeldTask].remaining \in Nat /\ counters[HeldTask].active \in Nat
        /\ Len(tranches[HeldTask]) \in Nat
    BY <1>a, <2>1, CountersType, CeilingsType
  <2>3. /\ \A n \in TaskSet \ {HeldTask} : counters'[n] = counters[n]
        /\ counters[HeldTask].remaining > 0
        /\ counters'[HeldTask].remaining = counters[HeldTask].remaining - 1
        /\ counters'[HeldTask].active = IF counters[HeldTask].remaining = 1 THEN 0
                                        ELSE counters[HeldTask].active
        /\ counters'[HeldTask].allocated = counters[HeldTask].allocated
    BY <1>a, <1>3, <2>1, ReserveCounts DEF Counted
  <2> SUFFICES ASSUME NEW k \in TaskSet
               PROVE  /\ Len(tranches'[k]) <= counters'[k].allocated
                      /\ counters'[k].active <= Len(tranches'[k])
                      /\ counters'[k].remaining > 0 => counters'[k].active > 0
    BY DEF TrancheInv
  <2>4. CASE k # HeldTask
    BY <1>a, <1>3, <2>3, <2>4 DEF TrancheInv
  <2>5. CASE k = HeldTask
    <3>1. /\ Len(tranches[k]) <= counters[k].allocated
          /\ counters[k].active <= Len(tranches[k]) /\ counters[k].active > 0
      BY <1>a, <2>3, <2>5 DEF TrancheInv
    <3> QED
      BY <1>3, <2>2, <2>3, <2>5, <3>1
  <2> QED
    BY <2>4, <2>5
<1>4. ASSUME NEW k \in TaskSet, NEW id \in Names(k), NEW p \in BOOLEAN, Allocate(k, id, p)
      PROVE  TrancheInv'
  <2>1. /\ \A n \in TaskSet \ {k} : counters'[n] = counters[n]
        /\ TrancheSize(k) \in Nat \ {0}
        /\ counters'[k].allocated = counters[k].allocated + TrancheSize(k)
        /\ counters'[k].remaining = TrancheSize(k)
        /\ counters'[k].active = Len(tranches[k]) + 1
    BY <1>a, <1>4, AllocateCounts DEF Counted
  <2>2. tranches[k] \in Seq(1 .. named) /\ counters[k].allocated \in Nat
    BY <1>a, CountersType, CeilingsType
  <2>3. tranches' = [tranches EXCEPT ![k] = Append(tranches[k], id)]
    BY <1>4 DEF Allocate
  <2>4. /\ tranches'[k] = Append(tranches[k], id)
        /\ \A n \in TaskSet \ {k} : tranches'[n] = tranches[n]
    BY <1>a, <2>3 DEF TypeBudget
  <2>5. Len(tranches'[k]) = Len(tranches[k]) + 1 /\ Len(tranches[k]) \in Nat
    BY <2>2, <2>4
  <2>6. Len(tranches[k]) <= counters[k].allocated
    BY <1>a DEF TrancheInv
  <2>7. /\ Len(tranches'[k]) <= counters'[k].allocated
        /\ counters'[k].active <= Len(tranches'[k]) /\ counters'[k].active > 0
    BY <2>1, <2>2, <2>5, <2>6
  <2> QED
    BY <1>a, <2>1, <2>4, <2>7 DEF TrancheInv
<1> QED
  BY <1>1, <1>2, <1>3, <1>4, CountersStep
-----------------------------------------------------------------------------
(* The counters and the history of a Task *)

Resumed(k) == {i \in AttemptsOf(k) : attempts[i].tranche = 0}

LEMMA SameHistory ==
    ASSUME SameAttempts, NEW k
    PROVE  AttemptsOf(k)' = AttemptsOf(k) /\ Resumed(k)' = Resumed(k)
BY DEF SameAttempts, AttemptsOf, Resumed

LEMMA CapsOf ==
    WithinCaps <=>
        \A k \in TaskSet :
            /\ Cardinality(AttemptsOf(k)) = counters[k].attempts
            /\ counters[k].spent + counters[k].remaining = counters[k].allocated
            /\ Cardinality(Resumed(k)) + (IF resume[k] = 0 THEN 0 ELSE 1) = counters[k].resumes
BY DEF WithinCaps, Resumed

LEMMA CreateCaps ==
    ASSUME Inv, CreateAttempt
    PROVE  WithinCaps'
<1>a. TypeBudget /\ TypeAttempts /\ TrancheInv /\ WithinCaps /\ sel \in TaskSet
  BY CreateEffect DEF Inv, TypeOK
<1>b. DOMAIN attempts = 1 .. Len(attempts) /\ Len(attempts) \in Nat
  BY <1>a, RowsType
<1>s. PICK s \in TaskSet : s = sel
  BY <1>a
<1>1. /\ DOMAIN attempts' = DOMAIN attempts \cup {Len(attempts) + 1}
      /\ \A i \in DOMAIN attempts : attempts'[i] = attempts[i]
      /\ attempts'[Len(attempts) + 1].task = s
      /\ attempts'[Len(attempts) + 1].tranche = IF resume[s] # 0 THEN 0
                                                ELSE counters[s].active
  <2>1. attempts'[Len(attempts) + 1] = NewRow
    BY CreateEffect
  <2>2. NewRow.task = s /\ NewRow.tranche = IF resume[s] # 0 THEN 0 ELSE counters[s].active
    BY <1>s DEF NewRow
  <2>3. /\ DOMAIN attempts' = DOMAIN attempts \cup {Len(attempts) + 1}
        /\ \A i \in DOMAIN attempts : attempts'[i] = attempts[i]
    BY CreateEffect
  <2> QED
    BY <2>1, <2>2, <2>3
<1>2. Len(attempts) + 1 \notin DOMAIN attempts
  BY <1>b
<1>3. ASSUME NEW k, k # s PROVE AttemptsOf(k)' = AttemptsOf(k) /\ Resumed(k)' = Resumed(k)
  <2>1. AttemptsOf(k)' = AttemptsOf(k)
    BY <1>1, <1>2, <1>3 DEF AttemptsOf
  <2>2. \A i \in AttemptsOf(k) : attempts'[i] = attempts[i]
    BY <1>1 DEF AttemptsOf
  <2> QED
    BY <2>1, <2>2 DEF Resumed
<1>4. AttemptsOf(s)' = AttemptsOf(s) \cup {Len(attempts) + 1}
  BY <1>1, <1>2 DEF AttemptsOf
<1>5. Cardinality(AttemptsOf(s)') = Cardinality(AttemptsOf(s)) + 1
  <2>1. AttemptsOf(s) \subseteq 1 .. Len(attempts)
    BY <1>b DEF AttemptsOf
  <2> QED
    BY <1>b, <1>4, <2>1, OneMore
<1>6. /\ \A n \in TaskSet \ {s} : counters'[n] = counters[n]
      /\ counters'[s].attempts = counters[s].attempts + 1
      /\ counters'[s].allocated = counters[s].allocated
      /\ counters'[s].spent = counters[s].spent
      /\ counters'[s].resumes = counters[s].resumes
      /\ counters'[s].remaining = counters[s].remaining
  BY <1>a, <1>s, CreateCounts DEF Counted
<1>7. resume'[s] = 0 /\ \A n \in TaskSet \ {s} : resume'[n] = resume[n]
  BY <1>a, <1>s DEF CreateAttempt, ResumeAfter, TypeBudget
<1>8. Cardinality(Resumed(s)') =
          Cardinality(Resumed(s)) + (IF resume[s] = 0 THEN 0 ELSE 1)
  <2>1. CASE resume[s] # 0
    <3>1. Resumed(s)' = Resumed(s) \cup {Len(attempts) + 1}
      BY <1>1, <1>2, <1>4, <2>1 DEF Resumed, AttemptsOf
    <3>2. Resumed(s) \subseteq 1 .. Len(attempts)
      BY <1>b DEF Resumed, AttemptsOf
    <3> QED
      BY <1>b, <2>1, <3>1, <3>2, OneMore
  <2>2. CASE resume[s] = 0
    <3>1. counters[s].active > 0 /\ counters[s].active \in Nat
      <4>1. counters[s].remaining > 0
        BY <1>s, <2>2 DEF CreateAttempt, MayCreate, Allocated
      <4> QED
        BY <1>a, <4>1, CountersType, CeilingsType DEF TrancheInv
    <3>2. Resumed(s)' = Resumed(s)
      BY <1>1, <1>2, <1>4, <2>2, <3>1 DEF Resumed, AttemptsOf
    <3>3. Cardinality(Resumed(s)) \in Nat
      <4>1. Resumed(s) \subseteq 1 .. Len(attempts)
        BY <1>b DEF Resumed, AttemptsOf
      <4> QED
        BY <1>b, <4>1, Finite
    <3> QED
      BY <2>2, <3>2, <3>3
  <2> QED
    BY <2>1, <2>2
<1>9. \A k \in TaskSet :
          /\ Cardinality(AttemptsOf(k)) = counters[k].attempts
          /\ counters[k].spent + counters[k].remaining = counters[k].allocated
          /\ Cardinality(Resumed(k)) + (IF resume[k] = 0 THEN 0 ELSE 1) = counters[k].resumes
  BY <1>a, CapsOf
<1>10. counters[s].resumes \in Nat
  BY <1>a, CountersType, CeilingsType
<1>11. /\ Cardinality(AttemptsOf(s)') = counters'[s].attempts
       /\ counters'[s].spent + counters'[s].remaining = counters'[s].allocated
       /\ Cardinality(Resumed(s)') + (IF resume'[s] = 0 THEN 0 ELSE 1)
              = counters'[s].resumes
  BY <1>a, <1>5, <1>6, <1>7, <1>8, <1>9, <1>10
<1> SUFFICES ASSUME NEW k \in TaskSet
             PROVE  /\ Cardinality(AttemptsOf(k)') = counters'[k].attempts
                    /\ counters'[k].spent + counters'[k].remaining = counters'[k].allocated
                    /\ Cardinality(Resumed(k)') + (IF resume'[k] = 0 THEN 0 ELSE 1)
                           = counters'[k].resumes
  BY DEF WithinCaps, Resumed
<1>12. CASE k = s
  BY <1>11, <1>12
<1>13. CASE k # s
  BY <1>3, <1>6, <1>7, <1>9, <1>13
<1> QED
  BY <1>12, <1>13

LEMMA CapsStep == Inv /\ [Next]_vars => WithinCaps'
<1> SUFFICES ASSUME Inv, [Next]_vars, ~CreateAttempt PROVE WithinCaps'
  BY CreateCaps
<1>a. TypeBudget /\ TypeAttempts /\ HandInv /\ WithinCaps /\ PauseInv /\ TrancheInv
  BY DEF Inv, TypeOK
<1>b. \A k : AttemptsOf(k)' = AttemptsOf(k) /\ Resumed(k)' = Resumed(k)
  BY AttemptsStep, SameHistory
<1>c. \A k \in TaskSet :
          /\ Cardinality(AttemptsOf(k)) = counters[k].attempts
          /\ counters[k].spent + counters[k].remaining = counters[k].allocated
          /\ Cardinality(Resumed(k)) + (IF resume[k] = 0 THEN 0 ELSE 1) = counters[k].resumes
  BY <1>a, CapsOf
<1>d. \A k \in TaskSet :
          /\ counters[k].spent \in Nat /\ counters[k].remaining \in Nat
          /\ counters[k].allocated \in Nat /\ counters[k].resumes \in Nat
  BY <1>a, CountersType, CeilingsType
<1> SUFFICES ASSUME NEW k \in TaskSet
             PROVE  /\ Cardinality(AttemptsOf(k)') = counters'[k].attempts
                    /\ counters'[k].spent + counters'[k].remaining = counters'[k].allocated
                    /\ Cardinality(Resumed(k)') + (IF resume'[k] = 0 THEN 0 ELSE 1)
                           = counters'[k].resumes
  BY DEF WithinCaps, Resumed
<1>1. CASE UNCHANGED <<counters, tranches, resume>>
  BY <1>b, <1>c, <1>1
<1>2. CASE Reserve /\ UNCHANGED <<tranches, resume>>
  <2>1. hand \in Ids /\ HeldTask \in TaskSet
    BY <1>a, <1>2, HeldRuns
  <2>2. /\ \A n \in TaskSet \ {HeldTask} : counters'[n] = counters[n]
        /\ counters'[HeldTask].spent = counters[HeldTask].spent + 1
        /\ counters'[HeldTask].remaining = counters[HeldTask].remaining - 1
        /\ counters'[HeldTask].allocated = counters[HeldTask].allocated
        /\ counters'[HeldTask].attempts = counters[HeldTask].attempts
        /\ counters'[HeldTask].resumes = counters[HeldTask].resumes
    BY <1>a, <1>2, <2>1, ReserveCounts DEF Counted
  <2>3. CASE k = HeldTask
    BY <1>b, <1>c, <1>d, <1>2, <2>2, <2>3
  <2>4. CASE k # HeldTask
    BY <1>b, <1>c, <1>2, <2>2, <2>4
  <2> QED
    BY <2>3, <2>4
<1>3. ASSUME NEW n \in TaskSet, NEW id \in Names(n), NEW p \in BOOLEAN, Allocate(n, id, p)
      PROVE  /\ Cardinality(AttemptsOf(k)') = counters'[k].attempts
             /\ counters'[k].spent + counters'[k].remaining = counters'[k].allocated
             /\ Cardinality(Resumed(k)') + (IF resume'[k] = 0 THEN 0 ELSE 1)
                    = counters'[k].resumes
  <2>1. /\ \A m \in TaskSet \ {n} : counters'[m] = counters[m]
        /\ counters[n].remaining = 0 /\ TrancheSize(n) \in Nat
        /\ counters'[n].allocated = counters[n].allocated + TrancheSize(n)
        /\ counters'[n].remaining = TrancheSize(n)
        /\ counters'[n].spent = counters[n].spent
        /\ counters'[n].attempts = counters[n].attempts
        /\ counters'[n].resumes = counters[n].resumes
    BY <1>a, <1>3, AllocateCounts DEF Counted
  <2>2. resume' = resume
    BY <1>3 DEF Allocate
  <2>3. CASE k = n
    BY <1>b, <1>c, <1>d, <2>1, <2>2, <2>3
  <2>4. CASE k # n
    BY <1>b, <1>c, <2>1, <2>2, <2>4
  <2> QED
    BY <2>3, <2>4
<1>4. ASSUME NEW n \in TaskSet, ResumeTask(n)
      PROVE  /\ Cardinality(AttemptsOf(k)') = counters'[k].attempts
             /\ counters'[k].spent + counters'[k].remaining = counters'[k].allocated
             /\ Cardinality(Resumed(k)') + (IF resume'[k] = 0 THEN 0 ELSE 1)
                    = counters'[k].resumes
  <2>1. /\ \A m \in TaskSet \ {n} : counters'[m] = counters[m]
        /\ counters'[n].resumes = counters[n].resumes + 1
        /\ counters'[n].spent = counters[n].spent
        /\ counters'[n].remaining = counters[n].remaining
        /\ counters'[n].allocated = counters[n].allocated
        /\ counters'[n].attempts = counters[n].attempts
    BY <1>a, <1>4, ResumeCounts DEF Counted
  <2>2. /\ resume'[n] = named + 1 /\ named \in Nat
        /\ \A m \in TaskSet \ {n} : resume'[m] = resume[m]
    BY <1>a, <1>4 DEF ResumeTask, TypeBudget
  <2>3. resume[n] = 0
    <3>1. pause[n] # None
      BY <1>4 DEF ResumeTask
    <3> QED
      BY <1>a, <3>1 DEF PauseInv
  <2>4. CASE k = n
    <3>1. resume'[k] # 0 /\ resume[k] = 0
      BY <2>2, <2>3, <2>4
    <3>2. Cardinality(Resumed(k)) + 0 = counters[k].resumes /\ Cardinality(Resumed(k)) \in Nat
      <4>1. DOMAIN attempts = 1 .. Len(attempts) /\ Len(attempts) \in Nat
        BY <1>a, RowsType
      <4>2. Cardinality(Resumed(k)) \in Nat
        BY <4>1, Finite DEF Resumed, AttemptsOf
      <4> QED
        BY <1>c, <3>1, <4>2
    <3>3. Cardinality(Resumed(k)') + 1 = counters'[k].resumes
      BY <1>b, <1>d, <2>1, <2>4, <3>2
    <3> QED
      BY <1>b, <1>c, <2>1, <2>4, <3>1, <3>3
  <2>5. CASE k # n
    BY <1>b, <1>c, <2>1, <2>2, <2>5
  <2> QED
    BY <2>4, <2>5
<1>5. CASE /\ resume' = resume
           /\ \A n \in TaskSet : /\ Undisturbed(n)
                                  /\ counters'[n].attempts = counters[n].attempts
                                  /\ counters'[n].resumes = counters[n].resumes
  BY <1>b, <1>c, <1>5 DEF Undisturbed
<1> QED
  BY <1>1, <1>2, <1>3, <1>4, <1>5, CountersStep
-----------------------------------------------------------------------------
(* The leases in force and what closes dispatch *)

LEMMA StaysClosed ==
    ASSUME [Next]_vars, "BUDGET_EXHAUSTED" \in causes
    PROVE  "BUDGET_EXHAUSTED" \in causes'
<1>1. CreateAttempt \/ Reserve \/ Malformed => "BUDGET_EXHAUSTED" \in causes'
  BY DEF CreateAttempt, Reserve, Malformed, runVars
<1>2. Quiet \/ Exhaust \/ EndsAttempt \/ Wait => "BUDGET_EXHAUSTED" \in causes'
  BY DEF Quiet, Exhaust, EndsAttempt, Wait, runVars
<1>3. ASSUME NEW k, NEW id, NEW p, Allocate(k, id, p) \/ RefuseTranche(k, p)
      PROVE  "BUDGET_EXHAUSTED" \in causes'
  BY <1>3 DEF Allocate, RefuseTranche
<1>4. ASSUME NEW k, Checkpoint(k) \/ ResumeTask(k) PROVE "BUDGET_EXHAUSTED" \in causes'
  BY <1>4 DEF Checkpoint, ResumeTask, CausesAfterResume
<1>5. ASSUME NEW l, Lapse(l) \/ ExpireLease(l) \/ RenewLease(l)
      PROVE  "BUDGET_EXHAUSTED" \in causes'
  BY <1>5 DEF Lapse, ExpireLease, RenewLease, runVars
<1>6. ASSUME NEW i, IssueLease(i) \/ Grant(i) \/ Invalidate(i) PROVE "BUDGET_EXHAUSTED" \in causes'
  BY <1>6 DEF IssueLease, Grant, Invalidate
<1> QED
  BY <1>1, <1>2, <1>3, <1>4, <1>5, <1>6, Steps

LEMMA LeasesFinite ==
    ASSUME TypeAttempts
    PROVE  /\ Unexpired \subseteq Active /\ Active \subseteq 1 .. Len(leases)
           /\ Len(leases) \in Nat
           /\ Cardinality(Active) \in Nat /\ Cardinality(Unexpired) \in Nat
           /\ Cardinality(Unexpired) <= Cardinality(Active)
<1>1. Len(leases) \in Nat /\ DOMAIN leases = 1 .. Len(leases)
  BY RowsType
<1>2. Unexpired \subseteq Active /\ Active \subseteq 1 .. Len(leases)
  BY <1>1 DEF Unexpired, Active
<1> QED
  BY <1>1, <1>2, CountedOnce

\* What the last lease was issued under.
Allowed == WorkerCeiling[leases[Len(leases)].under]

LEMMA AllowedType ==
    ASSUME TypeAttempts, leases # <<>>
    PROVE  Allowed \in Nat
<1>1. leases \in Seq(LeaseRows)
  BY DEF TypeAttempts
<1>2. Len(leases) \in DOMAIN leases
  BY <1>1
<1>3. leases[Len(leases)] \in LeaseRows
  BY <1>2, RowsType
<1>4. leases[Len(leases)].under \in Budgets
  BY <1>3 DEF LeaseRows
<1> QED
  BY <1>4, SchedulingAssumption DEF Allowed

LEMMA CountedUnder ==
    WorkersAreCounted <=>
        /\ Cardinality(Unexpired) <= usage
        /\ leases # <<>> =>
               /\ Cardinality(Unexpired) <= Allowed
               /\ Cardinality(Unexpired) = Allowed => "BUDGET_EXHAUSTED" \in causes
BY DEF WorkersAreCounted, Allowed

LEMMA WorkersStep == Inv /\ [Next]_vars => WorkersAreCounted'
<1> SUFFICES ASSUME Inv, [Next]_vars PROVE WorkersAreCounted'
  OBVIOUS
<1>a. TypeRun /\ TypeAttempts /\ TypeAttempts' /\ WorkersAreCounted
  BY AttemptsStep DEF Inv, TypeOK
<1>b. Ceiling \in Nat
  BY <1>a, SchedulingAssumption DEF TypeRun, Ceiling
<1>c. /\ Unexpired \subseteq Active /\ Active \subseteq 1 .. Len(leases)
      /\ Len(leases) \in Nat
      /\ Cardinality(Active) \in Nat /\ Cardinality(Unexpired) \in Nat
  BY <1>a, LeasesFinite
<1>d. Cardinality(Unexpired') \in Nat /\ Cardinality(Unexpired') <= Cardinality(Active')
  <2>1. Len(leases') \in Nat /\ DOMAIN leases' = 1 .. Len(leases')
    BY <1>a DEF TypeAttempts
  <2>2. Unexpired' \subseteq Active' /\ Active' \subseteq 1 .. Len(leases')
    BY <2>1 DEF Unexpired, Active
  <2> QED
    BY <2>1, <2>2, CountedOnce
\* One lease more than a set that was under the ceiling.
<1>e. ASSUME NEW S, S \subseteq 1 .. Len(leases), Cardinality(S) < Ceiling,
             Unexpired' \subseteq S \cup {Len(leases) + 1}, Allowed' = Ceiling,
             usage' = Cardinality(S) + 1, causes' = causes \cup Full(usage')
      PROVE  WorkersAreCounted'
  <2>1. Cardinality(S) \in Nat /\ Cardinality(S \cup {Len(leases) + 1}) = Cardinality(S) + 1
    <3>1. Cardinality(S) \in Nat
      BY <1>c, <1>e, Finite
    <3>2. Cardinality(S \cup {Len(leases) + 1}) = Cardinality(S) + 1
      BY <1>c, <1>e, OneMore
    <3> QED
      BY <3>1, <3>2
  <2>2. S \cup {Len(leases) + 1} \subseteq 1 .. Len(leases) + 1 /\ Len(leases) + 1 \in Nat
    <3>1. S \subseteq 1 .. Len(leases) /\ Len(leases) \in Nat
      BY <1>c, <1>e
    <3> QED
      BY <3>1, OneLonger
  <2>3. Cardinality(Unexpired') <= Cardinality(S) + 1
    <3> DEFINE T == S \cup {Len(leases) + 1}
               n == Len(leases) + 1
    <3>1. Unexpired' \subseteq T /\ T \subseteq 1 .. n /\ n \in Nat
      BY <1>e, <2>2
    <3>2. Cardinality(T) = Cardinality(S) + 1
      BY <2>1
    <3> HIDE DEF T, n
    <3>3. Cardinality(Unexpired') <= Cardinality(T)
      BY <3>1, CountedOnce
    <3> QED
      BY <3>2, <3>3
  <2>4. Cardinality(Unexpired') <= usage' /\ Cardinality(Unexpired') <= Ceiling
    BY <1>b, <1>d, <1>e, <2>1, <2>3
  <2>5. Cardinality(Unexpired') = Ceiling => "BUDGET_EXHAUSTED" \in causes'
    <3>1. Cardinality(Unexpired') = Ceiling => usage' >= Ceiling
      BY <1>b, <1>e, <2>1, <2>4
    <3> QED
      BY <1>e, <3>1 DEF Full
  <2> QED
    BY <1>e, <2>4, <2>5 DEF WorkersAreCounted, Allowed
<1>1. CASE CreateAttempt
  <2>1. /\ Cardinality(Active) < Ceiling /\ usage' = Cardinality(Active) + 1
        /\ DOMAIN leases' = DOMAIN leases \cup {Len(leases) + 1}
        /\ Len(leases') = Len(leases) + 1
        /\ leases'[Len(leases) + 1] = LeaseRow(sel, AttemptId(sel))
        /\ \A l \in DOMAIN leases : leases'[l] = leases[l]
    BY <1>1, CreateEffect
  <2>2. Unexpired' \subseteq Active \cup {Len(leases) + 1}
    BY <2>1 DEF Unexpired, Active
  <2>3. causes' = causes \cup Full(usage')
    BY <1>1 DEF CreateAttempt
  <2>4. Allowed' = Ceiling
    BY <2>1 DEF Allowed, LeaseRow, Ceiling
  <2> QED
    BY <1>c, <1>e, <2>1, <2>2, <2>3, <2>4
<1>2. ASSUME NEW i \in DOMAIN attempts, IssueLease(i) PROVE WorkersAreCounted'
  <2>1. /\ Cardinality(Unexpired) < Ceiling /\ usage' = Cardinality(Unexpired) + 1
        /\ DOMAIN leases' = DOMAIN leases \cup {Len(leases) + 1}
        /\ Len(leases') = Len(leases) + 1
        /\ leases'[Len(leases) + 1] = LeaseRow(attempts[i].task, attempts[i].id)
        /\ \A l \in DOMAIN leases : leases'[l] = leases[l]
    BY <1>2, IssueEffect
  <2>2. Unexpired' \subseteq Unexpired \cup {Len(leases) + 1}
    BY <2>1 DEF Unexpired, Active
  <2>3. causes' = causes \cup Full(usage')
    BY <1>2 DEF IssueLease
  <2>4. Unexpired \subseteq 1 .. Len(leases)
    BY <1>c
  <2>5. Allowed' = Ceiling
    BY <2>1 DEF Allowed, LeaseRow, Ceiling
  <2> QED
    BY <1>e, <2>1, <2>2, <2>3, <2>4, <2>5
\* A ceiling that is replaced is not that of the last lease.
<1>3. CASE Shrinks
  <2>1. Cardinality(Unexpired') <= Cardinality(Unexpired)
    <3>1. Unexpired' \subseteq Unexpired /\ Unexpired \subseteq 1 .. Len(leases)
      BY <1>c, <1>3 DEF Shrinks
    <3> QED
      BY <1>c, <3>1, CountedOnce
  <2>2. Cardinality(Unexpired) <= usage
    BY <1>a DEF WorkersAreCounted
  <2>3. usage \in Nat
    BY <1>a, <1>c DEF TypeAttempts
  <2>4. Cardinality(Unexpired') <= usage'
    BY <1>c, <1>d, <1>3, <2>1, <2>2, <2>3 DEF Shrinks
  <2>5. ASSUME leases' # <<>>
        PROVE  /\ Cardinality(Unexpired') <= Allowed'
               /\ Cardinality(Unexpired') = Allowed' => "BUDGET_EXHAUSTED" \in causes'
    <3>1. Len(leases') = Len(leases) /\ DOMAIN leases' = DOMAIN leases
      BY <1>3 DEF Shrinks, SameLeases
    <3>2. leases # <<>> /\ Len(leases) \in DOMAIN leases
      BY <1>a, <2>5, <3>1 DEF TypeAttempts
    <3>3. Allowed' = Allowed
      BY <1>3, <3>1, <3>2 DEF Shrinks, SameLeases, Allowed
    <3>4. Allowed \in Nat
      BY <1>a, <3>2, AllowedType
    <3>5. /\ Cardinality(Unexpired) <= Allowed
          /\ Cardinality(Unexpired) = Allowed => "BUDGET_EXHAUSTED" \in causes
      BY <1>a, <3>2, CountedUnder
    <3>6. Cardinality(Unexpired') = Allowed => Cardinality(Unexpired) = Allowed
      BY <1>c, <1>d, <2>1, <3>4, <3>5
    <3>7. Cardinality(Unexpired') <= Allowed
      BY <1>c, <1>d, <2>1, <3>4, <3>5
    <3> QED
      BY <3>3, <3>5, <3>6, <3>7, StaysClosed
  <2> QED
    BY <2>4, <2>5 DEF WorkersAreCounted, Allowed
<1> QED
  BY <1>1, <1>2, <1>3, AttemptsStep
-----------------------------------------------------------------------------
(* What a Plan says of two Tasks *)

LEMMA PlanKept == [Next]_vars => plan' = plan
<1> SUFFICES ASSUME [Next]_vars PROVE plan' = plan
  OBVIOUS
<1>1. CreateAttempt \/ Reserve \/ Malformed => plan' = plan
  BY DEF CreateAttempt, Reserve, Malformed, runVars
<1>2. Quiet \/ Exhaust \/ EndsAttempt \/ Wait => plan' = plan
  BY DEF Quiet, Exhaust, EndsAttempt, Wait, runVars
<1>3. ASSUME NEW k, NEW id, NEW p, Allocate(k, id, p) \/ RefuseTranche(k, p)
      PROVE  plan' = plan
  BY <1>3 DEF Allocate, RefuseTranche, Committed
<1>4. ASSUME NEW k, Checkpoint(k) \/ ResumeTask(k) PROVE plan' = plan
  BY <1>4 DEF Checkpoint, ResumeTask, Committed
<1>5. ASSUME NEW l, Lapse(l) \/ ExpireLease(l) \/ RenewLease(l) PROVE plan' = plan
  BY <1>5 DEF Lapse, ExpireLease, RenewLease, Committed, runVars
<1>6. ASSUME NEW i, IssueLease(i) \/ Grant(i) \/ Invalidate(i) PROVE plan' = plan
  BY <1>6 DEF IssueLease, Grant, Invalidate, Committed
<1> QED
  BY <1>1, <1>2, <1>3, <1>4, <1>5, <1>6, Steps

LEMMA HazardousPairs ==
    ASSUME NEW p \in Plans, NEW e \in HazardsOf[p]
    PROVE  e[1] # e[2]
BY DEF HazardsOf, PromotionHazards

Succeeded == TasksOf(With({"SUCCEEDED"}))
Living    == TasksOf(With(Live))

LEMMA ApartStep == Inv /\ [Next]_vars => TasksApart'
<1> SUFFICES ASSUME Inv, [Next]_vars PROVE TasksApart'
  OBVIOUS
<1>a. /\ DependenciesFirst /\ HazardsApart /\ SelInv /\ plan' = plan /\ plan \in Plans
  BY PlanKept DEF Inv, TasksApart, TypeOK, TypeRun
<1>1. CASE SameAttempts
  <2>1. Succeeded \subseteq Succeeded' /\ Living' \subseteq Living
    BY <1>1 DEF SameAttempts, Succeeded, Living, TasksOf, With
  <2>2. DependenciesFirst'
    <3> SUFFICES ASSUME NEW i \in DOMAIN attempts
                 PROVE  plan[attempts[i].task].after \subseteq Succeeded'
      BY <1>a, <1>1 DEF DependenciesFirst, SameAttempts, Succeeded
    <3> QED
      BY <1>a, <2>1 DEF DependenciesFirst, Succeeded
  <2>3. HazardsApart'
    BY <1>a, <2>1 DEF HazardsApart, Living
  <2> QED
    BY <2>2, <2>3 DEF TasksApart
<1>2. CASE CreateAttempt
  <2>1. /\ Eligible(sel) /\ DOMAIN attempts' = DOMAIN attempts \cup {Len(attempts) + 1}
        /\ \A i \in DOMAIN attempts : attempts'[i] = attempts[i]
        /\ attempts'[Len(attempts) + 1] = NewRow
    BY <1>a, <1>2, CreateEffect DEF SelInv, CreateAttempt
  <2>2. NewRow.task = sel /\ NewRow.state = "RUNNING"
    BY DEF NewRow
  <2>3. plan[sel].after \subseteq Succeeded
    BY <2>1 DEF Eligible, Succeeded
  <2>4. \A e \in HazardsOf[plan] : sel \in {e[1], e[2]} => {e[1], e[2]} \cap Living = {}
    BY <2>1 DEF Eligible, Living
  <2>5. Succeeded \subseteq Succeeded' /\ Living' \subseteq Living \cup {sel}
    BY <2>1, <2>2 DEF Succeeded, Living, TasksOf, With
  <2>6. DependenciesFirst'
    <3> SUFFICES ASSUME NEW i \in DOMAIN attempts'
                 PROVE  plan[attempts'[i].task].after \subseteq Succeeded'
      BY <1>a DEF DependenciesFirst, Succeeded
    <3>1. CASE i \in DOMAIN attempts
      <4>1. plan[attempts[i].task].after \subseteq Succeeded
        BY <1>a, <3>1 DEF DependenciesFirst, Succeeded
      <4> QED
        BY <2>1, <2>5, <3>1, <4>1
    <3>2. CASE i = Len(attempts) + 1
      BY <2>1, <2>2, <2>3, <2>5, <3>2
    <3> QED
      BY <2>1, <3>1, <3>2
  <2>7. HazardsApart'
    <3> SUFFICES ASSUME NEW e \in HazardsOf[plan], {e[1], e[2]} \subseteq Living'
                 PROVE  FALSE
      BY <1>a DEF HazardsApart, Living
    <3>1. CASE sel \in {e[1], e[2]}
      BY <1>a, <2>4, <2>5, <3>1, HazardousPairs
    <3>2. CASE sel \notin {e[1], e[2]}
      <4>1. {e[1], e[2]} \subseteq Living
        BY <2>5, <3>2
      <4> QED
        BY <1>a, <4>1 DEF HazardsApart, Living
    <3> QED
      BY <3>1, <3>2
  <2> QED
    BY <2>6, <2>7 DEF TasksApart
<1> QED
  BY <1>1, <1>2, AttemptsStep

-----------------------------------------------------------------------------
(* Whose leases are in force *)

\* The states of an Attempt that keeps its lease: an invalidated one does.
Holding == Live \cup {"STALE"}

\* An active lease is one of an Attempt of its Task that has not come to its end.
Owned(l) == \E i \in DOMAIN attempts :
    /\ attempts[i].id = leases[l].id /\ attempts[i].task = leases[l].task
    /\ attempts[i].state \in Holding

LeasesOwned == \A l \in Active : Owned(l)

LEMMA OwnersStay ==
    ASSUME LeasesOwned, SameLeases, Active' \subseteq Active,
           DOMAIN attempts' = DOMAIN attempts,
           \A l \in Active' : \A i \in DOMAIN attempts :
               attempts[i].id = leases[l].id /\ attempts[i].state \in Holding =>
                   /\ attempts'[i].id = attempts[i].id /\ attempts'[i].task = attempts[i].task
                   /\ attempts'[i].state \in Holding
    PROVE  LeasesOwned'
<1> SUFFICES ASSUME NEW l \in Active' PROVE Owned(l)'
  BY DEF LeasesOwned
<1>1. l \in Active /\ l \in DOMAIN leases
  BY DEF Active
<1>2. PICK i \in DOMAIN attempts :
          /\ attempts[i].id = leases[l].id /\ attempts[i].task = leases[l].task
          /\ attempts[i].state \in Holding
  BY <1>1 DEF LeasesOwned, Owned
<1>3. leases'[l].id = leases[l].id /\ leases'[l].task = leases[l].task
  BY <1>1 DEF SameLeases
<1>4. /\ attempts'[i].id = leases'[l].id /\ attempts'[i].task = leases'[l].task
      /\ attempts'[i].state \in Holding /\ i \in DOMAIN attempts'
  BY <1>2, <1>3
<1> QED
  BY <1>4 DEF Owned

LEMMA OwnersStep == Inv /\ LeasesOwned /\ [Next]_vars => LeasesOwned'
<1> SUFFICES ASSUME Inv, LeasesOwned, [Next]_vars PROVE LeasesOwned'
  OBVIOUS
<1>a. TypeAttempts /\ HandInv
  BY DEF Inv, TypeOK
<1>1. CASE UNCHANGED <<attempts, leases>>
  BY <1>1 DEF LeasesOwned, Owned, Active
<1>2. CASE CreateAttempt
  <2>1. /\ DOMAIN attempts' = DOMAIN attempts \cup {Len(attempts) + 1}
        /\ \A i \in DOMAIN attempts : attempts'[i] = attempts[i]
        /\ attempts'[Len(attempts) + 1] = NewRow
        /\ DOMAIN leases' = DOMAIN leases \cup {Len(leases) + 1}
        /\ \A l \in DOMAIN leases : leases'[l] = leases[l]
        /\ leases'[Len(leases) + 1] = LeaseRow(sel, AttemptId(sel))
    BY <1>2, CreateEffect
  <2> SUFFICES ASSUME NEW l \in DOMAIN leases', leases'[l].state = "ACTIVE" PROVE Owned(l)'
    BY DEF LeasesOwned, Active
  <2>2. CASE l \in DOMAIN leases
    <3>1. l \in Active
      BY <2>1, <2>2 DEF Active
    <3>2. PICK i \in DOMAIN attempts :
              /\ attempts[i].id = leases[l].id /\ attempts[i].task = leases[l].task
              /\ attempts[i].state \in Holding
      BY <3>1 DEF LeasesOwned, Owned
    <3>3. /\ i \in DOMAIN attempts' /\ attempts'[i].id = leases'[l].id
          /\ attempts'[i].task = leases'[l].task /\ attempts'[i].state \in Holding
      BY <2>1, <2>2, <3>2
    <3> QED
      BY <3>3 DEF Owned
  <2>3. CASE l = Len(leases) + 1
    <3> DEFINE i == Len(attempts) + 1
    <3>1. /\ attempts'[i].id = leases'[l].id /\ attempts'[i].task = leases'[l].task
          /\ attempts'[i].state \in Holding
      BY <2>1, <2>3 DEF NewRow, LeaseRow, Live, Holding
    <3>2. i \in DOMAIN attempts'
      BY <2>1
    <3> HIDE DEF i
    <3> QED
      BY <3>1, <3>2 DEF Owned
  <2> QED
    BY <2>1, <2>2, <2>3
<1>3. ASSUME NEW i \in DOMAIN attempts, IssueLease(i) PROVE LeasesOwned'
  <2>1. /\ UNCHANGED attempts
        /\ DOMAIN leases' = DOMAIN leases \cup {Len(leases) + 1}
        /\ \A l \in DOMAIN leases : leases'[l] = leases[l]
        /\ leases'[Len(leases) + 1] = LeaseRow(attempts[i].task, attempts[i].id)
    BY <1>3, IssueEffect
  <2>2. attempts[i].state \in Holding
    BY <1>3 DEF IssueLease, Holding
  <2> SUFFICES ASSUME NEW l \in DOMAIN leases', leases'[l].state = "ACTIVE" PROVE Owned(l)'
    BY DEF LeasesOwned, Active
  <2>3. CASE l \in DOMAIN leases
    BY <2>1, <2>3 DEF LeasesOwned, Owned, Active
  <2>4. CASE l = Len(leases) + 1
    <3>1. /\ attempts'[i].id = leases'[l].id /\ attempts'[i].task = leases'[l].task
          /\ attempts'[i].state \in Holding /\ i \in DOMAIN attempts'
      BY <2>1, <2>2, <2>4 DEF LeaseRow
    <3> QED
      BY <3>1 DEF Owned
  <2> QED
    BY <2>1, <2>3, <2>4
<1>4. ASSUME NEW state \in {"SUCCEEDED", "FAILED"}, EndAttempt(Held, state),
             Malformed \/ EndsAttempt
      PROVE  LeasesOwned'
  <2>1. named' = named /\ Held \in DOMAIN attempts /\ attempts[Held].state \in Live
    BY <1>a, <1>4, HeldRuns DEF Malformed, EndsAttempt, budgetVars, Live
  <2>2. /\ SameAttempts /\ SameLeases /\ Active' \subseteq Active
        /\ Active' = {l \in Active : leases[l].id # attempts[Held].id}
    BY <1>a, <1>4, <2>1, EndEffect
  <2>3. \A j \in DOMAIN attempts : j # Held => attempts'[j] = attempts[j]
    BY <1>a, <1>4, <2>1, StateChange DEF EndAttempt
  <2>4. ASSUME NEW l \in Active', NEW i \in DOMAIN attempts,
               attempts[i].id = leases[l].id, attempts[i].state \in Holding
        PROVE  /\ attempts'[i].id = attempts[i].id /\ attempts'[i].task = attempts[i].task
               /\ attempts'[i].state \in Holding
    <3>1. i # Held
      BY <2>2, <2>4
    <3> QED
      BY <2>3, <2>4, <3>1
  <2>5. DOMAIN attempts' = DOMAIN attempts
    BY <2>2 DEF SameAttempts
  <2> QED
    BY <2>2, <2>4, <2>5, OwnersStay
<1>5. CASE Malformed
  <2>1. EndAttempt(Held, "FAILED")
    BY <1>5, Zenon DEF Malformed, Held
  <2> QED
    BY <1>4, <1>5, <2>1
<1>6. CASE EndsAttempt
  <2>1. PICK state \in {"SUCCEEDED", "FAILED"} : EndAttempt(Held, state)
    BY <1>6 DEF EndsAttempt
  <2> QED
    BY <1>4, <1>6, <2>1
<1>7. ASSUME NEW i \in DOMAIN attempts, NEW state \in Holding,
             attempts' = [attempts EXCEPT ![i].state = state], attempts[i].state \in Live,
             UNCHANGED <<leases, named>>
      PROVE  LeasesOwned'
  <2>1. /\ SameAttempts /\ attempts'[i] = [attempts[i] EXCEPT !.state = state]
        /\ \A j \in DOMAIN attempts : j # i => attempts'[j] = attempts[j]
    BY <1>a, <1>7, StateChange, StateKeeps DEF Holding, States
  <2>2. attempts'[i].state = state
    BY <1>a, <2>1, RowsType DEF AttemptRows
  <2>3. SameLeases /\ Active' = Active /\ DOMAIN attempts' = DOMAIN attempts
    BY <1>7, <2>1 DEF SameLeases, Active, SameAttempts
  <2>4. ASSUME NEW j \in DOMAIN attempts, attempts[j].state \in Holding
        PROVE  /\ attempts'[j].id = attempts[j].id /\ attempts'[j].task = attempts[j].task
               /\ attempts'[j].state \in Holding
    BY <1>7, <2>1, <2>2, <2>4 DEF SameAttempts
  <2> QED
    BY <2>3, <2>4, OwnersStay
<1>8. CASE Wait
  <2>1. /\ Held \in DOMAIN attempts /\ attempts[Held].state \in Live
        /\ "WAITING_APPROVAL" \in Holding
    BY <1>a, <1>8, HeldRuns DEF Live, Holding
  <2>2. /\ attempts' = [attempts EXCEPT ![Held].state = "WAITING_APPROVAL"]
        /\ UNCHANGED <<leases, named>>
    BY <1>8 DEF Wait, Held, budgetVars
  <2> QED
    BY <1>7, <2>1, <2>2
<1>9. ASSUME NEW i \in DOMAIN attempts, Grant(i) \/ Invalidate(i) PROVE LeasesOwned'
  <2>1. attempts[i].state \in Live
    BY <1>9 DEF Grant, Invalidate, Waiting, Live
  <2>2. PICK state \in {"RUNNING", "STALE"} : attempts' = [attempts EXCEPT ![i].state = state]
    BY <1>9 DEF Grant, Invalidate
  <2>3. state \in Holding /\ UNCHANGED <<leases, named>>
    BY <1>9 DEF Grant, Invalidate, budgetVars, Holding, Live
  <2> QED
    BY <1>7, <2>1, <2>2, <2>3
<1>10. ASSUME NEW l \in DOMAIN leases, Lapse(l) \/ ExpireLease(l) \/ RenewLease(l)
       PROVE  LeasesOwned'
  <2>1. UNCHANGED attempts
    BY <1>10 DEF Lapse, ExpireLease, RenewLease
  <2>2. SameLeases /\ Active' \subseteq Active
    BY <1>10, LeaseStep DEF Shrinks
  <2> QED
    BY <2>1, <2>2, OwnersStay
<1>11. ASSUME NEW k \in TaskSet, NEW id, NEW p, Allocate(k, id, p) \/ RefuseTranche(k, p)
       PROVE  LeasesOwned'
  BY <1>1, <1>11 DEF Allocate, RefuseTranche, attemptVars
<1>12. ASSUME NEW k \in TaskSet, Checkpoint(k) \/ ResumeTask(k) PROVE LeasesOwned'
  BY <1>1, <1>12 DEF Checkpoint, ResumeTask
<1>13. CASE Quiet \/ Exhaust \/ Reserve
  BY <1>1, <1>13 DEF Quiet, Exhaust, Reserve, attemptVars
<1> QED
  BY <1>2, <1>3, <1>5, <1>6, <1>8, <1>9, <1>10, <1>11, <1>12, <1>13, Steps

-----------------------------------------------------------------------------
(* Theorems *)

LEMMA InitInv == Init => Inv
<1> SUFFICES ASSUME Init PROVE Inv
  OBVIOUS
<1>1. TypeRun /\ TypeRuntime
  <2>1. TypeRun
    <3>1. plan \in {p \in Plans : Accepted(p, Order)} /\ budget \in Budgets
      BY Zenon DEF Init
    <3>2. run = "ACTIVE" /\ causes = {}
      BY Zenon DEF Init
    <3>3. plan \in Plans
      BY <3>1, Zenon
    <3> QED
      BY <3>1, <3>2, <3>3 DEF TypeRun
  <2>2. pc = "stopped" /\ sel = None /\ hand = 0 /\ fresh = FALSE /\ named = 0
    BY DEF Init
  <2>3. TypeRuntime
    <3>1. 0 \in 0 .. 0 /\ None \in TaskSet \cup {None}
      OBVIOUS
    <3> QED
      BY <2>2, <3>1 DEF TypeRuntime
  <2> QED
    BY <2>1, <2>3
<1>2. attempts = <<>> /\ leases = <<>> /\ DOMAIN attempts = {} /\ DOMAIN leases = {}
  BY DEF Init
<1>3. TypeAttempts
  <2>1. <<>> \in Seq(AttemptRows) /\ <<>> \in Seq(LeaseRows) /\ Len(<<>>) = 0 /\ 0 \in 0 .. 0
    OBVIOUS
  <2>2. usage = 0
    BY DEF Init
  <2> QED
    BY <1>2, <2>1, <2>2 DEF TypeAttempts
<1>4. TypeTasks
  BY DEF Init, TypeTasks
<1>5. NoCounters \in Counters
  <2>1. /\ 0 \in 0 .. CallCeiling /\ 0 \in 0 .. Bootstraps /\ 0 \in 0 .. AttemptCeiling
        /\ 0 \in 0 .. ResumeCeiling /\ 0 \in 0 .. TrancheCalls
        /\ 0 \in 0 .. CheckpointCeiling /\ 0 \in 0 .. InvalidCeiling
    BY CeilingsType
  <2> QED
    BY <2>1 DEF NoCounters, Counters
<1>6. TypeBudget
  BY <1>5 DEF Init, TypeBudget
<1>7. TypeOK
  BY <1>1, <1>3, <1>4, <1>6 DEF TypeOK
<1>8. HandInv /\ SelInv /\ PauseInv
  BY DEF Init, HandInv, SelInv, PauseInv
<1>9. TrancheInv
  BY DEF Init, NoCounters, TrancheInv
<1>10. TasksApart
  BY <1>2 DEF TasksApart, DependenciesFirst, HazardsApart, TasksOf, With
<1>11. WithinCaps
  <2> SUFFICES ASSUME NEW k \in TaskSet
               PROVE  /\ Cardinality(AttemptsOf(k)) = counters[k].attempts
                      /\ counters[k].spent + counters[k].remaining = counters[k].allocated
                      /\ Cardinality(Resumed(k)) + (IF resume[k] = 0 THEN 0 ELSE 1)
                           = counters[k].resumes
    BY DEF WithinCaps, Resumed
  <2>1. AttemptsOf(k) = {} /\ Resumed(k) = {}
    BY <1>2 DEF AttemptsOf, Resumed
  <2>2. Cardinality(AttemptsOf(k)) = 0 /\ Cardinality(Resumed(k)) = 0
    BY <2>1, FS_EmptySet
  <2>3. counters[k] = NoCounters /\ resume[k] = 0
    BY DEF Init
  <2>4. /\ counters[k].attempts = 0 /\ counters[k].spent = 0 /\ counters[k].remaining = 0
        /\ counters[k].allocated = 0 /\ counters[k].resumes = 0
    BY <2>3 DEF NoCounters
  <2> QED
    BY <2>2, <2>3, <2>4
<1>12. WorkersAreCounted
  <2>1. Unexpired = {}
    BY <1>2 DEF Unexpired, Active
  <2>2. Cardinality(Unexpired) = 0
    BY <2>1, FS_EmptySet
  <2>3. leases = <<>> /\ usage = 0
    BY DEF Init
  <2> QED
    BY <2>2, <2>3 DEF WorkersAreCounted
<1> QED
  BY <1>7, <1>8, <1>9, <1>10, <1>11, <1>12 DEF Inv

LEMMA StepInv == Inv /\ [Next]_vars => Inv'
BY RunType, AttemptsStep, TasksStep, BudgetType, RuntimeType, HandStep, SelStep, PauseStep,
   TrancheStep, ApartStep, CapsStep, WorkersStep DEF Inv, TypeOK

\* The inductive invariant holds in every reachable state.
THEOREM Invariant == Spec => []Inv
BY InitInv, StepInv, PTL DEF Spec

\* The variables keep their types: each counter of a Task stays under its own
\* ceiling, and every id in a tranche, a resume or a row has been handed out.
THEOREM TypeCorrect == Spec => []TypeOK
<1>1. Inv => TypeOK
  BY DEF Inv
<1> QED
  BY <1>1, Invariant, PTL

\* Whatever the Plan and in whatever order Attempts fail, wait and are resumed, no
\* Attempt exists before its dependencies, nor beside one it is in hazard with.
THEOREM PlanIsObeyed == Spec => []TasksApart
<1>1. Inv => TasksApart
  BY DEF Inv
<1> QED
  BY <1>1, Invariant, PTL

\* No way through bootstrap, renewal and manual resumes gets a Task past a cap.
THEOREM CapsAreKept == Spec => []WithinCaps
<1>1. Inv => WithinCaps
  BY DEF Inv
<1> QED
  BY <1>1, Invariant, PTL

\* Whatever budgets are approved while Workers are at work, the leases in force
\* never exceed the settled usage, nor the ceiling of Workers that the last of
\* them was issued under, and dispatch is closed while they are as many as that.
THEOREM WorkersStayCounted == Spec => []WorkersAreCounted
<1>1. Inv => WorkersAreCounted
  BY DEF Inv
<1> QED
  BY <1>1, Invariant, PTL

\* An active lease belongs to an Attempt of its Task that lives or was invalidated:
\* an Attempt that succeeds or fails leaves none of its leases behind.
THEOREM LeasesHaveOwners == Spec => []LeasesOwned
<1>1. Init => LeasesOwned
  BY DEF Init, LeasesOwned, Active
<1> QED
  BY <1>1, OwnersStep, Invariant, PTL DEF Spec

LEMMA PlanStaysAccepted == Spec => [](plan \in Plans /\ Accepted(plan, Order))
<1>1. Init => plan \in Plans /\ Accepted(plan, Order)
  BY Zenon DEF Init
<1>2. plan \in Plans /\ Accepted(plan, Order) /\ [Next]_vars
        => (plan \in Plans /\ Accepted(plan, Order))'
  BY PlanKept
<1> QED
  BY <1>1, <1>2, PTL DEF Spec

\* Each scope of each Plan has "**" at the end of a pattern only.
RootedScopes == \A p \in Plans : \A k \in TaskSet :
                    \A pattern \in p[k].reads \cup p[k].writes : Rooted(pattern)

\* Two Tasks that may write the same path are in hazard both ways, and no Plan
\* with a cycle of hazards is accepted.
LEMMA WritersApart ==
    ASSUME RootedScopes, TypeAttempts, plan \in Plans, Accepted(plan, Order)
    PROVE  LeasesDisjoint
<1> SUFFICES ASSUME NEW l \in Unexpired, NEW m \in Unexpired,
                    leases[l].task # leases[m].task, NEW path \in Paths,
                    NEW w \in plan[leases[l].task].writes, Matches(w, path),
                    NEW v \in plan[leases[m].task].writes, Matches(v, path)
             PROVE  FALSE
  BY DEF LeasesDisjoint
<1>1. leases[l].task \in TaskSet /\ leases[m].task \in TaskSet
  <2>1. leases[l] \in LeaseRows /\ leases[m] \in LeaseRows
    BY RowsType DEF Unexpired, Active
  <2> QED
    BY <2>1 DEF LeaseRows
<1>2. DOMAIN plan = TaskSet /\ path \in Strings
  BY SchedulingAssumption, ScopesAssumption DEF Strings
<1>3. ASSUME NEW k \in TaskSet, NEW n \in TaskSet, k # n,
             NEW a \in plan[k].writes, Matches(a, path),
             NEW b \in plan[n].writes, Matches(b, path)
      PROVE  <<n, k>> \in PromotionHazards(plan)
  <2>1. /\ a \in Strings \ {<<>>} /\ b \in Strings \ {<<>>} /\ Rooted(b)
        /\ \A r \in plan[k].reads : r \in Strings \ {<<>>} /\ Rooted(r)
    BY ScopesAssumption DEF RootedScopes, Strings
  <2>2. PICK r \in plan[k].reads : Included(a, r)
    BY <1>2 DEF Accepted
  <2>3. Matches(r, path)
    BY <1>2, <1>3, <2>1, <2>2, IncludedIsSound
  <2>4. MayOverlap(b, r)
    BY <1>2, <1>3, <2>1, <2>3, DisjointIsSoundForRooted DEF MayOverlap
  <2>5. AnyOverlap(plan[n].writes, Sensitivity(plan[k]))
    BY <2>4 DEF AnyOverlap, Sensitivity
  <2> QED
    BY <1>2, <1>3, <2>5 DEF PromotionHazards
<1> DEFINE k == leases[l].task
           n == leases[m].task
<1>4. <<n, k>> \in PromotionHazards(plan) /\ <<k, n>> \in PromotionHazards(plan)
  BY <1>1, <1>3
<1>5. Acyclic(TaskSet, PromotionHazards(plan) \cup Dependencies(plan))
  BY <1>2 DEF Accepted
<1>6. {k, n} \in (SUBSET TaskSet) \ {{}}
  BY <1>1
<1>7. PICK c \in {k, n} :
          \A d \in {k, n} : <<d, c>> \notin PromotionHazards(plan) \cup Dependencies(plan)
  BY <1>5, <1>6, Zenon DEF Acyclic
<1> QED
  BY <1>4, <1>7

\* Leases in force allow no path in common and are counted as WorkersStayCounted
\* says, as far as the scopes of the Plans have "**" at their ends: what
\* validate_plan takes to be apart is then apart, and no Plan is accepted in which
\* two Tasks may write one path, as each would be a hazard to the other and the two
\* a cycle.  Neither the order of the Attempts nor the comparison in the
\* transactions of the leases is needed for it.
THEOREM LeasesStayDisjoint == RootedScopes => (Spec => []LeasesInForce)
<1> SUFFICES ASSUME RootedScopes PROVE Spec => []LeasesInForce
  OBVIOUS
<1>1. Inv /\ plan \in Plans /\ Accepted(plan, Order) => LeasesInForce
  BY WritersApart DEF Inv, TypeOK, LeasesInForce
<1> QED
  BY <1>1, Invariant, PlanStaysAccepted, PTL

\* An Attempt is created with dispatch open, though the creation does not look at
\* what closes it, and a budget that closed dispatch stays spent.
THEOREM DispatchObeyed == Spec => DispatchIsObeyed
<1> DEFINE WhileOpen == Len(attempts') > Len(attempts) => Open
           Stopped == "BUDGET_EXHAUSTED" \in causes => "BUDGET_EXHAUSTED" \in causes'
<1>1. ASSUME Inv, [Next]_vars PROVE WhileOpen /\ Stopped
  <2>1. CASE CreateAttempt
    <3>1. Open
      BY <1>1, <2>1, CreateEffect DEF Inv, SelInv, CreateAttempt
    <3> QED
      BY <1>1, <3>1, StaysClosed
  <2>2. CASE SameAttempts
    <3>1. Len(attempts') = Len(attempts) /\ Len(attempts) \in Nat
      BY <1>1, <2>2, RowsType DEF SameAttempts, Inv, TypeOK
    <3> QED
      BY <1>1, <3>1, StaysClosed
  <2> QED
    BY <1>1, <2>1, <2>2, AttemptsStep
<1>2. Inv /\ [Next]_vars => [WhileOpen]_vars /\ [Stopped]_vars
  BY <1>1
<1>3. Spec => [][WhileOpen]_vars /\ [][Stopped]_vars
  BY <1>2, Invariant, PTL DEF Spec
<1> QED
  BY <1>3 DEF DispatchIsObeyed, NoAttemptWhileClosed, BudgetStopIsFinal

\* A lease that has lapsed or ended is never renewed, reissued or found in force.
THEOREM LeasesEndForGood == Spec => LeaseEndsForGood
<1> DEFINE ForGood == \A l \in DOMAIN leases : l \notin Unexpired => l \notin Unexpired'
<1>1. ASSUME Inv, [Next]_vars PROVE ForGood
  <2>1. CASE CreateAttempt
    BY <1>1, <2>1, CreateEffect DEF Unexpired, Active
  <2>2. ASSUME NEW i \in DOMAIN attempts, IssueLease(i) PROVE ForGood
    BY <1>1, <2>2, IssueEffect DEF Unexpired, Active
  <2>3. CASE Shrinks
    BY <2>3 DEF Shrinks
  <2> QED
    BY <1>1, <2>1, <2>2, <2>3, AttemptsStep
<1>2. Inv /\ [Next]_vars => [ForGood]_vars
  BY <1>1
<1>3. Spec => [][ForGood]_vars
  BY <1>2, Invariant, PTL DEF Spec
<1> QED
  BY <1>3 DEF LeaseEndsForGood
=============================================================================
