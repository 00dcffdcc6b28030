--------------------------- MODULE JobQueueProofs ---------------------------
(* Theorems about JobQueue, for every set of jobs and dispatchers.         *)
EXTENDS JobQueue, FiniteSetTheorems, TLAPS

\* The back-off is a number of seconds; that of an exhausted job is ParkDelay.
LEMMA BackoffValue ==
  ASSUME TypeOK, NEW j \in enqueued, NEW a \in Nat
  PROVE  Backoff(j, a) \in Nat /\ (a >= max_attempts[j] => Backoff(j, a) = ParkDelay)
<1>1. max_attempts[j] \in Limits /\ max_attempts[j] \in Nat
  BY DEF TypeOK
<1>2. CASE a >= max_attempts[j]
  BY <1>2, JobQueueAssumption DEF Backoff
<1>3. CASE ~(a >= max_attempts[j])
  <2>1. a \in 0..max_attempts[j]
    BY <1>1, <1>3
  <2>2. 2 ^ a \in Nat
    BY <1>1, <2>1, JobQueueAssumption
  <2> QED BY <1>3, <2>2 DEF Backoff
<1> QED BY <1>2, <1>3

\* Type correctness of the job table, the dispatchers' copies and the clock.
THEOREM TypeCorrect == Spec => []TypeOK
<1>1. Init => TypeOK
  BY JobQueueAssumption DEF Init, TypeOK
<1>2. TypeOK /\ [Next]_vars => TypeOK'
  <2> SUFFICES ASSUME TypeOK, [Next]_vars PROVE TypeOK'
    OBVIOUS
  <2> USE JobQueueAssumption DEF TypeOK
  <2>1. ASSUME NEW j \in Jobs, NEW delay \in Delays, NEW limit \in Limits, Enqueue(j, delay, limit) PROVE TypeOK'
    BY <2>1 DEF Enqueue, local
  <2>2. ASSUME NEW d \in Dispatchers, SelectDue(d) PROVE TypeOK'
    BY <2>2 DEF SelectDue, table
  <2>3. ASSUME NEW d \in Dispatchers, DeleteRow(d) PROVE TypeOK'
    BY <2>3 DEF DeleteRow
  <2>4. ASSUME NEW d \in Dispatchers, StartHandler(d) PROVE TypeOK'
    BY <2>4 DEF StartHandler, table
  <2>5. ASSUME NEW d \in Dispatchers, HandlerOk(d) PROVE TypeOK'
    BY <2>5 DEF HandlerOk, Release, table
  <2>6. ASSUME NEW d \in Dispatchers, HandlerFails(d) PROVE TypeOK'
    BY <2>6 DEF HandlerFails, table
  <2>7. ASSUME NEW d \in Dispatchers, RetryJob(d) PROVE TypeOK'
    <3>1. job[d] \in enqueued /\ tries[d] + 1 \in Nat
      BY <2>7 DEF RetryJob
    <3>2. Backoff(job[d], tries[d] + 1) \in Nat
      BY <3>1, BackoffValue
    <3> QED BY <2>7, <3>1, <3>2 DEF RetryJob, Release
  <2>8. ASSUME NEW d \in Dispatchers, DeleteFails(d) \/ RetryFails(d) PROVE TypeOK'
    BY <2>8 DEF DeleteFails, RetryFails, Release, table
  <2>9. ASSUME Crash PROVE TypeOK'
    BY <2>9 DEF Crash, table
  <2>10. ASSUME Tick PROVE TypeOK'
    BY <2>10 DEF Tick, table, local
  <2>11. CASE UNCHANGED vars
    BY <2>11 DEF vars, table, local
  <2> QED
    BY <2>1, <2>2, <2>3, <2>4, <2>5, <2>6, <2>7, <2>8, <2>9, <2>10, <2>11 DEF Next, Dispatch
<1> QED
  BY <1>1, <1>2, PTL DEF Spec


\* However many dispatchers race on the table, none of them ever works on a
\* job whose attempts are used up: SelectDue takes rows that are due, and
\* retry_job parks an exhausted row beyond the clock.
RowsParked ==
  /\ \A j \in stored :
       attempts[j] = 0 \/ attempts[j] < max_attempts[j] \/ available_at[j] > MaxTime
  /\ ExhaustedStaysParked

THEOREM ExhaustedParked == Spec => []ExhaustedStaysParked
<1> USE JobQueueAssumption
<1>1. Init => RowsParked
  BY DEF Init, RowsParked, ExhaustedStaysParked
<1>2. TypeOK /\ TypeOK' /\ RowsParked /\ [Next]_vars => RowsParked'
  <2> SUFFICES ASSUME TypeOK, TypeOK', RowsParked, [Next]_vars PROVE RowsParked'
    OBVIOUS
  <2> USE DEF TypeOK, RowsParked, ExhaustedStaysParked
  <2>1. ASSUME NEW j \in Jobs, NEW delay \in Delays, NEW limit \in Limits, Enqueue(j, delay, limit) PROVE RowsParked'
    BY <2>1 DEF Enqueue, local
  <2>2. ASSUME NEW d \in Dispatchers, SelectDue(d) PROVE RowsParked'
    BY <2>2 DEF SelectDue, Due, table
  <2>3. ASSUME NEW d \in Dispatchers, DeleteRow(d) PROVE RowsParked'
    BY <2>3 DEF DeleteRow
  <2>4. ASSUME NEW d \in Dispatchers, StartHandler(d) \/ HandlerFails(d) PROVE RowsParked'
    BY <2>4 DEF StartHandler, HandlerFails, table
  <2>5. ASSUME NEW d \in Dispatchers, HandlerOk(d) PROVE RowsParked'
    BY <2>5 DEF HandlerOk, Release, table
  <2>6. ASSUME NEW d \in Dispatchers, RetryJob(d) PROVE RowsParked'
    <3>1. job[d] \in enqueued /\ tries[d] + 1 \in Nat /\ max_attempts[job[d]] \in Nat
      BY <2>6 DEF RetryJob
    <3>2. tries[d] + 1 >= max_attempts[job[d]] => Backoff(job[d], tries[d] + 1) = ParkDelay
      BY <3>1, BackoffValue
    <3> QED BY <2>6, <3>1, <3>2 DEF RetryJob, Release
  <2>7. ASSUME NEW d \in Dispatchers, DeleteFails(d) \/ RetryFails(d) PROVE RowsParked'
    BY <2>7 DEF DeleteFails, RetryFails, Release, table
  <2>8. ASSUME Crash PROVE RowsParked'
    BY <2>8 DEF Crash, table
  <2>9. ASSUME Tick PROVE RowsParked'
    BY <2>9 DEF Tick, table, local
  <2>10. CASE UNCHANGED vars
    BY <2>10 DEF vars, table, local
  <2> QED
    BY <2>1, <2>2, <2>3, <2>4, <2>5, <2>6, <2>7, <2>8, <2>9, <2>10 DEF Next, Dispatch
<1>3. RowsParked => ExhaustedStaysParked
  BY DEF RowsParked
<1> QED
  BY <1>1, <1>2, <1>3, TypeCorrect, PTL DEF Spec

OneDispatcher == \A c, d \in Dispatchers : c = d

\* One step of a lone dispatcher keeps the exact account of runs.
LEMMA AccountStep ==
  ASSUME OneDispatcher, TypeOK, TypeOK', RunsAccounted, [Next]_vars
  PROVE  RunsAccounted'
<1> USE JobQueueAssumption DEF OneDispatcher, TypeOK, RunsAccounted, RunBudget
<1>1. ASSUME NEW j \in Jobs, NEW delay \in Delays, NEW limit \in Limits, Enqueue(j, delay, limit) PROVE RunsAccounted'
  BY <1>1 DEF Enqueue, local
<1>2. ASSUME NEW d \in Dispatchers, SelectDue(d) PROVE RunsAccounted'
  BY <1>2 DEF SelectDue, Due, table
<1>3. ASSUME NEW d \in Dispatchers, DeleteRow(d) PROVE RunsAccounted'
  BY <1>3 DEF DeleteRow
<1>4. ASSUME NEW d \in Dispatchers, StartHandler(d) PROVE RunsAccounted'
  BY <1>4 DEF StartHandler, table
<1>5. ASSUME NEW d \in Dispatchers, HandlerOk(d) PROVE RunsAccounted'
  BY <1>5 DEF HandlerOk, Release, table
<1>6. ASSUME NEW d \in Dispatchers, HandlerFails(d) PROVE RunsAccounted'
  BY <1>6 DEF HandlerFails, table
<1>7. ASSUME NEW d \in Dispatchers, RetryJob(d) PROVE RunsAccounted'
  <2>1. job[d] \in enqueued /\ tries[d] + 1 \in Nat /\ max_attempts[job[d]] \in Nat
    BY <1>7 DEF RetryJob
  <2>2. tries[d] + 1 >= max_attempts[job[d]] => Backoff(job[d], tries[d] + 1) = ParkDelay
    BY <2>1, BackoffValue
  <2> QED BY <1>7, <2>1, <2>2 DEF RetryJob, Release
<1>8. ASSUME NEW d \in Dispatchers, DeleteFails(d) \/ RetryFails(d) PROVE RunsAccounted'
  BY <1>8 DEF DeleteFails, RetryFails, Release, table
<1>9. ASSUME Crash PROVE RunsAccounted'
  BY <1>9 DEF Crash, table
<1>10. ASSUME Tick PROVE RunsAccounted'
  BY <1>10 DEF Tick, table, local
<1>11. CASE UNCHANGED vars
  BY <1>11 DEF vars, table, local
<1> QED
  BY <1>1, <1>2, <1>3, <1>4, <1>5, <1>6, <1>7, <1>8, <1>9, <1>10, <1>11 DEF Next, Dispatch

\* With one dispatch loop no job is started more often than its max_attempts
\* allows, whatever fails or crashes in between: the attempts column and the
\* copy in hand count the runs.
THEOREM RunBudgetHolds == OneDispatcher => (Spec => []RunBudget)
<1> SUFFICES ASSUME OneDispatcher PROVE Spec => []RunBudget
  OBVIOUS
<1>1. Init => RunsAccounted
  BY JobQueueAssumption DEF Init, RunsAccounted, RunBudget
<1>2. TypeOK /\ TypeOK' /\ RunsAccounted /\ [Next]_vars => RunsAccounted'
  BY AccountStep
<1>3. RunsAccounted => RunBudget
  BY DEF RunsAccounted
<1> QED
  BY <1>1, <1>2, <1>3, TypeCorrect, PTL DEF Spec
\* With one dispatch loop a job whose handler returned Ok(true) never comes
\* back: it is in no row and in nobody's hands.
THEOREM DoneForGood == OneDispatcher => (Spec => []DoneStaysDone)
<1> SUFFICES ASSUME OneDispatcher PROVE Spec => []DoneStaysDone
  OBVIOUS
<1>1. Init => RunsAccounted
  BY JobQueueAssumption DEF Init, RunsAccounted, RunBudget
<1>2. TypeOK /\ TypeOK' /\ RunsAccounted /\ [Next]_vars => RunsAccounted'
  BY AccountStep
<1>3. TypeOK /\ RunsAccounted => DoneStaysDone
  BY DEF TypeOK, RunsAccounted, DoneStaysDone, Holders
<1> QED
  BY <1>1, <1>2, <1>3, TypeCorrect, PTL DEF Spec
-----------------------------------------------------------------------------
(* Loss.                                                                   *)

\* The jobs that the dispatchers hold at this moment.
Held == {job[d] : d \in Dispatchers}

\* No more jobs are held than there are dispatchers.
LEMMA HeldBound ==
  ASSUME TypeOK, IsFiniteSet(Dispatchers)
  PROVE  IsFiniteSet(Held) /\ Cardinality(Held) <= Cardinality(Dispatchers)
<1>1. job \in Surjection(Dispatchers, Held)
  BY DEF TypeOK, Held, Surjection
<1> QED BY <1>1, FS_Surjection

\* A step that is not a fault loses no job, and a fault no job but those held.
LEMMA LossStep ==
  ASSUME TypeOK, [Next]_vars
  PROVE  \/ Lost' \subseteq Lost /\ faults' = faults
         \/ Lost' \subseteq Lost \cup Held /\ faults' = faults + 1
<1> USE JobQueueAssumption DEF TypeOK, Lost
<1>1. ASSUME NEW j \in Jobs, NEW delay \in Delays, NEW limit \in Limits, Enqueue(j, delay, limit)
      PROVE Lost' \subseteq Lost /\ faults' = faults
  BY <1>1 DEF Enqueue, local
<1>2. ASSUME NEW d \in Dispatchers, SelectDue(d) PROVE Lost' \subseteq Lost /\ faults' = faults
  BY <1>2 DEF SelectDue, table
<1>3. ASSUME NEW d \in Dispatchers, DeleteRow(d) PROVE Lost' \subseteq Lost /\ faults' = faults
  BY <1>3 DEF DeleteRow
<1>4. ASSUME NEW d \in Dispatchers, StartHandler(d) \/ HandlerFails(d)
      PROVE Lost' \subseteq Lost /\ faults' = faults
  BY <1>4 DEF StartHandler, HandlerFails, table
<1>5. ASSUME NEW d \in Dispatchers, HandlerOk(d) PROVE Lost' \subseteq Lost /\ faults' = faults
  BY <1>5 DEF HandlerOk, Release, table
<1>6. ASSUME NEW d \in Dispatchers, RetryJob(d) PROVE Lost' \subseteq Lost /\ faults' = faults
  BY <1>6 DEF RetryJob, Release
<1>7. ASSUME NEW d \in Dispatchers, DeleteFails(d) \/ RetryFails(d)
      PROVE Lost' \subseteq Lost \cup Held /\ faults' = faults + 1
  BY <1>7 DEF DeleteFails, RetryFails, Release, table, Held
<1>8. ASSUME Crash PROVE Lost' \subseteq Lost \cup Held /\ faults' = faults + 1
  BY <1>8 DEF Crash, table, Held
<1>9. ASSUME Tick PROVE Lost' \subseteq Lost /\ faults' = faults
  BY <1>9 DEF Tick, table, local
<1>10. CASE UNCHANGED vars
  BY <1>10 DEF vars, table, local
<1> QED
  BY <1>1, <1>2, <1>3, <1>4, <1>5, <1>6, <1>7, <1>8, <1>9, <1>10 DEF Next, Dispatch

\* However many dispatchers race on the table, one failed statement or crash
\* loses at most one job per dispatcher, and nothing else loses any.
THEOREM LossBounded == IsFiniteSet(Dispatchers) => (Spec => []LossBoundedByFaults)
<1> SUFFICES ASSUME IsFiniteSet(Dispatchers) PROVE Spec => []LossBoundedByFaults
  OBVIOUS
<1> DEFINE Inv == IsFiniteSet(Lost) /\ LossBoundedByFaults
           c == Cardinality(Dispatchers)
<1>0. c \in Nat
  BY FS_CardinalityType
<1>1. Init => Inv
  <2> SUFFICES ASSUME Init PROVE Inv
    OBVIOUS
  <2>1. Lost = {} /\ faults = 0
    BY DEF Init, Lost
  <2> QED BY <1>0, <2>1, FS_EmptySet DEF LossBoundedByFaults
<1>2. TypeOK /\ Inv /\ [Next]_vars => Inv'
  <2> SUFFICES ASSUME TypeOK, Inv, [Next]_vars PROVE Inv'
    OBVIOUS
  <2>1. Cardinality(Lost) \in Nat /\ faults \in Nat
    BY FS_CardinalityType, JobQueueAssumption DEF TypeOK
  <2>2. CASE Lost' \subseteq Lost /\ faults' = faults
    <3>1. IsFiniteSet(Lost') /\ Cardinality(Lost') <= Cardinality(Lost)
      BY <2>2, FS_Subset
    <3>2. Cardinality(Lost') \in Nat
      BY <3>1, FS_CardinalityType
    <3>3. Cardinality(Lost) <= faults * c
      BY DEF LossBoundedByFaults
    <3>4. faults * c \in Nat
      BY <1>0, <2>1
    <3> HIDE DEF c
    <3>5. Cardinality(Lost') <= faults * c
      BY <2>1, <3>1, <3>2, <3>3, <3>4
    <3> QED BY <2>2, <3>1, <3>5 DEF LossBoundedByFaults, c
  <2>3. CASE Lost' \subseteq Lost \cup Held /\ faults' = faults + 1
    <3>1. IsFiniteSet(Held) /\ Cardinality(Held) <= c
      BY HeldBound
    <3>2. /\ IsFiniteSet(Lost \cup Held) /\ IsFiniteSet(Lost \cap Held)
          /\ Cardinality(Lost \cup Held) = Cardinality(Lost) + Cardinality(Held) - Cardinality(Lost \cap Held)
      BY <3>1, FS_Union, FS_Subset
    <3>3. IsFiniteSet(Lost') /\ Cardinality(Lost') <= Cardinality(Lost \cup Held)
      BY <2>3, <3>2, FS_Subset
    <3>4. /\ Cardinality(Held) \in Nat /\ Cardinality(Lost \cap Held) \in Nat
          /\ Cardinality(Lost \cup Held) \in Nat /\ Cardinality(Lost') \in Nat
      BY <3>1, <3>2, <3>3, FS_CardinalityType
    <3>5. Cardinality(Lost) <= faults * c
      BY DEF LossBoundedByFaults
    <3>6. faults * c \in Nat /\ (faults + 1) * c = faults * c + c
      BY <1>0, <2>1
    <3> HIDE DEF c
    <3>7. Cardinality(Lost') <= (faults + 1) * c
      BY <1>0, <2>1, <3>1, <3>2, <3>3, <3>4, <3>5, <3>6
    <3> QED BY <2>3, <3>3, <3>7 DEF LossBoundedByFaults, c
  <2> QED BY <2>2, <2>3, LossStep
<1> QED BY <1>1, <1>2, TypeCorrect, PTL DEF Spec
=============================================================================
