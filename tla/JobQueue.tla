------------------------------ MODULE JobQueue ------------------------------
(***************************************************************************)
(* The persistent job queue of job-queue/src/job_queue.rs: a SQLite table  *)
(* of jobs and the dispatch loops (run_dispatch_loop) that pop a due job,  *)
(* run its handler and put a failed job back with an exponential back-off. *)
(*                                                                         *)
(* One statement sent to SQLite is one step: pop_available sends a SELECT  *)
(* and then a DELETE outside any transaction, so two dispatchers may       *)
(* interleave between them.  A statement may fail (SQLITE_BUSY, disk), and *)
(* the process may die; both are "faults".  The table survives a crash,    *)
(* what a dispatcher holds in memory does not.                             *)
(***************************************************************************)
EXTENDS Naturals, FiniteSets

CONSTANTS Jobs,         \* job ids (uuids, never reused)
          Dispatchers,  \* threads inside run_dispatch_loop
          Limits,       \* max_attempts a caller may give Job::new
          Delays,       \* delay_seconds a caller may give Job::new
          ParkDelay,    \* 3650 days: "never" within any run considered
          MaxTime,      \* bound: the clock stops here
          MaxFaults,    \* bound: failed statements and crashes
          NoJob         \* a dispatcher that holds no job

ASSUME JobQueueAssumption ==
  /\ Limits \subseteq Nat /\ Delays \subseteq Nat
  /\ MaxTime \in Nat /\ MaxFaults \in Nat
  /\ ParkDelay \in Nat /\ ParkDelay > MaxTime
  /\ NoJob \notin Jobs
  \* 2u64.pow(attempts) is a number of seconds; it is only taken below
  \* max_attempts, which therefore must stay under 64.
  /\ \A m \in Limits : \A a \in 0..m : 2 ^ a \in Nat

VARIABLES
  now,           \* the clock, in seconds
  enqueued,      \* ids handed to enqueue so far
  stored,        \* ids with a row in the jobs table
  available_at,  \* the row's available_at column
  attempts,      \* the row's attempts column
  max_attempts,  \* the row's max_attempts column, and that of every copy of the job
  pc,            \* where each dispatcher is in its loop
  job,           \* the Job value the dispatcher holds ...
  tries,         \* ... and the attempts field of that value
  runs,          \* history: how often a handler was started on a job
  done,          \* history: jobs whose handler returned Ok(true)
  faults         \* history: failed statements and crashes so far

table == <<stored, available_at, attempts, max_attempts>>
local == <<pc, job, tries>>
vars  == <<now, enqueued, table, local, runs, done, faults>>

TypeOK ==
  /\ now \in 0..MaxTime
  /\ enqueued \subseteq Jobs
  /\ stored \subseteq enqueued
  /\ available_at \in [Jobs -> Nat]
  /\ attempts \in [Jobs -> Nat]
  /\ max_attempts \in [Jobs -> Nat] /\ \A j \in enqueued : max_attempts[j] \in Limits
  /\ pc \in [Dispatchers -> {"idle", "selected", "popped", "handling", "retrying"}]
  /\ job \in [Dispatchers -> enqueued \cup {NoJob}]
  /\ \A d \in Dispatchers : job[d] = NoJob <=> pc[d] = "idle"
  /\ tries \in [Dispatchers -> Nat]
  /\ runs \in [Jobs -> Nat]
  /\ done \subseteq enqueued
  /\ faults \in 0..MaxFaults

Init ==
  /\ now = 0 /\ enqueued = {} /\ stored = {}
  /\ available_at = [j \in Jobs |-> 0]
  /\ attempts = [j \in Jobs |-> 0]
  /\ max_attempts = [j \in Jobs |-> 0]
  /\ pc = [d \in Dispatchers |-> "idle"]
  /\ job = [d \in Dispatchers |-> NoJob]
  /\ tries = [d \in Dispatchers |-> 0]
  /\ runs = [j \in Jobs |-> 0]
  /\ done = {} /\ faults = 0

-----------------------------------------------------------------------------
(* Actions.                                                                *)

\* Job::new followed by enqueue: a fresh id, available after the delay.
Enqueue(j, delay, limit) ==
  /\ j \notin enqueued
  /\ enqueued' = enqueued \cup {j}
  /\ stored' = stored \cup {j}
  /\ available_at' = [available_at EXCEPT ![j] = now + delay]
  /\ attempts' = [attempts EXCEPT ![j] = 0]
  /\ max_attempts' = [max_attempts EXCEPT ![j] = limit]
  /\ UNCHANGED <<now, local, runs, done, faults>>

\* WHERE available_at <= now
Due(j) == j \in stored /\ available_at[j] <= now

SelectLatest(d) ==
  /\ pc[d] = "idle"
  /\ \E j \in stored :
       /\ Due(j) /\ available_at[j] >= now
       /\ job' = [job EXCEPT ![d] = j]
       /\ tries' = [tries EXCEPT ![d] = attempts[j]]
  /\ pc' = [pc EXCEPT ![d] = "selected"]
  /\ UNCHANGED <<now, enqueued, table, runs, done, faults>>

\* pop_available, SELECT ... ORDER BY available_at ASC LIMIT 1.
SelectDue(d) ==
  /\ pc[d] = "idle"
  /\ \E j \in stored :
       /\ Due(j)
       /\ \A k \in stored : Due(k) => available_at[j] <= available_at[k]
       /\ job' = [job EXCEPT ![d] = j]
       /\ tries' = [tries EXCEPT ![d] = attempts[j]]
  /\ pc' = [pc EXCEPT ![d] = "selected"]
  /\ UNCHANGED <<now, enqueued, table, runs, done, faults>>

DeleteRowSkipped(d) ==
  /\ pc[d] = "selected"
  /\ pc' = [pc EXCEPT ![d] = "popped"]
  /\ UNCHANGED <<now, enqueued, table, job, tries, runs, done, faults>>

\* pop_available, DELETE ... WHERE id: the row count is not looked at.
DeleteRow(d) ==
  /\ pc[d] = "selected"
  /\ stored' = stored \ {job[d]}
  /\ pc' = [pc EXCEPT ![d] = "popped"]
  /\ UNCHANGED <<now, enqueued, available_at, attempts, max_attempts, job, tries, runs, done, faults>>

StartHandler(d) ==
  /\ pc[d] = "popped"
  /\ runs' = [runs EXCEPT ![job[d]] = @ + 1]
  /\ pc' = [pc EXCEPT ![d] = "handling"]
  /\ UNCHANGED <<now, enqueued, table, job, tries, done, faults>>

\* The dispatcher drops the Job value and goes round its loop.
Release(d) ==
  /\ pc' = [pc EXCEPT ![d] = "idle"]
  /\ job' = [job EXCEPT ![d] = NoJob]
  /\ tries' = [tries EXCEPT ![d] = 0]

HandlerOk(d) ==
  /\ pc[d] = "handling"
  /\ done' = done \cup {job[d]}
  /\ Release(d)
  /\ UNCHANGED <<now, enqueued, table, runs, faults>>

HandlerFailsDropped(d) ==
  /\ pc[d] = "handling"
  /\ Release(d)
  /\ UNCHANGED <<now, enqueued, table, runs, done, faults>>

\* Ok(false) | Err(_)
HandlerFails(d) ==
  /\ pc[d] = "handling"
  /\ pc' = [pc EXCEPT ![d] = "retrying"]
  /\ UNCHANGED <<now, enqueued, table, job, tries, runs, done, faults>>

BackoffOffByOne(j, a) == IF a > max_attempts[j] THEN ParkDelay ELSE 2 ^ a

\* retry_job: parked for ten years when exhausted, else 2^attempts seconds.
Backoff(j, a) == IF a >= max_attempts[j] THEN ParkDelay ELSE 2 ^ a

RetryJobKeepsCount(d) ==
  /\ pc[d] = "retrying"
  /\ stored' = stored \cup {job[d]}
  /\ attempts' = [attempts EXCEPT ![job[d]] = tries[d]]
  /\ available_at' = [available_at EXCEPT ![job[d]] = now + Backoff(job[d], tries[d])]
  /\ Release(d)
  /\ UNCHANGED <<now, enqueued, max_attempts, runs, done, faults>>

\* retry_job, INSERT OR REPLACE.
RetryJob(d) ==
  /\ pc[d] = "retrying"
  /\ stored' = stored \cup {job[d]}
  /\ attempts' = [attempts EXCEPT ![job[d]] = tries[d] + 1]
  /\ available_at' = [available_at EXCEPT
                        ![job[d]] = now + Backoff(job[d], tries[d] + 1)]
  /\ Release(d)
  /\ UNCHANGED <<now, enqueued, max_attempts, runs, done, faults>>

\* The DELETE fails: pop_available returns Err before the job is used.
DeleteFails(d) ==
  /\ pc[d] = "selected" /\ faults < MaxFaults
  /\ faults' = faults + 1
  /\ Release(d)
  /\ UNCHANGED <<now, enqueued, table, runs, done>>

\* let _ = self.retry_job(job): the error, and the job, are dropped.
RetryFails(d) ==
  /\ pc[d] = "retrying" /\ faults < MaxFaults
  /\ faults' = faults + 1
  /\ Release(d)
  /\ UNCHANGED <<now, enqueued, table, runs, done>>

\* The process dies and is started again; only the table survives.
Crash ==
  /\ faults < MaxFaults
  /\ faults' = faults + 1
  /\ pc' = [d \in Dispatchers |-> "idle"]
  /\ job' = [d \in Dispatchers |-> NoJob]
  /\ tries' = [d \in Dispatchers |-> 0]
  /\ UNCHANGED <<now, enqueued, table, runs, done>>

Tick ==
  /\ now < MaxTime
  /\ now' = now + 1
  /\ UNCHANGED <<enqueued, table, local, runs, done, faults>>

Dispatch(d) ==
  \/ SelectDue(d) \/ DeleteRow(d) \/ StartHandler(d)
  \/ HandlerOk(d) \/ HandlerFails(d) \/ RetryJob(d)

Next ==
  \/ \E j \in Jobs, delay \in Delays, limit \in Limits : Enqueue(j, delay, limit)
  \/ \E d \in Dispatchers : Dispatch(d) \/ DeleteFails(d) \/ RetryFails(d)
  \/ Crash
  \/ Tick

\* The dispatch loop is an infinite loop on a thread of its own, a handler
\* returns, and time passes; nobody is obliged to enqueue.
Fairness == WF_vars(Tick) /\ \A d \in Dispatchers : WF_vars(Dispatch(d))

Spec == Init /\ [][Next]_vars
FairSpec == Spec /\ Fairness

-----------------------------------------------------------------------------
(* Properties.                                                             *)

\* Dispatchers that hold j after pop_available returned it.
Holders(j) == {d \in Dispatchers : job[d] = j /\ pc[d] \in {"popped", "handling", "retrying"}}

\* run_dispatch_loop retries a failing job up to max_attempts times: no job
\* is started more often than that (a job always gets one run).  True of one
\* dispatcher; two may write back a stale attempts count.
RunBudget == \A j \in Jobs : runs[j] <= 1 \/ runs[j] <= max_attempts[j]

\* However many dispatchers race, the copy a dispatcher works on is never an
\* exhausted one: retry_job parks it beyond every clock value.
ExhaustedStaysParked ==
  \A d \in Dispatchers :
    job[d] # NoJob => tries[d] = 0 \/ tries[d] < max_attempts[job[d]]

\* pop_available: a job leaves the table only into the hands of a dispatcher,
\* so without a fault an unfinished job is always in the table or in work,
\* and one fault loses at most the jobs held at that moment.
Lost == {j \in enqueued \ (stored \cup done) : \A d \in Dispatchers : job[d] # j}
LossBoundedByFaults == Cardinality(Lost) <= faults * Cardinality(Dispatchers)

\* A job whose handler returned Ok(true) is gone for good: it is not in the
\* table and nobody works on it.  True of one dispatcher.
DoneStaysDone == \A j \in done : j \notin stored /\ Holders(j) = {}

\* The strengthening that makes RunBudget and DoneStaysDone inductive for a
\* single dispatcher: the attempts column, or the copy in hand, counts the
\* runs exactly; a row that used up its budget is parked; and a job is never
\* both in the table and in the hands of the dispatcher that popped it.
RunsAccounted ==
  /\ \A j \in stored :
       /\ runs[j] = attempts[j] /\ j \notin done
       /\ attempts[j] = 0 \/ attempts[j] < max_attempts[j] \/ available_at[j] > MaxTime
  /\ \A d \in Dispatchers :
       /\ pc[d] # "idle" => job[d] \notin done /\ (tries[d] = 0 \/ tries[d] < max_attempts[job[d]])
       /\ pc[d] \in {"selected", "popped"} => runs[job[d]] = tries[d]
       /\ pc[d] \in {"handling", "retrying"} => runs[job[d]] = tries[d] + 1
       /\ pc[d] \in {"popped", "handling", "retrying"} => job[d] \notin stored
  /\ \A j \in Jobs \ enqueued : runs[j] = 0
  /\ RunBudget

\* job_queue.rs:147 says "Use transaction for atomic delete": two dispatchers
\* never hold the same popped job.
AtomicPop == \A j \in Jobs : Cardinality(Holders(j)) <= 1

\* A job whose time comes is handed to a handler, unless a fault hits.
EventuallyHandled ==
  \A j \in Jobs :
    (j \in stored /\ available_at[j] <= MaxTime) ~> (runs[j] > 0 \/ faults > 0)
=============================================================================
