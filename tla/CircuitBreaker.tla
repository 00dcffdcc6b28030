--------------------------- MODULE CircuitBreaker ---------------------------
(***************************************************************************)
(* CircuitBreaker and FailoverStrategy::call_with_failover of              *)
(* src/plugin_manager/failover.rs, called by several threads.  The state   *)
(* and the time of the last failure are behind two mutexes, the failure    *)
(* counter is atomic: every access is a step.                              *)
(*                                                                         *)
(* Time is relative: age is how long ago, in seconds, the value of         *)
(* last_failure was, lag how long ago a thread read its "now".  So         *)
(* now - last_failure is age - lag, and it underflows when lag > age.      *)
(***************************************************************************)
EXTENDS Naturals, FiniteSets

CONSTANTS Callers,    \* threads inside call_with_failover
          Threshold,  \* failure_threshold
          Timeout,    \* timeout_seconds
          MaxLag,     \* bound: seconds that pass between a thread's reading
                      \* of the clock and its use of that reading
          None

Horizon == Timeout + MaxLag  \* ages beyond it are all alike

VARIABLES
  state,       \* CircuitState
  failures,    \* AtomicUsize
  age,         \* seconds since the time stored in last_failure
  state_lock,  \* the thread that holds the mutex of state ...
  last_lock,   \* ... and of last_failure, between steps
  pc,
  lag,         \* seconds since the thread read "now"
  opened       \* history: seconds since the circuit opened

locks == <<state_lock, last_lock>>
vars  == <<state, failures, age, locks, pc, lag, opened>>

TypeOK ==
  /\ state \in {"Closed", "Open", "HalfOpen"}
  /\ failures \in 0..(Threshold + Cardinality(Callers))
  /\ age \in 0..Horizon /\ opened \in 0..Horizon
  /\ last_lock \in Callers \cup {None}
  /\ pc \in [Callers -> {"idle", "allow", "allow_check", "trying", "success", "success_state",
                         "failure", "failure_time", "failure_state", "failure_check"}]
  /\ lag \in [Callers -> 0..MaxLag]
  /\ {t \in Callers : pc[t] \in {"allow_check", "failure_check"}} = {state_lock} \ {None}

\* last_failure is 0: the epoch, longer ago than any timeout.
Init ==
  /\ state = "Closed" /\ failures = 0
  /\ age = Horizon /\ opened = Horizon
  /\ state_lock = None /\ last_lock = None
  /\ pc = [t \in Callers |-> "idle"]
  /\ lag = [t \in Callers |-> 0]

Goto(t, l) == pc' = [pc EXCEPT ![t] = l]
Capped(n) == IF n > Horizon THEN Horizon ELSE n

\* *state = s, with the history of openings.
SetState(s) ==
  /\ state' = s
  /\ opened' = IF s = "Open" /\ state # "Open" THEN 0 ELSE opened

ElapsedOffByOne(t) == age + 1 >= Timeout + lag[t]

\* now - *last_failure >= timeout_seconds, on u64: an underflow wraps around
\* in a release build.
Elapsed(t) == lag[t] > age \/ age - lag[t] >= Timeout

-----------------------------------------------------------------------------
(* call_with_failover and should_allow_request.                            *)

Call(t) ==
  /\ pc[t] = "idle"
  /\ Goto(t, "allow")
  /\ UNCHANGED <<state, failures, age, locks, lag, opened>>

\* Lock state, read the clock; an open circuit goes on to last_failure with
\* the lock held.
Allow(t) ==
  /\ pc[t] = "allow" /\ state_lock = None
  /\ lag' = [lag EXCEPT ![t] = 0]
  /\ IF state = "Open"
     THEN Goto(t, "allow_check") /\ state_lock' = t
     ELSE Goto(t, "trying") /\ UNCHANGED state_lock
  /\ UNCHANGED <<state, failures, age, last_lock, opened>>

\* A rejected request is recorded as a failure too.
AllowCheck(t) ==
  /\ pc[t] = "allow_check" /\ last_lock = None
  /\ IF Elapsed(t)
     THEN SetState("HalfOpen") /\ Goto(t, "trying")
     ELSE Goto(t, "failure") /\ UNCHANGED <<state, opened>>
  /\ state_lock' = None
  /\ lag' = [lag EXCEPT ![t] = 0]
  /\ UNCHANGED <<failures, age, last_lock>>

\* The service answers.  failover.rs:305 has a placeholder that always succeeds
\* where "in production" the call goes; both branches that follow it are here.
Answer(t, ok) ==
  /\ pc[t] = "trying"
  /\ Goto(t, IF ok THEN "success" ELSE "failure")
  /\ UNCHANGED <<state, failures, age, locks, lag, opened>>

-----------------------------------------------------------------------------
(* record_success.                                                         *)

SuccessStore(t) ==
  /\ pc[t] = "success"
  /\ failures' = 0
  /\ Goto(t, "success_state")
  /\ UNCHANGED <<state, age, locks, lag, opened>>

SuccessState(t) ==
  /\ pc[t] = "success_state" /\ state_lock = None
  /\ SetState(IF state = "HalfOpen" THEN "Closed" ELSE state)
  /\ Goto(t, "idle")
  /\ UNCHANGED <<failures, age, locks, lag>>

-----------------------------------------------------------------------------
(* record_failure.                                                         *)

FailureNow(t) ==
  /\ pc[t] = "failure"
  /\ lag' = [lag EXCEPT ![t] = 0]
  /\ Goto(t, "failure_time")
  /\ UNCHANGED <<state, failures, age, locks, opened>>

FailureTimeKeepsLock(t) ==
  /\ pc[t] = "failure_time" /\ last_lock = None
  /\ age' = lag[t]
  /\ last_lock' = t
  /\ Goto(t, "failure_state")
  /\ UNCHANGED <<state, failures, state_lock, lag, opened>>

\* *last_failure = now; drop(last_failure)
FailureTime(t) ==
  /\ pc[t] = "failure_time" /\ last_lock = None
  /\ age' = lag[t]
  /\ Goto(t, "failure_state")
  /\ UNCHANGED <<state, failures, locks, lag, opened>>

FailureState(t) ==
  /\ pc[t] = "failure_state" /\ state_lock = None
  /\ \/ /\ state = "Closed"
        /\ failures' = failures + 1
        /\ IF failures + 1 >= Threshold THEN SetState("Open") ELSE UNCHANGED <<state, opened>>
        /\ Goto(t, "idle") /\ UNCHANGED state_lock
     \/ /\ state = "HalfOpen"
        /\ SetState("Open")
        /\ Goto(t, "idle") /\ UNCHANGED <<failures, state_lock>>
     \/ /\ state = "Open"
        /\ Goto(t, "failure_check") /\ state_lock' = t
        /\ UNCHANGED <<state, failures, opened>>
  /\ lag' = [lag EXCEPT ![t] = IF state = "Open" THEN @ ELSE 0]
  /\ UNCHANGED <<age, last_lock>>

FailureCheck(t) ==
  /\ pc[t] = "failure_check" /\ last_lock = None
  /\ IF Elapsed(t) THEN SetState("HalfOpen") ELSE UNCHANGED <<state, opened>>
  /\ state_lock' = None
  /\ lag' = [lag EXCEPT ![t] = 0]
  /\ Goto(t, "idle")
  /\ UNCHANGED <<failures, age, last_lock>>

-----------------------------------------------------------------------------
Holding == {t \in Callers : pc[t] \in {"allow_check", "failure_time", "failure_state", "failure_check"}}

\* A second passes, unless it would take a reading of the clock beyond MaxLag.
Tick ==
  /\ \A t \in Holding : lag[t] < MaxLag
  /\ age' = Capped(age + 1) /\ opened' = Capped(opened + 1)
  /\ lag' = [t \in Callers |-> IF t \in Holding THEN lag[t] + 1 ELSE lag[t]]
  /\ UNCHANGED <<state, failures, locks, pc>>

Step(t) ==
  \/ Allow(t) \/ AllowCheck(t) \/ SuccessStore(t) \/ SuccessState(t)
  \/ FailureNow(t) \/ FailureTime(t) \/ FailureState(t) \/ FailureCheck(t)
  \/ \E ok \in BOOLEAN : Answer(t, ok)

Next == (\E t \in Callers : Call(t) \/ Step(t)) \/ Tick

Spec == Init /\ [][Next]_vars

\* Threads run on, the service answers and time passes: strongly fair, because
\* a thread that keeps reading the clock keeps disabling Tick at the bound
\* MaxLag.  Nothing is assumed of the order in which a mutex is handed to those
\* that wait for it.
Fairness == SF_vars(Tick) /\ \A t \in Callers : WF_vars(Step(t))
FairSpec == Spec /\ Fairness

\* Clients that never stop asking.
BusySpec == FairSpec /\ \A t \in Callers : WF_vars(Call(t))

-----------------------------------------------------------------------------
(* Properties.                                                             *)

\* should_allow_request locks last_failure while it holds state, record_failure
\* locks last_failure first and state next: the callers never all wait for
\* each other, when everybody is inside a call somebody returns from it.
CallsReturn == (\A t \in Callers : pc[t] # "idle") ~> (\E t \in Callers : pc[t] = "idle")

\* An open circuit lets no request through before the timeout has passed
\* since it opened, whatever other threads report meanwhile; the time recorded
\* for the failure that opened it may be 2 * MaxLag too old, the thread that
\* opens it and one that overwrites last_failure being that late.  The one exception is a subtraction that wraps around:
\* another thread stored a later second than this one read (failover.rs:128, :149).
Wraps(t) == state_lock = t /\ lag[t] > age
StaysOpen ==
  [][state = "Open" /\ state' = "HalfOpen"
       => opened + 2 * MaxLag >= Timeout \/ \E t \in Callers : Wraps(t)]_vars

\* failover.rs:42, "Open -> HalfOpen: After timeout_seconds elapses", and :231,
\* "Automatic recovery detection".
Recovers == state = "Open" ~> state # "Open"
=============================================================================
