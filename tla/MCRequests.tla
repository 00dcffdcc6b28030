----------------------------- MODULE MCRequests -----------------------------
(***************************************************************************)
(* Small instances of the two components whose callers wait for each       *)
(* other's locks, the circuit breaker and the authentication of the        *)
(* permissions crate.  They share no state: subject says which of them a   *)
(* behaviour is about, the other stands still.                             *)
(***************************************************************************)
EXTENDS Integers, Sequences, FiniteSets

CONSTANTS Threads, None, Threshold, Timeout, MaxLag,
          Names, Secrets, MaxAttempts, MaxUsers, MaxTokens

ASSUME RequestsAssumption ==
  /\ IsFiniteSet(Threads) /\ None \notin Threads
  /\ {Threshold, Timeout, MaxLag, MaxAttempts, MaxUsers, MaxTokens} \subseteq Nat

VARIABLES subject,
  state, failures, age, state_lock, last_lock, pc, lag, opened,
  users, passwords, sessions, attempts, writer, readers, serving, req, found, tokens

breaker_vars == <<state, failures, age, state_lock, last_lock, pc, lag, opened>>
auth_vars    == <<users, passwords, sessions, attempts, writer, readers, serving, req, found, tokens>>
vars == <<subject, breaker_vars, auth_vars>>

B == INSTANCE CircuitBreaker WITH Callers <- Threads
A == INSTANCE Auth WITH pc <- serving

Init == subject \in {"breaker", "auth"} /\ B!Init /\ A!Init

BreakerOnly == subject = "breaker" /\ UNCHANGED <<subject, auth_vars>>
AuthOnly    == subject = "auth" /\ UNCHANGED <<subject, breaker_vars>>

Next ==
  \/ BreakerOnly /\ B!Next
  \/ AuthOnly /\ A!Next

\* The fairness of the two components, where each may move.
Fairness ==
  /\ SF_vars(BreakerOnly /\ B!Tick)
  /\ \A t \in Threads : WF_vars(BreakerOnly /\ B!Step(t)) /\ SF_vars(AuthOnly /\ A!Step(t))
Spec == Init /\ [][Next]_vars /\ Fairness

-----------------------------------------------------------------------------
\* CircuitBreaker: the callers never all wait for each other
\* (record_failure, failover.rs:100).
CallsReturn == B!CallsReturn

\* CircuitBreaker: an open circuit stays open for its timeout
\* (should_allow_request, failover.rs:136).
StaysOpen == B!StaysOpen

\* Auth: every request is answered, unless a registration meets a login that
\* holds passwords or users (auth.rs:195, :306, :208).
Answered == A!Answered

\* Auth: a token that stopped giving access (revoke_token, refresh_token or
\* age) never gives it again (auth.rs:485).
DeadStaysDead == A!DeadStaysDead

\* Auth: a name is registered again only by those past the check, and a session
\* is made with the password stored at that moment (auth.rs:176 and :306).
PasswordsCurrent == A!LateNameRefused /\ A!NoStalePassword
=============================================================================
