--------------------------- MODULE RequestsProofs ---------------------------
(***************************************************************************)
(* Proofs about the circuit breaker and the authentication of the          *)
(* permissions crate, for any number of threads, names, passwords, tokens  *)
(* and any threshold, timeout and delay.  Each component is proved about   *)
(* by itself; the theorems, at the end, are about MCRequests.              *)
(***************************************************************************)
EXTENDS MCRequests, FiniteSetTheorems, TLAPS

-----------------------------------------------------------------------------
(* CircuitBreaker.                                                         *)

BreakerLabels == {"idle", "allow", "allow_check", "trying", "success", "success_state",
                  "failure", "failure_time", "failure_state", "failure_check"}

BreakerTypes ==
  /\ state \in {"Closed", "Open", "HalfOpen"} /\ failures \in Nat
  /\ age \in 0..B!Horizon /\ opened \in 0..B!Horizon
  /\ pc \in [Threads -> BreakerLabels] /\ lag \in [Threads -> 0..MaxLag]

\* The mutex of state is held between two steps by the thread that checks the
\* timeout and by nobody else, that of last_failure never.
LockHeld ==
  /\ state_lock \in Threads \cup {None} /\ last_lock = None
  /\ \A t \in Threads : pc[t] \in {"allow_check", "failure_check"} <=> state_lock = t

\* The time stored in last_failure is no older than the last thread to store
\* it was late and, seen by a thread about to open the circuit, than that
\* thread was late too: so it is never much older than the opening.
TimeStored ==
  /\ \A t \in Threads : pc[t] = "failure_state" => age <= MaxLag + lag[t]
  /\ state = "Open" => age <= opened + 2 * MaxLag

\* A circuit is closed with failures counted only by a thread that had set the
\* counter back before; every such thread can let one failure more be counted.
Closing == {t \in Threads : pc[t] = "success_state"}
FailuresCounted ==
  /\ failures + Cardinality(Closing) <= Threshold + Cardinality(Threads) \/ failures = 0
  /\ state = "Closed" =>
       failures + Cardinality(Closing) < Threshold + Cardinality(Threads) \/ failures = 0

BreakerInv == BreakerTypes /\ LockHeld /\ TimeStored /\ FailuresCounted

LEMMA BreakerInit == B!Init => BreakerInv
<1> SUFFICES ASSUME B!Init PROVE BreakerInv
  OBVIOUS
<1> USE RequestsAssumption DEF B!Init, B!Horizon
<1>1. BreakerTypes
  BY DEF BreakerTypes, BreakerLabels
<1>2. LockHeld
  BY DEF LockHeld
<1>3. TimeStored
  BY DEF TimeStored
<1>4. FailuresCounted
  BY DEF FailuresCounted
<1> QED BY <1>1, <1>2, <1>3, <1>4 DEF BreakerInv

\* Threads that enter or leave Closing are counted.
LEMMA ClosingFacts ==
  ASSUME BreakerTypes
  PROVE  /\ IsFiniteSet(Closing) /\ Cardinality(Closing) \in Nat
         /\ Cardinality(Closing) <= Cardinality(Threads) /\ Cardinality(Threads) \in Nat
         /\ \A t \in Threads \ Closing : Cardinality(Closing) < Cardinality(Threads)
<1>1. Closing \subseteq Threads
  BY DEF Closing
<1>2. IsFiniteSet(Closing) /\ Cardinality(Closing) <= Cardinality(Threads)
  BY <1>1, RequestsAssumption, FS_Subset
<1>3. Cardinality(Closing) \in Nat /\ Cardinality(Threads) \in Nat
  BY <1>2, RequestsAssumption, FS_CardinalityType
<1>4. ASSUME NEW t \in Threads \ Closing PROVE Cardinality(Closing) < Cardinality(Threads)
  <2>1. Cardinality(Closing) # Cardinality(Threads)
    BY <1>1, RequestsAssumption, FS_Subset
  <2> QED BY <2>1, <1>2, <1>3
<1> QED BY <1>2, <1>3, <1>4

LEMMA BreakerStep == BreakerInv /\ [B!Next]_B!vars => BreakerInv'
<1> SUFFICES ASSUME BreakerInv, [B!Next]_B!vars PROVE BreakerInv'
  OBVIOUS
<1> USE RequestsAssumption DEF BreakerInv
<1>a. Threshold \in Nat /\ Timeout \in Nat /\ MaxLag \in Nat /\ B!Horizon \in Nat /\ B!Horizon = Timeout + MaxLag
  BY DEF B!Horizon
<1>b. failures \in Nat /\ Cardinality(Closing) \in Nat /\ Cardinality(Threads) \in Nat
  BY ClosingFacts DEF BreakerTypes
<1>c. ASSUME UNCHANGED <<failures, state>>, Closing' = Closing PROVE FailuresCounted'
  BY <1>c DEF FailuresCounted
<1>d. ASSUME NEW t \in Threads, NEW l \in BreakerLabels \ {"success_state"}, pc[t] # "success_state",
             pc' = [pc EXCEPT ![t] = l] PROVE Closing' = Closing
  BY <1>d DEF Closing, BreakerTypes
<1>1. ASSUME NEW t \in Threads, B!Call(t) PROVE BreakerInv'
  <2> USE <1>1 DEF B!Call, B!Goto, B!locks
  <2>1. BreakerTypes'
    BY DEF BreakerTypes, BreakerLabels
  <2>2. LockHeld'
    BY DEF LockHeld, BreakerTypes
  <2>3. TimeStored'
    BY DEF TimeStored, BreakerTypes
  <2>4. FailuresCounted'
    BY <1>c, <1>d DEF BreakerLabels
  <2> QED BY <2>1, <2>2, <2>3, <2>4
<1>2. ASSUME NEW t \in Threads, B!Allow(t) PROVE BreakerInv'
  <2> USE <1>2 DEF B!Allow, B!Goto, B!locks
  <2>1. BreakerTypes'
    BY <1>a DEF BreakerTypes, BreakerLabels
  <2>2. LockHeld'
    BY DEF LockHeld, BreakerTypes
  <2>3. TimeStored'
    BY DEF TimeStored, BreakerTypes
  <2>4. FailuresCounted'
    BY <1>c, <1>d DEF BreakerLabels
  <2> QED BY <2>1, <2>2, <2>3, <2>4
<1>3. ASSUME NEW t \in Threads, B!AllowCheck(t) PROVE BreakerInv'
  <2> USE <1>3 DEF B!AllowCheck, B!Goto, B!SetState, B!locks
  <2>1. BreakerTypes'
    BY <1>a DEF BreakerTypes, BreakerLabels
  <2>2. LockHeld'
    BY DEF LockHeld, BreakerTypes
  <2>3. TimeStored'
    BY DEF TimeStored, BreakerTypes
  <2>4. Closing' = Closing
    BY <1>d DEF BreakerLabels
  <2>5. FailuresCounted'
    BY <2>4, <1>b DEF FailuresCounted
  <2> QED BY <2>1, <2>2, <2>3, <2>5
<1>4. ASSUME NEW t \in Threads, NEW ok \in BOOLEAN, B!Answer(t, ok) PROVE BreakerInv'
  <2> USE <1>4 DEF B!Answer, B!Goto, B!locks
  <2>1. BreakerTypes'
    BY DEF BreakerTypes, BreakerLabels
  <2>2. LockHeld'
    BY DEF LockHeld, BreakerTypes
  <2>3. TimeStored'
    BY DEF TimeStored, BreakerTypes
  <2>4. FailuresCounted'
    BY <1>c, <1>d DEF BreakerLabels
  <2> QED BY <2>1, <2>2, <2>3, <2>4
<1>5. ASSUME NEW t \in Threads, B!SuccessStore(t) PROVE BreakerInv'
  <2> USE <1>5 DEF B!SuccessStore, B!Goto, B!locks
  <2>1. BreakerTypes'
    BY DEF BreakerTypes, BreakerLabels
  <2>2. LockHeld'
    BY DEF LockHeld, BreakerTypes
  <2>3. TimeStored'
    BY DEF TimeStored, BreakerTypes
  <2>4. FailuresCounted'
    BY DEF FailuresCounted
  <2> QED BY <2>1, <2>2, <2>3, <2>4
<1>6. ASSUME NEW t \in Threads, B!SuccessState(t) PROVE BreakerInv'
  <2> USE <1>6 DEF B!SuccessState, B!Goto, B!SetState, B!locks
  <2>1. BreakerTypes'
    BY DEF BreakerTypes, BreakerLabels
  <2>2. LockHeld'
    BY DEF LockHeld, BreakerTypes
  <2>3. TimeStored'
    BY DEF TimeStored, BreakerTypes
  <2>4. t \in Closing
    BY DEF Closing
  <2>5. Cardinality(Closing') = Cardinality(Closing) - 1
    <3>1. Closing' = Closing \ {t}
      BY DEF Closing, BreakerTypes
    <3> QED BY <2>4, <3>1, ClosingFacts, FS_RemoveElement
  <2>6. FailuresCounted'
    BY <2>5, <1>a, <1>b DEF FailuresCounted
  <2> QED BY <2>1, <2>2, <2>3, <2>6
<1>7. ASSUME NEW t \in Threads, B!FailureNow(t) PROVE BreakerInv'
  <2> USE <1>7 DEF B!FailureNow, B!Goto, B!locks
  <2>1. BreakerTypes'
    BY <1>a DEF BreakerTypes, BreakerLabels
  <2>2. LockHeld'
    BY DEF LockHeld, BreakerTypes
  <2>3. TimeStored'
    BY DEF TimeStored, BreakerTypes
  <2>4. FailuresCounted'
    BY <1>c, <1>d DEF BreakerLabels
  <2> QED BY <2>1, <2>2, <2>3, <2>4
<1>8. ASSUME NEW t \in Threads, B!FailureTime(t) PROVE BreakerInv'
  <2> USE <1>8 DEF B!FailureTime, B!Goto, B!locks
  <2>0. lag[t] \in 0..MaxLag
    BY DEF BreakerTypes
  <2>1. BreakerTypes'
    BY <1>a, <2>0 DEF BreakerTypes, BreakerLabels
  <2>2. LockHeld'
    BY DEF LockHeld, BreakerTypes
  <2>3. TimeStored'
    <3>1. \A u \in Threads : lag[u] \in 0..MaxLag
      BY DEF BreakerTypes
    <3> QED BY <1>a, <2>0, <3>1 DEF TimeStored, BreakerTypes
  <2>4. FailuresCounted'
    BY <1>c, <1>d DEF BreakerLabels
  <2> QED BY <2>1, <2>2, <2>3, <2>4
<1>9. ASSUME NEW t \in Threads, B!FailureState(t) PROVE BreakerInv'
  <2> USE <1>9 DEF B!FailureState, B!Goto, B!SetState, B!locks
  <2>0. lag[t] \in 0..MaxLag /\ pc[t] = "failure_state"
    BY DEF BreakerTypes
  <2>1. BreakerTypes'
    BY <1>a, <2>0 DEF BreakerTypes, BreakerLabels
  <2>2. LockHeld'
    BY DEF LockHeld, BreakerTypes
  <2>3. TimeStored'
    <3>1. age <= 2 * MaxLag
      BY <1>a, <2>0 DEF TimeStored, BreakerTypes
    <3>2. \A u \in Threads : pc'[u] = "failure_state" => u # t /\ pc[u] = "failure_state" /\ lag'[u] = lag[u]
      BY DEF BreakerTypes
    <3>3. state' = "Open" => age <= opened' + 2 * MaxLag
      BY <1>a, <3>1 DEF TimeStored, BreakerTypes
    <3> QED BY <3>2, <3>3 DEF TimeStored
  <2>4. Closing' = Closing
    BY <1>d, <2>0 DEF BreakerLabels
  <2>5. Cardinality(Closing) < Cardinality(Threads)
    BY <2>0, ClosingFacts DEF Closing
  <2>6. FailuresCounted'
    BY <2>4, <2>5, <1>a, <1>b DEF FailuresCounted
  <2> QED BY <2>1, <2>2, <2>3, <2>6
<1>10. ASSUME NEW t \in Threads, B!FailureCheck(t) PROVE BreakerInv'
  <2> USE <1>10 DEF B!FailureCheck, B!Goto, B!SetState, B!locks
  <2>1. BreakerTypes'
    BY <1>a DEF BreakerTypes, BreakerLabels
  <2>2. LockHeld'
    BY DEF LockHeld, BreakerTypes
  <2>3. TimeStored'
    BY DEF TimeStored, BreakerTypes
  <2>4. Closing' = Closing
    BY <1>d DEF BreakerLabels
  <2>5. FailuresCounted'
    BY <2>4, <1>b DEF FailuresCounted
  <2> QED BY <2>1, <2>2, <2>3, <2>5
<1>11. ASSUME B!Tick PROVE BreakerInv'
  <2> USE <1>11 DEF B!Tick, B!locks
  <2>0. \A t \in Threads : /\ lag[t] \in 0..MaxLag
                           /\ t \in B!Holding => lag[t] + 1 \in 0..MaxLag
                           /\ pc[t] = "failure_state" => t \in B!Holding
    BY <1>a DEF BreakerTypes, B!Holding
  <2>1. BreakerTypes'
    BY <1>a, <2>0 DEF BreakerTypes, B!Capped
  <2>2. LockHeld'
    BY DEF LockHeld
  <2>3. TimeStored'
    <3>1. \A t \in Threads : pc[t] = "failure_state" => age' <= MaxLag + lag'[t]
      BY <1>a, <2>0 DEF TimeStored, BreakerTypes, B!Capped
    <3>2. state = "Open" => age' <= opened' + 2 * MaxLag
      BY <1>a DEF TimeStored, BreakerTypes, B!Capped
    <3> QED BY <3>1, <3>2 DEF TimeStored
  <2>4. FailuresCounted'
    BY <1>c DEF Closing
  <2> QED BY <2>1, <2>2, <2>3, <2>4
<1>12. ASSUME UNCHANGED B!vars PROVE BreakerInv'
  BY <1>12 DEF B!vars, B!locks, BreakerTypes, LockHeld, TimeStored, FailuresCounted, Closing
<1> QED BY <1>1, <1>2, <1>3, <1>4, <1>5, <1>6, <1>7, <1>8, <1>9, <1>10, <1>11, <1>12 DEF B!Next, B!Step

\* What the invariant says of a step that ends the open state.
LEMMA BreakerOpen ==
  ASSUME BreakerInv, [B!Next]_B!vars, state = "Open", state' = "HalfOpen"
  PROVE  opened + 2 * MaxLag >= Timeout \/ \E t \in Threads : B!Wraps(t)
<1> USE DEF BreakerInv
<1>1. PICK t \in Threads : B!AllowCheck(t) \/ B!FailureCheck(t)
  BY DEF B!Next, B!Step, B!vars, B!Call, B!Allow, B!Answer, B!SuccessStore, B!SuccessState,
         B!FailureNow, B!FailureTime, B!FailureState, B!Tick, B!SetState
<1>2. B!Elapsed(t) /\ state_lock = t
  BY <1>1 DEF B!AllowCheck, B!FailureCheck, LockHeld
<1>3. CASE lag[t] > age
  BY <1>2, <1>3 DEF B!Wraps
<1>4. CASE ~ (lag[t] > age)
  <2>1. lag[t] \in Nat /\ age \in Nat /\ opened \in Nat /\ Timeout \in Nat /\ MaxLag \in Nat
    BY RequestsAssumption DEF BreakerTypes, B!Horizon
  <2> QED BY <1>2, <1>4, <2>1 DEF TimeStored, B!Elapsed
<1> QED BY <1>3, <1>4

-----------------------------------------------------------------------------
(* Auth.                                                                   *)

LoginLabels == {"login", "verify", "find", "lock_sessions", "read_user", "reset"}
RegisterLabels == {"check_name", "users_bit", "add_user", "passwords_bit", "add_password"}

StoreTypes ==
  /\ \E n \in 0..MaxUsers : users \in [1..n -> Names]
  /\ passwords \in [Names -> Secrets \cup {None}]
  /\ attempts \in [Names -> 0..MaxAttempts]
  /\ tokens \in 0..MaxTokens

ThreadTypes ==
  /\ writer \in [A!Locks \cup {"sessions"} -> Threads \cup {None}]
  /\ readers \in [A!Locks -> [Threads -> Nat]]
  /\ serving \in [Threads -> {"idle"} \cup LoginLabels \cup RegisterLabels]
  /\ req \in [Threads -> A!Requests \cup {A!NoRequest}]
  /\ found \in [Threads -> Nat \cup {None}]

\* Requests are served by the handlers they are for, and a login has found a
\* user when it makes the session.
Served(t) ==
  /\ serving[t] \in LoginLabels => req[t].op \in {"password", "key"}
  /\ serving[t] \in RegisterLabels => req[t].op \in {"register", "add_user"}
  /\ serving[t] \in {"check_name", "passwords_bit", "add_password"} => req[t].op = "register"
  /\ serving[t] = "verify" => req[t].op = "password"
  /\ serving[t] \in {"lock_sessions", "read_user"} => found[t] \in DOMAIN users

\* Only logins hold read guards, and a password login holds that of passwords
\* from its check on, so that the password cannot change.
Guarded(t) ==
  /\ \A l \in A!Locks : readers[l][t] > 0 => serving[t] \in {"find", "lock_sessions", "read_user"}
  /\ \A l \in A!Locks : writer[l] = t => serving[t] \in RegisterLabels
  /\ serving[t] \in {"find", "lock_sessions", "read_user"} /\ req[t].op = "password"
       => readers["passwords"][t] > 0 /\ passwords[req[t].name] = req[t].secret

\* A session has a token that was made and belongs to a user.
SessionsMade ==
  /\ DOMAIN sessions \subseteq 1..tokens
  /\ sessions \in [DOMAIN sessions -> [user : Nat, expired : BOOLEAN]]
  /\ \A k \in DOMAIN sessions : sessions[k].user \in DOMAIN users

AuthInv ==
  /\ StoreTypes /\ ThreadTypes /\ SessionsMade
  /\ \A t \in Threads : Served(t) /\ Guarded(t)

LEMMA AuthInit == A!Init => AuthInv
<1> SUFFICES ASSUME A!Init PROVE AuthInv
  OBVIOUS
<1> USE RequestsAssumption DEF A!Init, A!Locks
<1>1. StoreTypes
  <2>1. users \in [1..0 -> Names]
    OBVIOUS
  <2>2. \E n \in 0..MaxUsers : users \in [1..n -> Names]
    BY <2>1
  <2> QED BY <2>2 DEF StoreTypes
<1>2. ThreadTypes
  BY DEF ThreadTypes
<1>3. \A t \in Threads : Served(t) /\ Guarded(t)
  BY DEF Served, Guarded, LoginLabels, RegisterLabels
<1>4. SessionsMade
  BY DEF SessionsMade
<1> QED BY <1>1, <1>2, <1>3, <1>4 DEF AuthInv

\* The ids of users are 1 to their number.
LEMMA UsersCounted ==
  ASSUME StoreTypes
  PROVE  /\ A!Cardinality(DOMAIN users) \in 0..MaxUsers
         /\ users \in [1..A!Cardinality(DOMAIN users) -> Names]
<1>1. PICK n \in 0..MaxUsers : users \in [1..n -> Names]
  BY DEF StoreTypes
<1>2. A!Cardinality(DOMAIN users) = Cardinality(1..n)
  BY <1>1 DEF Cardinality, A!Cardinality
<1>3. Cardinality(1..n) = n
  BY FS_Interval
<1> QED BY <1>1, <1>2, <1>3

\* What a request that a thread serves has.
LEMMA RequestFacts ==
  ASSUME ThreadTypes, NEW t \in Threads, req[t].op # "none"
  PROVE  /\ req[t] \in A!Requests /\ req[t].name \in Names
         /\ req[t].op \in {"register", "password"} => req[t].secret \in Secrets
BY DEF ThreadTypes, A!Requests, A!NoRequest

\* A step of t that leaves the other threads where they are.
OthersKeep(t) ==
  \A u \in Threads \ {t} :
    /\ serving'[u] = serving[u] /\ req'[u] = req[u] /\ found'[u] = found[u]
    /\ \A l \in A!Locks : readers'[l][u] = readers[l][u] /\ (writer'[l] = u => writer[l] = u)

LEMMA OthersSafe ==
  ASSUME AuthInv, NEW t \in Threads, OthersKeep(t), DOMAIN users \subseteq DOMAIN users',
         (\E u \in Threads \ {t} : readers["passwords"][u] > 0) => passwords' = passwords
  PROVE  \A u \in Threads \ {t} : Served(u)' /\ Guarded(u)'
<1> SUFFICES ASSUME NEW u \in Threads \ {t} PROVE Served(u)' /\ Guarded(u)'
  OBVIOUS
<1>1. Served(u) /\ Guarded(u)
  BY DEF AuthInv
<1>2. Served(u)'
  BY <1>1 DEF Served, OthersKeep
<1>3. Guarded(u)'
  BY <1>1 DEF Guarded, OthersKeep, A!Locks
<1> QED BY <1>2, <1>3

\* A thread that returns lets go of everything.
LEMMA ReturnFacts ==
  ASSUME AuthInv, NEW t \in Threads, A!Return(t)
  PROVE  ThreadTypes' /\ OthersKeep(t) /\ Served(t)' /\ Guarded(t)'
<1> USE RequestsAssumption DEF A!Return, A!Goto, AuthInv
<1>1. ThreadTypes'
  BY DEF ThreadTypes, A!Locks
<1>2. OthersKeep(t)
  BY DEF ThreadTypes, OthersKeep, A!Locks
<1>3. serving'[t] = "idle" /\ \A l \in A!Locks : readers'[l][t] = 0 /\ writer'[l] # t
  BY DEF ThreadTypes, A!Locks
<1> HIDE DEF A!Return, A!Goto, AuthInv
<1>4. Served(t)'
  BY <1>3 DEF Served, LoginLabels, RegisterLabels
<1>5. Guarded(t)'
  BY <1>3 DEF Guarded
<1> QED BY <1>1, <1>2, <1>4, <1>5

\* A thread that goes on with what it has.
LEMMA GotoFacts ==
  ASSUME ThreadTypes, NEW t \in Threads, NEW l \in {"idle"} \cup LoginLabels \cup RegisterLabels,
         A!Goto(t, l), UNCHANGED <<req, found, A!locks>>
  PROVE  ThreadTypes' /\ OthersKeep(t) /\ serving'[t] = l
BY DEF A!Goto, ThreadTypes, OthersKeep, A!locks

\* One that takes the writer bit of a lock.
LEMMA WriterBitFacts ==
  ASSUME ThreadTypes, NEW t \in Threads, NEW a, NEW l \in A!Locks \cup {"sessions"},
         NEW next \in LoginLabels \cup RegisterLabels, A!WriterBit(t, a, l, next)
  PROVE  ThreadTypes' /\ OthersKeep(t) /\ serving'[t] = next
BY RequestsAssumption DEF A!WriterBit, A!Goto, ThreadTypes, OthersKeep, A!Locks

\* One that takes a read guard.
LEMMA ReadFacts ==
  ASSUME ThreadTypes, NEW t \in Threads, NEW l \in A!Locks, readers' = A!Read(t, l)
  PROVE  /\ readers' \in [A!Locks -> [Threads -> Nat]]
         /\ readers'[l][t] = readers[l][t] + 1
         /\ \A k \in A!Locks \ {l} : readers'[k] = readers[k]
         /\ \A u \in Threads \ {t} : readers'[l][u] = readers[l][u]
BY DEF A!Read, ThreadTypes

\* What is left to show of a step of t.
LEMMA ThreadStep ==
  ASSUME AuthInv, NEW t \in Threads, ThreadTypes', OthersKeep(t), StoreTypes', SessionsMade',
         Served(t)', Guarded(t)', DOMAIN users \subseteq DOMAIN users',
         (\E u \in Threads \ {t} : readers["passwords"][u] > 0) => passwords' = passwords
  PROVE  AuthInv'
<1>1. \A u \in Threads \ {t} : Served(u)' /\ Guarded(u)'
  BY OthersSafe
<1>2. \A u \in Threads : Served(u)' /\ Guarded(u)'
  BY <1>1
<1> QED BY <1>2 DEF AuthInv

LEMMA AuthStep == AuthInv /\ [A!Next]_A!vars => AuthInv'
<1> SUFFICES ASSUME AuthInv, [A!Next]_A!vars PROVE AuthInv'
  OBVIOUS
<1>a. StoreTypes /\ ThreadTypes /\ SessionsMade /\ \A t \in Threads : Served(t) /\ Guarded(t)
  BY DEF AuthInv
<1>b. ASSUME UNCHANGED <<users, passwords, attempts, tokens>> PROVE StoreTypes'
  BY <1>a, <1>b DEF StoreTypes
<1>c. ASSUME UNCHANGED <<users, sessions, tokens>> PROVE SessionsMade'
  BY <1>a, <1>c DEF SessionsMade
<1>d. ASSUME NEW t \in Threads, A!Return(t), StoreTypes', SessionsMade', DOMAIN users \subseteq DOMAIN users',
             (\E u \in Threads \ {t} : readers["passwords"][u] > 0) => passwords' = passwords
      PROVE  AuthInv'
  BY <1>d, ReturnFacts, ThreadStep
<1>1. ASSUME NEW t \in Threads, A!CheckName(t) PROVE AuthInv'
  <2>1. StoreTypes' /\ SessionsMade' /\ users' = users /\ passwords' = passwords
    BY <1>1, <1>b, <1>c DEF A!CheckName
  <2>2. CASE A!Return(t)
    BY <2>1, <2>2, <1>d
  <2>3. CASE A!Goto(t, "users_bit") /\ UNCHANGED <<req, found, A!locks>>
    <3>1. ThreadTypes' /\ OthersKeep(t) /\ serving'[t] = "users_bit"
      BY <1>a, <2>3, GotoFacts DEF RegisterLabels
    <3>2. serving[t] = "check_name"
      BY <1>1 DEF A!CheckName
    <3>3. Served(t)'
      BY <1>a, <2>3, <3>1, <3>2 DEF Served, LoginLabels, RegisterLabels
    <3>4. Guarded(t)'
      BY <1>a, <2>3, <3>1, <3>2 DEF Guarded, A!locks, RegisterLabels
    <3> QED BY <2>1, <3>1, <3>3, <3>4, ThreadStep
  <2> QED BY <1>1, <2>2, <2>3 DEF A!CheckName
<1>2. ASSUME NEW t \in Threads, A!UsersBit(t) PROVE AuthInv'
  <2>1. StoreTypes' /\ SessionsMade' /\ users' = users /\ passwords' = passwords
    BY <1>2, <1>b, <1>c DEF A!UsersBit, A!WriterBit
  <2>2. ThreadTypes' /\ OthersKeep(t) /\ serving'[t] = "add_user"
    BY <1>2, <1>a, WriterBitFacts DEF A!UsersBit, RegisterLabels, A!Locks
  <2>3. serving[t] = "users_bit" /\ UNCHANGED <<readers, req, found>>
    BY <1>2 DEF A!UsersBit, A!WriterBit
  <2>4. Served(t)'
    BY <1>a, <2>2, <2>3 DEF Served, LoginLabels, RegisterLabels
  <2>5. Guarded(t)'
    BY <1>a, <2>2, <2>3 DEF Guarded, RegisterLabels
  <2> QED BY <2>1, <2>2, <2>4, <2>5, ThreadStep
<1>3. ASSUME NEW t \in Threads, A!AddUser(t) PROVE AuthInv'
  <2> DEFINE n == A!Cardinality(DOMAIN users)
  <2>1. n \in Nat /\ n + 1 \in 0..MaxUsers /\ DOMAIN users = 1..n /\ users \in [1..n -> Names]
    BY <1>3, <1>a, UsersCounted, RequestsAssumption DEF A!AddUser
  <2>2. serving[t] = "add_user" /\ req[t].op \in {"register", "add_user"}
    BY <1>3, <1>a DEF A!AddUser, Served, RegisterLabels
  <2>3. req[t].name \in Names
    BY <2>2, <1>a, RequestFacts
  <2>4. users' = [i \in 1..(n + 1) |-> IF i \in DOMAIN users THEN users[i] ELSE req[t].name]
    BY <1>3 DEF A!AddUser
  <2> HIDE DEF n
  <2>5. users' \in [1..(n + 1) -> Names] /\ DOMAIN users \subseteq DOMAIN users'
    BY <2>1, <2>3, <2>4
  <2>6. UNCHANGED <<passwords, sessions, attempts, tokens>>
    BY <1>3 DEF A!AddUser
  <2>7. StoreTypes'
    BY <1>a, <2>1, <2>5, <2>6 DEF StoreTypes
  <2>8. SessionsMade'
    BY <1>a, <2>5, <2>6 DEF SessionsMade
  <2>9. CASE A!Return(t)
    BY <2>5, <2>6, <2>7, <2>8, <2>9, <1>d
  <2>10. CASE req[t].op = "register" /\ A!Goto(t, "passwords_bit") /\ UNCHANGED <<req, found, A!locks>>
    <3>1. ThreadTypes' /\ OthersKeep(t) /\ serving'[t] = "passwords_bit"
      BY <1>a, <2>10, GotoFacts DEF RegisterLabels
    <3>2. Served(t)'
      BY <2>10, <3>1 DEF Served, LoginLabels, RegisterLabels
    <3>3. Guarded(t)'
      BY <1>a, <2>2, <2>6, <2>10, <3>1 DEF Guarded, A!locks, RegisterLabels
    <3> QED BY <2>5, <2>6, <2>7, <2>8, <3>1, <3>2, <3>3, ThreadStep
  <2> QED BY <1>3, <2>9, <2>10 DEF A!AddUser
<1>4. ASSUME NEW t \in Threads, A!PasswordsBit(t) PROVE AuthInv'
  <2>1. StoreTypes' /\ SessionsMade' /\ users' = users /\ passwords' = passwords
    BY <1>4, <1>b, <1>c DEF A!PasswordsBit, A!WriterBit
  <2>2. ThreadTypes' /\ OthersKeep(t) /\ serving'[t] = "add_password"
    BY <1>4, <1>a, WriterBitFacts DEF A!PasswordsBit, RegisterLabels, A!Locks
  <2>3. serving[t] = "passwords_bit" /\ UNCHANGED <<readers, req, found>>
    BY <1>4 DEF A!PasswordsBit, A!WriterBit
  <2>4. Served(t)'
    BY <1>a, <2>2, <2>3 DEF Served, LoginLabels, RegisterLabels
  <2>5. Guarded(t)'
    BY <1>a, <2>2, <2>3 DEF Guarded, RegisterLabels
  <2> QED BY <2>1, <2>2, <2>4, <2>5, ThreadStep
<1>5. ASSUME NEW t \in Threads, A!AddPassword(t) PROVE AuthInv'
  <2>1. serving[t] = "add_password" /\ req[t].op = "register"
    BY <1>5, <1>a DEF A!AddPassword, Served
  <2>2. req[t].name \in Names /\ req[t].secret \in Secrets
    BY <2>1, <1>a, RequestFacts
  <2>3. UNCHANGED <<users, sessions, attempts, tokens>>
    BY <1>5 DEF A!AddPassword
  <2>4. StoreTypes'
    BY <1>5, <1>a, <2>2, <2>3 DEF StoreTypes, A!AddPassword
  <2>5. \A u \in Threads : ~ (readers["passwords"][u] > 0)
    BY <1>5 DEF A!AddPassword, A!CanEnter
  <2>6. A!Return(t)
    BY <1>5 DEF A!AddPassword
  <2> QED BY <1>c, <1>d, <2>3, <2>4, <2>5, <2>6
<1>6. ASSUME NEW t \in Threads, A!Throttle(t) PROVE AuthInv'
  <2>1. serving[t] = "login" /\ req[t].op \in {"password", "key"}
    BY <1>6, <1>a DEF A!Throttle, Served, LoginLabels
  <2>2. req[t].name \in Names
    BY <2>1, <1>a, RequestFacts
  <2>3. UNCHANGED <<users, passwords, sessions, tokens>>
    BY <1>6 DEF A!Throttle
  <2>4. SessionsMade'
    BY <1>c, <2>3
  <2>5. CASE A!Return(t) /\ UNCHANGED attempts
    BY <1>b, <1>d, <2>3, <2>4, <2>5
  <2>6. CASE /\ A!Admitted(req[t].name)
             /\ attempts' = [attempts EXCEPT ![req[t].name] = @ + 1]
             /\ A!Goto(t, IF req[t].op = "password" THEN "verify" ELSE "find")
             /\ UNCHANGED <<req, found, A!locks>>
    <3>1. ThreadTypes' /\ OthersKeep(t) /\ serving'[t] = IF req[t].op = "password" THEN "verify" ELSE "find"
      BY <1>a, <2>6, GotoFacts DEF LoginLabels
    <3>2. attempts[req[t].name] + 1 \in 0..MaxAttempts
      BY <1>a, <2>2, <2>6, RequestsAssumption DEF StoreTypes, A!Admitted
    <3>3. StoreTypes'
      BY <1>a, <2>3, <2>6, <3>2 DEF StoreTypes
    <3>4. Served(t)'
      BY <2>1, <2>6, <3>1 DEF Served, LoginLabels, RegisterLabels
    <3>5. Guarded(t)'
      BY <1>a, <2>1, <2>6, <3>1 DEF Guarded, A!locks, RegisterLabels
    <3> QED BY <2>3, <2>4, <3>1, <3>3, <3>4, <3>5, ThreadStep
  <2> QED BY <1>6, <2>5, <2>6 DEF A!Throttle
<1>7. ASSUME NEW t \in Threads, A!Verify(t) PROVE AuthInv'
  <2>1. StoreTypes' /\ SessionsMade' /\ users' = users /\ passwords' = passwords
    BY <1>7, <1>b, <1>c DEF A!Verify
  <2>2. CASE A!Return(t)
    BY <2>1, <2>2, <1>d
  <2>3. CASE /\ passwords[req[t].name] = req[t].secret
             /\ readers' = A!Read(t, "passwords") /\ A!Goto(t, "find")
             /\ UNCHANGED <<req, found, writer>>
    <3>1. serving[t] = "verify" /\ req[t].op = "password"
      BY <1>7, <1>a DEF A!Verify, Served
    <3>2. /\ readers' \in [A!Locks -> [Threads -> Nat]]
          /\ readers'["passwords"][t] = readers["passwords"][t] + 1
          /\ \A l \in A!Locks, u \in Threads \ {t} : readers'[l][u] = readers[l][u]
      BY <1>a, <2>3, ReadFacts DEF A!Locks
    <3>3. ThreadTypes' /\ serving'[t] = "find" /\ \A u \in Threads \ {t} : serving'[u] = serving[u]
      BY <1>a, <2>3, <3>2 DEF ThreadTypes, A!Goto, LoginLabels
    <3>4. OthersKeep(t)
      BY <2>3, <3>2, <3>3 DEF OthersKeep
    <3>5. Served(t)'
      BY <2>3, <3>1, <3>3 DEF Served, LoginLabels, RegisterLabels
    <3>6. readers'["passwords"][t] > 0
      BY <1>a, <3>2 DEF ThreadTypes, A!Locks
    <3>7. Guarded(t)'
      BY <1>a, <2>1, <2>3, <3>1, <3>3, <3>6 DEF Guarded, RegisterLabels
    <3> QED BY <2>1, <3>3, <3>4, <3>5, <3>7, ThreadStep
  <2> QED BY <1>7, <2>2, <2>3 DEF A!Verify
<1>8. ASSUME NEW t \in Threads, A!Find(t) PROVE AuthInv'
  <2>1. StoreTypes' /\ SessionsMade' /\ users' = users /\ passwords' = passwords
    BY <1>8, <1>b, <1>c DEF A!Find
  <2>2. CASE A!Return(t)
    BY <2>1, <2>2, <1>d
  <2>3. ASSUME NEW v \in DOMAIN users, found' = [found EXCEPT ![t] = v],
               readers' = A!Read(t, "users"), A!Goto(t, "lock_sessions"), UNCHANGED <<req, writer>>
        PROVE  AuthInv'
    <3>1. serving[t] = "find" /\ req[t].op \in {"password", "key"}
      BY <1>8, <1>a DEF A!Find, Served, LoginLabels
    <3>2. /\ readers' \in [A!Locks -> [Threads -> Nat]]
          /\ readers'["passwords"] = readers["passwords"]
          /\ \A l \in A!Locks, u \in Threads \ {t} : readers'[l][u] = readers[l][u]
      BY <1>a, <2>3, ReadFacts DEF A!Locks
    <3>3. v \in Nat
      BY <1>a DEF StoreTypes
    <3>4. /\ ThreadTypes' /\ serving'[t] = "lock_sessions" /\ found'[t] = v
          /\ \A u \in Threads \ {t} : serving'[u] = serving[u] /\ found'[u] = found[u]
      BY <1>a, <2>3, <3>2, <3>3 DEF ThreadTypes, A!Goto, LoginLabels
    <3>5. OthersKeep(t)
      BY <2>3, <3>2, <3>4 DEF OthersKeep
    <3>6. Served(t)'
      BY <2>1, <2>3, <3>1, <3>4 DEF Served, LoginLabels, RegisterLabels
    <3>7. Guarded(t)'
      BY <1>a, <2>1, <2>3, <3>1, <3>2, <3>4 DEF Guarded, RegisterLabels
    <3> QED BY <2>1, <3>4, <3>5, <3>6, <3>7, ThreadStep
  <2> QED BY <1>8, <2>2, <2>3 DEF A!Find
<1>9. ASSUME NEW t \in Threads, A!LockSessions(t) PROVE AuthInv'
  <2>1. StoreTypes' /\ SessionsMade' /\ users' = users /\ passwords' = passwords
    BY <1>9, <1>b, <1>c DEF A!LockSessions, A!WriterBit
  <2>2. ThreadTypes' /\ OthersKeep(t) /\ serving'[t] = "read_user"
    BY <1>9, <1>a, WriterBitFacts DEF A!LockSessions, LoginLabels
  <2>3. serving[t] = "lock_sessions" /\ UNCHANGED <<readers, req, found>> /\ \A l \in A!Locks : writer'[l] = writer[l]
    BY <1>9, <1>a DEF A!LockSessions, A!WriterBit, A!Locks, ThreadTypes
  <2>4. Served(t)'
    BY <1>a, <2>1, <2>2, <2>3 DEF Served, LoginLabels, RegisterLabels
  <2>5. Guarded(t)'
    BY <1>a, <2>1, <2>2, <2>3 DEF Guarded, RegisterLabels
  <2> QED BY <2>1, <2>2, <2>4, <2>5, ThreadStep
<1>10. ASSUME NEW t \in Threads, A!ReadUser(t) PROVE AuthInv'
  <2>1. serving[t] = "read_user" /\ found[t] \in DOMAIN users /\ req[t].op \in {"password", "key"}
    BY <1>10, <1>a DEF A!ReadUser, Served, LoginLabels
  <2>2. UNCHANGED <<users, passwords, attempts, req, found>> /\ tokens' = tokens + 1 /\ tokens < MaxTokens
    BY <1>10 DEF A!ReadUser
  <2>3. StoreTypes'
    BY <1>a, <2>2, RequestsAssumption DEF StoreTypes
  <2>4. SessionsMade'
    <3>1. sessions' = [k \in DOMAIN sessions \cup {tokens + 1} |->
                         IF k \in DOMAIN sessions THEN sessions[k] ELSE [user |-> found[t], expired |-> FALSE]]
      BY <1>10 DEF A!ReadUser, A!NewSession
    <3>2. found[t] \in Nat /\ tokens \in Nat
      BY <1>a, <2>1 DEF StoreTypes
    <3> QED BY <1>a, <2>1, <2>2, <3>1, <3>2 DEF SessionsMade
  <2>5. /\ ThreadTypes' /\ serving'[t] = "reset" /\ \A u \in Threads \ {t} : serving'[u] = serving[u]
        /\ \A l \in A!Locks : writer'[l] = writer[l] /\ readers'[l][t] = 0
        /\ \A l \in A!Locks, u \in Threads \ {t} : readers'[l][u] = readers[l][u]
    BY <1>10, <1>a DEF A!ReadUser, A!Goto, ThreadTypes, A!Locks, LoginLabels
  <2>6. OthersKeep(t)
    BY <2>2, <2>5 DEF OthersKeep
  <2>7. Served(t)'
    BY <2>1, <2>2, <2>5 DEF Served, LoginLabels, RegisterLabels
  <2>8. Guarded(t)'
    BY <1>a, <2>1, <2>2, <2>5 DEF Guarded, RegisterLabels
  <2> QED BY <2>2, <2>3, <2>4, <2>5, <2>6, <2>7, <2>8, ThreadStep
<1>11. ASSUME NEW t \in Threads, A!Reset(t) PROVE AuthInv'
  <2>1. UNCHANGED <<users, passwords, sessions, tokens>> /\ A!Return(t)
    BY <1>11 DEF A!Reset
  <2>2. req[t].name \in Names
    BY <1>11, <1>a, RequestFacts DEF A!Reset, Served, LoginLabels
  <2>3. StoreTypes'
    BY <1>11, <1>a, <2>1, <2>2, RequestsAssumption DEF StoreTypes, A!Reset
  <2> QED BY <1>c, <1>d, <2>1, <2>3
<1>12. ASSUME NEW t \in Threads, NEW r \in A!Requests,
              A!login_handler(t, r) \/ A!register_handler(t, r) \/ A!register_user(t, r)
       PROVE  AuthInv'
  <2>1. PICK l \in {"login", "check_name", "users_bit"} :
          /\ A!Start(t, r, l) /\ (l = "login" => r.op \in {"password", "key"})
          /\ (l = "check_name" => r.op = "register") /\ (l = "users_bit" => r.op = "add_user")
    BY <1>12 DEF A!login_handler, A!register_handler, A!register_user
  <2>2. UNCHANGED <<users, passwords, sessions, attempts, A!locks, found, tokens>>
    BY <2>1 DEF A!Start
  <2>3. StoreTypes' /\ SessionsMade'
    BY <1>b, <1>c, <2>2
  <2>4. ThreadTypes' /\ OthersKeep(t) /\ serving[t] = "idle" /\ serving'[t] = l /\ req'[t] = r
    BY <1>a, <2>1 DEF A!Start, A!Goto, ThreadTypes, OthersKeep, A!locks, LoginLabels, RegisterLabels
  <2>5. Served(t)'
    BY <2>1, <2>4 DEF Served, LoginLabels, RegisterLabels
  <2>6. Guarded(t)'
    BY <1>a, <2>2, <2>4 DEF Guarded, RegisterLabels, A!locks
  <2> QED BY <2>2, <2>3, <2>4, <2>5, <2>6, ThreadStep
<1>e. ASSUME UNCHANGED <<users, passwords, A!locks, serving, req, found>>, StoreTypes', SessionsMade'
      PROVE  AuthInv'
  <2>1. ThreadTypes'
    BY <1>a, <1>e DEF ThreadTypes, A!locks
  <2>2. \A t \in Threads : Served(t)' /\ Guarded(t)'
    BY <1>a, <1>e DEF Served, Guarded, A!locks
  <2> QED BY <1>e, <2>1, <2>2 DEF AuthInv
<1>13. ASSUME NEW n \in Names, A!Forget(n) PROVE AuthInv'
  <2>1. attempts[n] - 1 \in 0..MaxAttempts
    BY <1>13, <1>a, RequestsAssumption DEF A!Forget, StoreTypes
  <2>2. StoreTypes'
    BY <1>13, <1>a, <2>1 DEF A!Forget, StoreTypes
  <2> QED BY <1>13, <1>c, <1>e, <2>2 DEF A!Forget
<1>14. ASSUME NEW k \in 1..tokens, A!logout_handler(k) PROVE AuthInv'
  <2>1. SessionsMade'
    BY <1>14, <1>a DEF A!logout_handler, A!revoke_token, A!Without, SessionsMade
  <2> QED BY <1>14, <1>b, <1>e, <2>1 DEF A!logout_handler, A!revoke_token
<1>15. ASSUME NEW k \in 1..tokens, A!refresh_token(k) PROVE AuthInv'
  <2>0. k \in DOMAIN sessions /\ tokens \in Nat
    BY <1>15, <1>a DEF A!refresh_token, StoreTypes
  <2>1. StoreTypes'
    <3>1. tokens' \in 0..MaxTokens
      BY <1>15, <1>a, RequestsAssumption DEF A!refresh_token, StoreTypes
    <3> QED BY <1>15, <1>a, <3>1 DEF A!refresh_token, StoreTypes
  <2>2. SessionsMade'
    BY <1>15, <1>a, <2>0 DEF A!refresh_token, A!Without, SessionsMade
  <2> QED BY <1>15, <1>e, <2>1, <2>2 DEF A!refresh_token
<1>16. ASSUME NEW k \in 1..tokens, A!Expire(k) PROVE AuthInv'
  <2>1. SessionsMade'
    BY <1>16, <1>a DEF A!Expire, A!Valid, SessionsMade
  <2> QED BY <1>16, <1>b, <1>e, <2>1 DEF A!Expire
<1>17. ASSUME UNCHANGED A!vars PROVE AuthInv'
  BY <1>17, <1>b, <1>c, <1>e DEF A!vars
<1> QED BY <1>1, <1>2, <1>3, <1>4, <1>5, <1>6, <1>7, <1>8, <1>9, <1>10, <1>11, <1>12, <1>13, <1>14,
           <1>15, <1>16, <1>17 DEF A!Next, A!Step

\* Steps that leave the sessions alone, those of other than threads among them.
LEMMA StepFrame ==
  /\ \A t \in Threads : A!Step(t) /\ ~ A!ReadUser(t) => UNCHANGED <<sessions, tokens>>
  /\ \A t \in Threads, r \in A!Requests :
       A!login_handler(t, r) \/ A!register_handler(t, r) \/ A!register_user(t, r) => UNCHANGED <<sessions, tokens>>
  /\ \A n \in Names : A!Forget(n) => UNCHANGED <<sessions, tokens, serving, req, passwords>>
  /\ \A k : A!logout_handler(k) \/ A!refresh_token(k) \/ A!Expire(k) => UNCHANGED <<serving, req, passwords>>
<1>1. \A t \in Threads : A!Step(t) /\ ~ A!ReadUser(t) => UNCHANGED <<sessions, tokens>>
  BY DEF A!Step, A!CheckName, A!UsersBit, A!AddUser, A!PasswordsBit, A!AddPassword, A!Throttle, A!Verify,
         A!Find, A!LockSessions, A!Reset, A!WriterBit
<1>2. \A t \in Threads, r \in A!Requests :
        A!login_handler(t, r) \/ A!register_handler(t, r) \/ A!register_user(t, r) => UNCHANGED <<sessions, tokens>>
  BY DEF A!login_handler, A!register_handler, A!register_user, A!Start
<1>3. \A n \in Names : A!Forget(n) => UNCHANGED <<sessions, tokens, serving, req, passwords>>
  BY DEF A!Forget
<1>4. \A k : A!logout_handler(k) \/ A!refresh_token(k) \/ A!Expire(k) => UNCHANGED <<serving, req, passwords>>
  BY DEF A!logout_handler, A!revoke_token, A!refresh_token, A!Expire
<1> QED BY <1>1, <1>2, <1>3, <1>4

\* New tokens are tokens that never were one.
LEMMA DeadStep ==
  ASSUME AuthInv, [A!Next]_A!vars, NEW k \in 1..tokens, ~ A!Valid(k)
  PROVE  ~ A!Valid(k)'
<1>a. tokens \in Nat /\ DOMAIN sessions \subseteq 1..tokens
  BY DEF AuthInv, StoreTypes, SessionsMade
<1>b. k # tokens + 1
  BY <1>a
<1>1. ASSUME UNCHANGED sessions PROVE ~ A!Valid(k)'
  BY <1>1 DEF A!Valid
<1>2. ASSUME NEW t \in Threads, A!ReadUser(t) PROVE ~ A!Valid(k)'
  BY <1>2, <1>b DEF A!ReadUser, A!Valid
<1>3. ASSUME NEW j \in 1..tokens, A!logout_handler(j) PROVE ~ A!Valid(k)'
  BY <1>3 DEF A!logout_handler, A!revoke_token, A!Without, A!Valid
<1>4. ASSUME NEW j \in 1..tokens, A!refresh_token(j) PROVE ~ A!Valid(k)'
  BY <1>4, <1>b DEF A!refresh_token, A!Without, A!Valid
<1>5. ASSUME NEW j \in 1..tokens, A!Expire(j) PROVE ~ A!Valid(k)'
  BY <1>5 DEF A!Expire, A!Valid
<1> QED BY <1>1, <1>2, <1>3, <1>4, <1>5, StepFrame DEF A!Next, A!vars

\* A thread comes to add a user of a name by CheckName only.
LEMMA LateStep ==
  ASSUME AuthInv, [A!Next]_A!vars, NEW n \in Names, passwords[n] # None
  PROVE  A!Registering(n)' \subseteq A!Registering(n)
<1> SUFFICES ASSUME NEW u \in Threads, req'[u].op = "register", req'[u].name = n, serving'[u] # "check_name"
             PROVE  req[u] = req'[u] /\ serving[u] # "check_name"
  BY DEF A!Registering
<1>a. ThreadTypes /\ A!NoRequest.op = "none"
  BY DEF AuthInv, A!NoRequest
<1>1. ASSUME UNCHANGED <<serving, req>> PROVE req[u] = req'[u] /\ serving[u] # "check_name"
  BY <1>1
<1>b. ASSUME NEW t \in Threads, A!Return(t) PROVE u # t /\ req[u] = req'[u] /\ serving'[u] = serving[u]
  BY <1>b, <1>a DEF A!Return, A!Goto, ThreadTypes
<1>c. ASSUME NEW t \in Threads, NEW l, A!Goto(t, l) PROVE serving'[u] = IF u = t THEN l ELSE serving[u]
  BY <1>c, <1>a DEF A!Goto, ThreadTypes
<1>2. ASSUME NEW t \in Threads, A!CheckName(t) PROVE req[u] = req'[u] /\ serving[u] # "check_name"
  BY <1>2, <1>b, <1>c DEF A!CheckName
<1>3. ASSUME NEW t \in Threads, A!Step(t), ~ A!CheckName(t)
      PROVE  req[u] = req'[u] /\ serving[u] # "check_name"
  <2>1. serving[t] # "check_name"
    BY <1>3 DEF A!Step, A!UsersBit, A!AddUser, A!PasswordsBit, A!AddPassword, A!Throttle, A!Verify,
                A!Find, A!LockSessions, A!ReadUser, A!Reset, A!WriterBit
  <2>2. CASE A!Return(t)
    BY <1>b, <2>2
  <2>3. CASE UNCHANGED req /\ \E l : A!Goto(t, l)
    BY <1>c, <2>1, <2>3
  <2> QED BY <1>3, <2>2, <2>3 DEF A!Step, A!UsersBit, A!AddUser, A!PasswordsBit, A!AddPassword, A!Throttle,
                A!Verify, A!Find, A!LockSessions, A!ReadUser, A!Reset, A!WriterBit
<1>4. ASSUME NEW t \in Threads, NEW r \in A!Requests,
             A!login_handler(t, r) \/ A!register_handler(t, r) \/ A!register_user(t, r)
      PROVE  req[u] = req'[u] /\ serving[u] # "check_name"
  <2>1. u # t
    BY <1>4, <1>a DEF A!login_handler, A!register_handler, A!register_user, A!Start, A!Goto, ThreadTypes
  <2> QED BY <1>4, <1>a, <2>1 DEF A!login_handler, A!register_handler, A!register_user, A!Start, A!Goto, ThreadTypes
<1> QED BY <1>1, <1>2, <1>3, <1>4, StepFrame DEF A!Next, A!vars

\* A login that makes a session has its guard of passwords.
LEMMA StaleStep ==
  ASSUME AuthInv, [A!Next]_A!vars, NEW t \in Threads, tokens' > tokens, serving[t] = "read_user",
         serving'[t] # serving[t], req[t].op = "password"
  PROVE  passwords'[req[t].name] = req[t].secret
<1>1. passwords[req[t].name] = req[t].secret
  BY DEF AuthInv, Guarded
<1>2. tokens' # tokens
  BY DEF AuthInv, StoreTypes
<1>3. CASE \E u \in Threads : A!ReadUser(u)
  BY <1>1, <1>3 DEF A!ReadUser
<1> QED BY <1>2, <1>3, StepFrame DEF A!Next, A!vars

-----------------------------------------------------------------------------
(* The two together.                                                       *)

LEMMA Projections ==
  Spec => /\ B!Init /\ [][B!Next]_B!vars
          /\ A!Init /\ [][A!Next]_A!vars
<1>1. Init => B!Init /\ A!Init
  BY DEF Init
<1>2. [Next]_vars => [B!Next]_B!vars
  BY DEF Next, vars, breaker_vars, auth_vars, BreakerOnly, AuthOnly, B!vars, B!locks
<1>3. [Next]_vars => [A!Next]_A!vars
  BY DEF Next, vars, breaker_vars, auth_vars, BreakerOnly, AuthOnly, A!vars, A!locks
<1> QED BY <1>1, <1>2, <1>3, PTL DEF Spec

LEMMA InvariantsHold == Spec => []BreakerInv /\ []AuthInv
BY BreakerInit, BreakerStep, AuthInit, AuthStep, Projections, PTL

\* The failures counted never exceed the threshold by more than the callers,
\* who holds the mutex of state is who checks the timeout, and the clock and
\* the delays stay in their bounds (failover.rs:100, :136); a session belongs
\* to a user and has a token that was made, and no thread waits to write what it
\* reads itself (auth.rs:176, :306).
THEOREM RequestsTyped == Spec => [](B!TypeOK /\ A!TypeOK)
<1>1. BreakerInv => B!TypeOK
  <2> SUFFICES ASSUME BreakerInv PROVE B!TypeOK
    OBVIOUS
  <2> USE DEF BreakerInv
  <2>1. B!Cardinality(Threads) = Cardinality(Threads)
    BY DEF B!Cardinality, Cardinality
  <2>2. failures \in 0..(Threshold + Cardinality(Threads))
    BY ClosingFacts, RequestsAssumption DEF FailuresCounted, BreakerTypes
  <2>3. {t \in Threads : pc[t] \in {"allow_check", "failure_check"}} = {state_lock} \ {None}
    BY RequestsAssumption DEF LockHeld
  <2>4. last_lock \in Threads \cup {None}
    BY DEF LockHeld
  <2> QED BY <2>1, <2>2, <2>3, <2>4 DEF B!TypeOK, BreakerTypes, BreakerLabels
<1>2. AuthInv => A!TypeOK
  <2> SUFFICES ASSUME AuthInv PROVE A!TypeOK
    OBVIOUS
  <2>1. \A l \in A!Locks : \A t \in Threads : writer[l] = t => readers[l][t] = 0
    <3> SUFFICES ASSUME NEW l \in A!Locks, NEW t \in Threads, writer[l] = t PROVE readers[l][t] = 0
      OBVIOUS
    <3>1. ~ (readers[l][t] > 0)
      BY DEF AuthInv, Guarded, RegisterLabels
    <3>2. readers[l][t] \in Nat
      BY DEF AuthInv, ThreadTypes
    <3> QED BY <3>1, <3>2
  <2> QED BY <2>1 DEF A!TypeOK, AuthInv, StoreTypes, ThreadTypes, SessionsMade
<1> QED BY <1>1, <1>2, InvariantsHold, PTL

\* An open circuit lets no request through before its timeout, whatever the
\* other callers report, except by a subtraction that wraps around, for any
\* number of callers, threshold, timeout and delay (should_allow_request,
\* failover.rs:136).
THEOREM OpenStaysOpen == Spec => StaysOpen
<1>1. BreakerInv /\ [B!Next]_B!vars
        => [state = "Open" /\ state' = "HalfOpen"
              => opened + 2 * MaxLag >= Timeout \/ \E t \in Threads : B!Wraps(t)]_B!vars
  BY BreakerOpen
<1> QED BY <1>1, InvariantsHold, Projections, PTL DEF StaysOpen, B!StaysOpen

\* A token that stopped giving access never gives it again, however logins,
\* logouts and refreshes overlap (auth.rs:485).
THEOREM DeadTokens == Spec => DeadStaysDead
<1>1. AuthInv /\ [A!Next]_A!vars
        => [\A k \in 1..tokens : ~ A!Valid(k) => ~ A!Valid(k)']_A!vars
  BY DeadStep
<1> QED BY <1>1, InvariantsHold, Projections, PTL DEF DeadStaysDead, A!DeadStaysDead

\* A name that has a password is registered again only by those past the check
\* already, and a session is made with the password stored at that moment,
\* for any number of threads and names (auth.rs:176 and :306).
THEOREM PasswordsStayCurrent == Spec => PasswordsCurrent
<1>1. AuthInv /\ [A!Next]_A!vars
        => [\A n \in Names : passwords[n] # None => A!Registering(n)' \subseteq A!Registering(n)]_A!vars
  BY LateStep
<1>2. AuthInv /\ [A!Next]_A!vars
        => [\A t \in Threads : tokens' > tokens /\ serving[t] = "read_user" /\ serving'[t] # serving[t]
                               /\ req[t].op = "password"
              => passwords'[req[t].name] = req[t].secret]_A!vars
  BY StaleStep
<1> QED BY <1>1, <1>2, InvariantsHold, Projections, PTL
        DEF PasswordsCurrent, A!LateNameRefused, A!NoStalePassword
=============================================================================
