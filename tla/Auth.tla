-------------------------------- MODULE Auth --------------------------------
(***************************************************************************)
(* LocalAuthProvider of permissions/src/auth.rs behind the HTTP handlers   *)
(* of permissions/src/http.rs: users, passwords and sessions, each behind  *)
(* a parking_lot RwLock of its own, and a rate limiter.  A thread       *)
(* serves one request at a time.                                           *)
(*                                                                         *)
(* A parking_lot writer first takes the writer bit, which turns new        *)
(* readers away, and then waits for the readers inside to leave: a read    *)
(* lock taken twice by one thread can so wait for a writer that waits for  *)
(* that thread.                                                            *)
(***************************************************************************)
EXTENDS Naturals, FiniteSets

CONSTANTS Threads,     \* that serve requests
          Names,       \* usernames and keys of users
          Secrets,     \* passwords
          MaxAttempts, \* of the rate limiter
          MaxUsers, MaxTokens,  \* bounds: user ids and tokens ever made
          None

VARIABLES
  users,      \* user id -> the name in its age key
  passwords,  \* username -> the password last hashed, or None
  sessions,   \* token -> the user id and whether it has expired
  attempts,   \* attempts of a name inside the window
  writer,     \* lock -> the thread that has its writer bit
  readers,    \* lock -> thread -> read guards it holds
  pc, req,    \* of a thread: where it is, the request it serves
  found,      \* the user authenticate has found
  tokens      \* tokens made

locks == <<writer, readers>>
vars  == <<users, passwords, sessions, attempts, locks, pc, req, found, tokens>>

Locks    == {"users", "passwords"}
Requests ==
  [op : {"register", "password"}, name : Names, secret : Secrets]
    \cup [op : {"add_user", "key"}, name : Names, secret : {None}]
NoRequest == [op |-> "none", name |-> None, secret |-> None]

TypeOK ==
  /\ \E n \in 0..MaxUsers : users \in [1..n -> Names]
  /\ passwords \in [Names -> Secrets \cup {None}]
  /\ DOMAIN sessions \subseteq 1..tokens /\ tokens \in 0..MaxTokens
  /\ \A k \in DOMAIN sessions : sessions[k].user \in DOMAIN users
  /\ attempts \in [Names -> 0..MaxAttempts]
  /\ writer \in [Locks \cup {"sessions"} -> Threads \cup {None}]
  /\ \A l \in Locks : \A t \in Threads : writer[l] = t => readers[l][t] = 0

Init ==
  /\ users = <<>> /\ sessions = <<>>
  /\ passwords = [n \in Names |-> None]
  /\ attempts = [i \in Names |-> 0]
  /\ writer = [l \in Locks \cup {"sessions"} |-> None]
  /\ readers = [l \in Locks |-> [t \in Threads |-> 0]]
  /\ pc = [t \in Threads |-> "idle"]
  /\ req = [t \in Threads |-> NoRequest]
  /\ found = [t \in Threads |-> None]
  /\ tokens = 0

\* SessionToken::new and Claims::new, for one ttl.
NewSession(u) == [user |-> u, expired |-> FALSE]

Goto(t, l) == pc' = [pc EXCEPT ![t] = l]
CanRead(l) == writer[l] = None
CanEnter(l) == \A t \in Threads : readers[l][t] = 0
Read(t, l) == [readers EXCEPT ![l][t] = @ + 1]

\* A handler returns: its guards are dropped, its locals forgotten.
Return(t) ==
  /\ Goto(t, "idle")
  /\ req' = [req EXCEPT ![t] = NoRequest]
  /\ found' = [found EXCEPT ![t] = None]
  /\ writer' = [l \in DOMAIN writer |-> IF writer[l] = t THEN None ELSE writer[l]]
  /\ readers' = [l \in Locks |-> [readers[l] EXCEPT ![t] = 0]]

\* AuthRateLimiter::check_rate_limit: attempts that left the window are gone,
\* see Forget.
Admitted(id) == attempts[id] < MaxAttempts

-----------------------------------------------------------------------------
(* The handlers, up to the provider.                                       *)

\* Which requests get this far: not those refused for their client's rate or
\* for a missing field.
Start(t, r, l) ==
  /\ pc[t] = "idle"
  /\ req' = [req EXCEPT ![t] = r]
  /\ Goto(t, l)
  /\ UNCHANGED <<users, passwords, sessions, attempts, locks, found, tokens>>

login_handler(t, r) == r.op \in {"password", "key"} /\ Start(t, r, "login")
register_handler(t, r) == r.op = "register" /\ Start(t, r, "check_name")

\* The host adds a user without a password.
register_user(t, r) == r.op = "add_user" /\ Start(t, r, "users_bit")

\* Attempts of id leave the window.
Forget(id) ==
  /\ attempts[id] > 0
  /\ attempts' = [attempts EXCEPT ![id] = @ - 1]
  /\ UNCHANGED <<users, passwords, sessions, locks, pc, req, found, tokens>>

-----------------------------------------------------------------------------
(* register_user_with_password and register_user.                          *)

CheckName(t) ==
  /\ pc[t] = "check_name" /\ CanRead("passwords")
  /\ IF passwords[req[t].name] # None THEN Return(t)
     ELSE Goto(t, "users_bit") /\ UNCHANGED <<req, found, locks>>
  /\ UNCHANGED <<users, passwords, sessions, attempts, tokens>>

WriterBit(t, at, l, next) ==
  /\ pc[t] = at /\ writer[l] = None
  /\ writer' = [writer EXCEPT ![l] = t]
  /\ Goto(t, next)
  /\ UNCHANGED <<users, passwords, sessions, attempts, readers, req, found, tokens>>

UsersBit(t) == WriterBit(t, "users_bit", "users", "add_user")
PasswordsBit(t) == WriterBit(t, "passwords_bit", "passwords", "add_password")

\* Every user gets an id of its own; the guard of users is kept.
AddUser(t) ==
  /\ pc[t] = "add_user" /\ CanEnter("users")
  /\ Cardinality(DOMAIN users) < MaxUsers
  /\ users' = [i \in 1..(Cardinality(DOMAIN users) + 1) |->
                 IF i \in DOMAIN users THEN users[i] ELSE req[t].name]
  /\ IF req[t].op = "register" THEN Goto(t, "passwords_bit") /\ UNCHANGED <<req, found, locks>>
     ELSE Return(t)
  /\ UNCHANGED <<passwords, sessions, attempts, tokens>>

AddPassword(t) ==
  /\ pc[t] = "add_password" /\ CanEnter("passwords")
  /\ passwords' = [passwords EXCEPT ![req[t].name] = req[t].secret]
  /\ Return(t)
  /\ UNCHANGED <<users, sessions, attempts, tokens>>

-----------------------------------------------------------------------------
(* authenticate.                                                           *)

\* The attempt of the name is counted before anything is looked at.
Throttle(t) ==
  /\ pc[t] = "login"
  /\ IF Admitted(req[t].name)
     THEN /\ attempts' = [attempts EXCEPT ![req[t].name] = @ + 1]
          /\ Goto(t, IF req[t].op = "password" THEN "verify" ELSE "find")
          /\ UNCHANGED <<req, found, locks>>
     ELSE Return(t) /\ UNCHANGED attempts
  /\ UNCHANGED <<users, passwords, sessions, tokens>>

VerifyDropsGuard(t) ==
  /\ pc[t] = "verify" /\ CanRead("passwords")
  /\ IF passwords[req[t].name] = req[t].secret
     THEN Goto(t, "find") /\ UNCHANGED <<req, found, locks>>
     ELSE Return(t)
  /\ UNCHANGED <<users, passwords, sessions, attempts, tokens>>

\* The guard of passwords is kept until the session exists.
Verify(t) ==
  /\ pc[t] = "verify" /\ CanRead("passwords")
  /\ IF passwords[req[t].name] = req[t].secret
     THEN /\ readers' = Read(t, "passwords") /\ Goto(t, "find")
          /\ UNCHANGED <<req, found, writer>>
     ELSE Return(t)
  /\ UNCHANGED <<users, passwords, sessions, attempts, tokens>>

\* values().find: any of the users with that key.  A key login may be refused
\* here, for its signature or its secret.  The guard of users is kept.
Find(t) ==
  /\ pc[t] = "find" /\ CanRead("users")
  /\ \/ \E u \in DOMAIN users :
          /\ users[u] = req[t].name
          /\ found' = [found EXCEPT ![t] = u]
          /\ readers' = Read(t, "users") /\ Goto(t, "lock_sessions")
          /\ UNCHANGED <<req, writer>>
     \/ /\ (\A u \in DOMAIN users : users[u] # req[t].name) \/ req[t].op = "key"
        /\ Return(t)
  /\ UNCHANGED <<users, passwords, sessions, attempts, tokens>>

\* create_session takes sessions first ...
LockSessions(t) == WriterBit(t, "lock_sessions", "sessions", "read_user")

ReadUserExclusive(t) ==
  /\ pc[t] = "read_user" /\ CanRead("users") /\ CanEnter("users")
  /\ UNCHANGED vars

\* ... and then users, a second time.  All guards are dropped when the session is in;
\* the attempts of the name are forgotten last, in reset.
ReadUser(t) ==
  /\ pc[t] = "read_user" /\ CanRead("users")
  /\ tokens < MaxTokens /\ tokens' = tokens + 1
  /\ sessions' = [k \in DOMAIN sessions \cup {tokens + 1} |->
                    IF k \in DOMAIN sessions THEN sessions[k]
                    ELSE NewSession(found[t])]
  /\ writer' = [writer EXCEPT !["sessions"] = None]
  /\ readers' = [l \in Locks |-> [readers[l] EXCEPT ![t] = 0]]
  /\ Goto(t, "reset")
  /\ UNCHANGED <<users, passwords, attempts, req, found>>

Reset(t) ==
  /\ pc[t] = "reset"
  /\ attempts' = [attempts EXCEPT ![req[t].name] = 0]
  /\ Return(t)
  /\ UNCHANGED <<users, passwords, sessions, tokens>>

-----------------------------------------------------------------------------
(* Sessions.  validate_token only reads.                                   *)

Without(k) == [j \in DOMAIN sessions \ {k} |-> sessions[j]]

Valid(k) == k \in DOMAIN sessions /\ ~sessions[k].expired

revoke_token(k) ==
  /\ writer["sessions"] = None
  /\ k \in 1..tokens
  /\ sessions' = Without(k)
  /\ UNCHANGED <<users, passwords, attempts, locks, pc, req, found, tokens>>

logout_handler(k) == revoke_token(k)

RefreshInPlace(k) ==
  /\ writer["sessions"] = None /\ k \in DOMAIN sessions
  /\ sessions' = [sessions EXCEPT ![k].expired = FALSE]
  /\ UNCHANGED <<users, passwords, attempts, locks, pc, req, found, tokens>>

\* The session moves to a new token, unless it has expired: then it goes.
refresh_token(k) ==
  /\ writer["sessions"] = None /\ k \in DOMAIN sessions
  /\ IF Valid(k)
     THEN /\ tokens < MaxTokens /\ tokens' = tokens + 1
          /\ sessions' = [j \in (DOMAIN sessions \ {k}) \cup {tokens + 1} |->
                            IF j \in DOMAIN sessions THEN sessions[j] ELSE sessions[k]]
     ELSE sessions' = Without(k) /\ UNCHANGED tokens
  /\ UNCHANGED <<users, passwords, attempts, locks, pc, req, found>>

\* The time of a session runs out.
Expire(k) ==
  /\ Valid(k)
  /\ sessions' = [sessions EXCEPT ![k].expired = TRUE]
  /\ UNCHANGED <<users, passwords, attempts, locks, pc, req, found, tokens>>

-----------------------------------------------------------------------------
Step(t) ==
  \/ CheckName(t) \/ UsersBit(t) \/ AddUser(t) \/ PasswordsBit(t) \/ AddPassword(t)
  \/ Throttle(t) \/ Verify(t) \/ Find(t) \/ LockSessions(t) \/ ReadUser(t) \/ Reset(t)

Next ==
  \/ \E t \in Threads : Step(t) \/ \E r \in Requests :
       login_handler(t, r) \/ register_handler(t, r) \/ register_user(t, r)
  \/ \E n \in Names : Forget(n)
  \/ \E k \in 1..tokens : logout_handler(k) \/ refresh_token(k) \/ Expire(k)

\* Threads run on.  parking_lot's locks are eventually fair: one that waits for
\* a lock which is free again and again gets it.
Fairness == \A t \in Threads : SF_vars(Step(t))
Spec == Init /\ [][Next]_vars /\ Fairness

-----------------------------------------------------------------------------
(* Properties.                                                             *)

\* A registration that has the writer bit of users waits for a login that holds
\* it for reading and has to read it again, or for passwords, which a login
\* that waits for users holds.
LoginWaits(t) == pc[t] \in {"find", "lock_sessions", "read_user"}
Deadly ==
  \E w \in Threads :
    /\ writer["users"] = w
    /\ \E t \in Threads : LoginWaits(t) /\ \E l \in Locks : readers[l][t] > 0

\* The bounds of the model are reached: no id or token is left.
Exhausted == Cardinality(DOMAIN users) = MaxUsers \/ tokens = MaxTokens

\* Every request is answered, unless a registration meets a login that holds
\* passwords or users: logins do not block each other, nor do
\* registrations, however auth.rs orders its locks.
Answered == \A t \in Threads : pc[t] # "idle" ~> pc[t] = "idle" \/ Deadly \/ Exhausted

\* "Check for duplicate username before proceeding" (auth.rs:175) holds between
\* registrations that do not overlap: once a name has a password, only those that
\* are past the check already go on to add a user of that name.
Registering(n) == {t \in Threads : req[t].op = "register" /\ req[t].name = n /\ pc[t] \notin {"check_name"}}
LateNameRefused ==
  [][\A n \in Names : passwords[n] # None => Registering(n)' \subseteq Registering(n)]_vars

\* A token that has stopped giving access, by logout, by refresh or by age,
\* never gives it again.
DeadStaysDead == [][\A k \in 1..tokens : ~Valid(k) => ~Valid(k)']_vars

\* A password session is made with the password that is stored at that moment,
\* not one that a second registration has replaced since it was verified.
NoStalePassword ==
  [][\A t \in Threads : tokens' > tokens /\ pc[t] = "read_user" /\ pc'[t] # pc[t] /\ req[t].op = "password"
       => passwords'[req[t].name] = req[t].secret]_vars
=============================================================================
