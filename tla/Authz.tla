------------------------------- MODULE Authz --------------------------------
(***************************************************************************)
(* PermissionChecker of permissions/src/authz.rs: roles, their assignment  *)
(* to users, and a cache of answers that live for ttl.  has_permission     *)
(* takes the locks one after the other and lets other threads in between.  *)
(* AuthzAuditLog, a bounded log behind a lock of its own, is here too.     *)
(*                                                                         *)
(* One permission is asked for; a role grants it or not                    *)
(* (Role::has_permission, Permission::matches: equal, or a wildcard, in    *)
(* each of the three parts).                                               *)
(***************************************************************************)
EXTENDS Naturals, Sequences, FiniteSets

CONSTANTS Askers,      \* threads in has_permission
          Users, Roles,
          Ttl,         \* of a cache entry
          MaxLag,      \* bound: time an asker spends between two locks
          MaxEvents,   \* max_events of the audit log
          MaxLogged    \* bound: events ever logged

VARIABLES
  grants,     \* the roles of the store that grant the permission
  assigned,   \* user -> role names
  cache,      \* user -> the cached answer, and its age
  pc, ask,    \* of an asker: where it is, for which user it asks
  names,      \* ... the role names it has read
  answer,     \* ... its answer, and for how long it has had the names
  was_granting, was_assigned,  \* history: how long ago a role did and did not grant
                               \* the permission, did and did not belong to a user
  events,     \* the audit log, numbers of events
  logged      \* events ever logged

checker  == <<grants, assigned, cache>>
asker    == <<pc, ask, names, answer>>
auditlog == <<events, logged>>
history  == <<was_granting, was_assigned>>
vars     == <<checker, asker, history, auditlog>>

Horizon == Ttl + 2 * MaxLag + 1   \* longer ago is all the same
NoEntry    == [granted |-> FALSE, age |-> Horizon]
Capped(n) == IF n > Horizon THEN Horizon ELSE n

TypeOK ==
  /\ grants \subseteq Roles /\ assigned \in [Users -> SUBSET Roles]
  /\ cache \in [Users -> [granted : BOOLEAN, age : 0..Horizon]]
  /\ pc \in [Askers -> {"idle", "compute", "roles", "store"}]
  /\ was_granting \in [Roles -> [BOOLEAN -> 0..Horizon]]
  /\ was_assigned \in [Users \X Roles -> [BOOLEAN -> 0..Horizon]]
  /\ Len(events) <= MaxEvents

Init ==
  /\ grants = Roles
  /\ assigned = [u \in Users |-> {}]
  /\ cache = [u \in Users |-> NoEntry]
  /\ pc = [t \in Askers |-> "idle"]
  /\ ask \in [Askers -> Users]
  /\ names = [t \in Askers |-> {}]
  /\ answer = [t \in Askers |-> [granted |-> FALSE, age |-> 0]]
  /\ was_granting = [r \in Roles |-> [b \in BOOLEAN |-> IF b = (r \in grants) THEN 0 ELSE Horizon]]
  /\ was_assigned = [x \in Users \X Roles |-> [b \in BOOLEAN |-> IF b THEN Horizon ELSE 0]]
  /\ events = <<>> /\ logged = 0

\* Role::has_permission of any of the roles R.
Granted(R, g) == R \cap g # {}

\* What compute_permission finds in one atomic look.
Right(g, a, u) == Granted(a[u], g)

Goto(t, l) == pc' = [pc EXCEPT ![t] = l]

\* The history after the roles that grant became g and the assignments a, and
\* after d more units of time.
Recorded(g, a, d) ==
  /\ was_granting' = [r \in Roles |-> [b \in BOOLEAN |->
       IF b = (r \in g) THEN 0 ELSE Capped(was_granting[r][b] + d)]]
  /\ was_assigned' = [x \in Users \X Roles |-> [b \in BOOLEAN |->
       IF b = (x[2] \in a[x[1]]) THEN 0 ELSE Capped(was_assigned[x][b] + d)]]

-----------------------------------------------------------------------------
(* Changes.                                                                *)

\* register_role replaces a role of that name and leaves the cache alone.
register_role(r) ==
  /\ \E g \in {grants \cup {r}, grants \ {r}} : grants' = g /\ Recorded(g, assigned, 0)
  /\ UNCHANGED <<assigned, cache, asker, auditlog>>

\* Both locks are held: the assignment and the invalidation are one step.
assign_roles(u, R) ==
  /\ assigned' = [assigned EXCEPT ![u] = R]
  /\ cache' = [cache EXCEPT ![u] = NoEntry]
  /\ Recorded(grants, assigned', 0)
  /\ UNCHANGED <<grants, asker, auditlog>>

\* invalidate_cache of some users; invalidate_all of all.
invalidate(U) ==
  /\ cache' = [u \in Users |-> IF u \in U THEN NoEntry ELSE cache[u]]
  /\ UNCHANGED <<grants, assigned, asker, history, auditlog>>

-----------------------------------------------------------------------------
(* has_permission; any and all of several permissions repeat it.           *)

HitOffByOne(u) == cache[u].age <= Ttl + 1

\* PermissionCache::get: an entry is used while its age is not above ttl.
Hit(u) == cache[u].age <= Ttl

\* A hit answers at once: a step of Served, no change.
Ask(t, u) ==
  /\ pc[t] = "idle" /\ ~Hit(u)
  /\ ask' = [ask EXCEPT ![t] = u]
  /\ Goto(t, "compute")
  /\ UNCHANGED <<checker, names, answer, history, auditlog>>

\* get_user_roles: the names under one lock ...
ReadNames(t) ==
  /\ pc[t] = "compute"
  /\ names' = [names EXCEPT ![t] = assigned[ask[t]]]
  /\ answer' = [answer EXCEPT ![t].age = 0]
  /\ Goto(t, "roles")
  /\ UNCHANGED <<checker, ask, history, auditlog>>

\* ... and the roles under another.
ReadRoles(t) ==
  /\ pc[t] = "roles"
  /\ answer' = [answer EXCEPT ![t].granted = Granted(names[t], grants)]
  /\ Goto(t, "store")
  /\ UNCHANGED <<checker, ask, names, history, auditlog>>

Store(t) ==
  /\ pc[t] = "store"
  /\ cache' = [cache EXCEPT ![ask[t]] = [granted |-> answer[t].granted, age |-> 0]]
  /\ answer' = [answer EXCEPT ![t] = [granted |-> FALSE, age |-> 0]]
  /\ names' = [names EXCEPT ![t] = {}]
  /\ Goto(t, "idle")
  /\ UNCHANGED <<grants, assigned, ask, history, auditlog>>

-----------------------------------------------------------------------------
(* AuthzAuditLog::log.                                                     *)

log ==
  /\ logged < MaxLogged /\ logged' = logged + 1
  /\ events' = Append(IF Len(events) >= MaxEvents THEN Tail(events) ELSE events, logged + 1)
  /\ UNCHANGED <<checker, asker, history>>

-----------------------------------------------------------------------------
\* Time passes; no asker lingers longer than MaxLag.
Tick ==
  /\ \A t \in Askers : pc[t] \in {"roles", "store"} => answer[t].age < MaxLag
  /\ cache' = [u \in Users |-> [cache[u] EXCEPT !.age = Capped(@ + 1)]]
  /\ answer' = [t \in Askers |-> IF pc[t] \in {"roles", "store"} THEN [answer[t] EXCEPT !.age = @ + 1] ELSE answer[t]]
  /\ Recorded(grants, assigned, 1)
  /\ UNCHANGED <<grants, assigned, pc, ask, names, auditlog>>

Change ==
  \/ \E r \in Roles : register_role(r)
  \/ \E u \in Users, R \in SUBSET Roles : assign_roles(u, R)
  \/ \E U \in SUBSET Users : invalidate(U)
Check == \E t \in Askers : ReadNames(t) \/ ReadRoles(t) \/ Store(t) \/ \E u \in Users : Ask(t, u)
Next == Change \/ Check \/ log \/ Tick

Spec == Init /\ [][Next]_vars

-----------------------------------------------------------------------------
(* Properties.                                                             *)

\* An answer from the cache follows from assignments and roles that were each
\* in effect at some moment in the last Ttl, plus the time the thread that
\* computed it took to store it: this bounds for how long a permission that was taken
\* away can still be granted, whatever changes overlap has_permission.  The
\* moments may differ: get_user_roles reads the names and the roles under two
\* locks, and its answer need never have been right.
Lately(f) == [b \in BOOLEAN |-> f[b] <= Ttl + MaxLag]
BoundedStaleness ==
  \A u \in Users : Hit(u) =>
    IF cache[u].granted
    THEN \E r \in Roles : Lately(was_granting[r])[TRUE] /\ Lately(was_assigned[<<u, r>>])[TRUE]
    ELSE \A r \in Roles : Lately(was_granting[r])[FALSE] \/ Lately(was_assigned[<<u, r>>])[FALSE]

=============================================================================
