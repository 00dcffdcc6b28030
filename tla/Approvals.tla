----------------------------- MODULE Approvals -----------------------------
(***************************************************************************)
(* SecurityPolicyEngine (abi/src/security_rfc/policy.rs): requests for     *)
(* capabilities, decided by administrators.  A request checks the limit    *)
(* under one lock and is stored under a later one; an approval takes the   *)
(* request out of the pending map before it enters the approved list.      *)
(*                                                                         *)
(* Every capability type is assessed Medium or High, so nothing is         *)
(* approved automatically: apply_approval is never reached.                *)
(***************************************************************************)
EXTENDS Integers, Sequences, FiniteSets

CONSTANTS Threads, Plugins, Capabilities, MaxPending, Expiration, MaxIds, MaxNow, None

VARIABLES pending,  \* requests that wait, and the denied ones
          approved, \* records of the approved lists, in order
          pc,       \* what each thread is doing
          ids, now,
          decided   \* history: id -> the last decision that succeeded

vars == <<pending, approved, pc, ids, now, decided>>

Idle == [at |-> "idle"]

Init == /\ pending = {} /\ approved = <<>>
        /\ pc = [t \in Threads |-> Idle]
        /\ ids = 0 /\ now = 0 /\ decided = [i \in 1..MaxIds |-> None]

\* assess_risk
Risk(c) == IF c \in {"Filesystem", "Network", "Database"} THEN "Medium" ELSE "High"

AutoApproved(c) == Risk(c) \in {"Minimal", "Low"}

\* request_approval, up to the check of the limit ...
request_approval(t, p, c) ==
  /\ pc[t] = Idle /\ ids < MaxIds
  /\ Cardinality({a \in pending : a.plugin = p}) < MaxPending
  /\ ~AutoApproved(c)
  /\ ids' = ids + 1
  /\ pc' = [pc EXCEPT ![t] = [at |-> "store", new |-> [id |-> ids + 1, plugin |-> p, cap |-> c,
                               expires |-> now + Expiration, status |-> "Pending"]]]
  /\ UNCHANGED <<pending, approved, now, decided>>

\* ... and the insertion.
StorePending(t) == /\ pc[t].at = "store"
                   /\ pending' = pending \cup {pc[t].new}
                   /\ pc' = [pc EXCEPT ![t] = Idle]
                   /\ UNCHANGED <<approved, ids, now, decided>>

ApproveCopies(t, a) == /\ pc[t] = Idle
                       /\ pc' = [pc EXCEPT ![t] = [at |-> "grant", new |-> [a EXCEPT !.status = "Approved"]]]
                       /\ decided' = [decided EXCEPT ![a.id] = "approved"]
                       /\ UNCHANGED <<pending, approved, ids, now>>

\* approve takes any entry of the pending map, whatever its status ...
approve(t, a) == /\ pc[t] = Idle
                 /\ pending' = pending \ {a}
                 /\ pc' = [pc EXCEPT ![t] = [at |-> "grant", new |-> [a EXCEPT !.status = "Approved"]]]
                 /\ decided' = [decided EXCEPT ![a.id] = "approved"]
                 /\ UNCHANGED <<approved, ids, now>>

\* ... and then appends it to the plugin's list.
Grant(t) == /\ pc[t].at = "grant"
            /\ approved' = Append(approved, pc[t].new)
            /\ pc' = [pc EXCEPT ![t] = Idle]
            /\ UNCHANGED <<pending, ids, now, decided>>

deny(a) == /\ pending' = (pending \ {a}) \cup {[a EXCEPT !.status = "Denied"]}
           /\ decided' = [decided EXCEPT ![a.id] = "denied"]
           /\ UNCHANGED <<approved, pc, ids, now>>

revoke(i) == /\ approved' = [approved EXCEPT ![i].status = "Expired"]
             /\ decided' = [decided EXCEPT ![approved[i].id] = "revoked"]
             /\ UNCHANGED <<pending, pc, ids, now>>

\* cleanup_expired: the pending map, then the approved lists.
CleanPending(t) == /\ pc[t] = Idle
                   /\ pending' = {a \in pending : a.expires > now}
                   /\ pc' = [pc EXCEPT ![t] = [at |-> "clean", new |-> now]]
                   /\ UNCHANGED <<approved, ids, now, decided>>

CleanApproved(t) ==
  /\ pc[t].at = "clean"
  /\ approved' = [i \in DOMAIN approved |->
       IF approved[i].expires <= pc[t].new THEN [approved[i] EXCEPT !.status = "Expired"] ELSE approved[i]]
  /\ pc' = [pc EXCEPT ![t] = Idle]
  /\ UNCHANGED <<pending, ids, now, decided>>

is_capability_approved(p, c) ==
  \E i \in DOMAIN approved : /\ approved[i].plugin = p /\ approved[i].cap = c
                             /\ approved[i].status = "Approved"

Tick == now < MaxNow /\ now' = now + 1 /\ UNCHANGED <<pending, approved, pc, ids, decided>>

Next == \/ Tick
        \/ \E a \in pending : deny(a)
        \/ \E i \in DOMAIN approved : revoke(i)
        \/ \E t \in Threads :
             \/ \E p \in Plugins, c \in Capabilities : request_approval(t, p, c)
             \/ \E a \in pending : approve(t, a)
             \/ StorePending(t) \/ Grant(t) \/ CleanPending(t) \/ CleanApproved(t)

Spec == Init /\ [][Next]_vars

-----------------------------------------------------------------------------
\* A request is waiting, being granted or granted, never two of these, however
\* approvals, denials and clean-ups overlap; a capability in force is one whose
\* last decision was an approval; and only requests that overlap exceed the
\* limit of a plugin, by one each (request_approval, approve, revoke).
ApprovalsSound ==
  LET granting == {t \in Threads : pc[t].at = "grant"}
      waiting  == {a.id : a \in pending}
  IN
  /\ \A i \in DOMAIN approved :
       /\ approved[i].id \notin waiting
       /\ \A j \in DOMAIN approved : approved[i].id = approved[j].id => i = j
       /\ \A t \in granting : pc[t].new.id # approved[i].id
  /\ \A t \in granting : /\ pc[t].new.id \notin waiting
                         /\ \A u \in granting : pc[t].new.id = pc[u].new.id => t = u
  /\ \A p \in Plugins, c \in Capabilities :
       is_capability_approved(p, c) =>
         \E i \in DOMAIN approved : decided[approved[i].id] = "approved"
                                    /\ approved[i].plugin = p /\ approved[i].cap = c
  /\ \A p \in Plugins :
       Cardinality({a \in pending : a.plugin = p}) <= MaxPending + Cardinality(Threads) - 1
=============================================================================
