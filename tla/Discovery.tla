----------------------------- MODULE Discovery ------------------------------
(***************************************************************************)
(* ServiceDiscovery of abi/src/service_discovery.rs: the services and two  *)
(* indices, by interface and by capability, behind three locks.  register, *)
(* unregister and clear change the services first and the indices after    *)
(* they dropped that lock: every lock is a step.                           *)
(***************************************************************************)
EXTENDS FiniteSets, Integers

CONSTANTS Callers,    \* threads
          Names,      \* of services
          Interfaces, Capabilities,
          Descriptors, \* that services are registered with: an interface, and how
                       \* often the vector of capabilities has each of them
          MaxEntries, \* bound: entries of one name in one list of an index
          None

VARIABLES
  services,          \* name -> descriptor, or None
  interface_index,   \* interface -> name -> how often its list has the name
  capability_index,  \* the same for a capability
  pc, target, desc,  \* of a caller: where it is, for which name (None: all), with which descriptor
  raced              \* history: names two operations were under way for at once

indices == <<interface_index, capability_index>>
vars    == <<services, indices, pc, target, desc, raced>>

NoDesc == [interface |-> None, capabilities |-> [k \in Capabilities |-> 0]]

TypeOK ==
  /\ services \in [Names -> Descriptors \cup {NoDesc}]
  /\ interface_index \in [Interfaces -> [Names -> 0..MaxEntries]]
  /\ capability_index \in [Capabilities -> [Names -> 0..MaxEntries]]
  /\ \A c \in Callers : pc[c] = "idle" <=> desc[c] = NoDesc /\ target[c] = None

Init ==
  /\ services = [n \in Names |-> NoDesc]
  /\ interface_index = [i \in Interfaces |-> [n \in Names |-> 0]]
  /\ capability_index = [i \in Capabilities |-> [n \in Names |-> 0]]
  /\ pc = [c \in Callers |-> "idle"]
  /\ target = [c \in Callers |-> None] /\ desc = [c \in Callers |-> NoDesc]
  /\ raced = {}

Registered(n) == services[n] # NoDesc
Busy(n) == \E c \in Callers : pc[c] # "idle" /\ target[c] \in {n, "all"}

\* An operation on the names N begins: its first lock, that of services.
Begin(c, l, n, N, d) ==
  /\ pc[c] = "idle"
  /\ pc' = [pc EXCEPT ![c] = l]
  /\ target' = [target EXCEPT ![c] = n] /\ desc' = [desc EXCEPT ![c] = d]
  /\ raced' = raced \cup {m \in N : Busy(m)}
  /\ UNCHANGED indices

Continue(c, l) == pc' = [pc EXCEPT ![c] = l] /\ UNCHANGED <<services, target, desc, raced>>
End(c) ==
  /\ pc' = [pc EXCEPT ![c] = "idle"]
  /\ target' = [target EXCEPT ![c] = None] /\ desc' = [desc EXCEPT ![c] = NoDesc]
  /\ UNCHANGED <<services, raced>>

-----------------------------------------------------------------------------
\* A second registration of a name is refused; an invalid version too, before.
register(c, n, d) ==
  /\ ~Registered(n)
  /\ services' = [services EXCEPT ![n] = d]
  /\ Begin(c, "add_interface", n, {n}, d)

AddInterface(c) ==
  /\ pc[c] = "add_interface"
  /\ interface_index[desc[c].interface][target[c]] < MaxEntries
  /\ interface_index' = [interface_index EXCEPT ![desc[c].interface][target[c]] = @ + 1]
  /\ Continue(c, "add_capability")
  /\ UNCHANGED capability_index

\* One entry for each time the descriptor names the capability, under one lock.
AddCapability(c) ==
  /\ pc[c] = "add_capability"
  /\ \A k \in Capabilities : capability_index[k][target[c]] + desc[c].capabilities[k] <= MaxEntries
  /\ capability_index' = [k \in Capabilities |->
       [capability_index[k] EXCEPT ![target[c]] = @ + desc[c].capabilities[k]]]
  /\ End(c)
  /\ UNCHANGED interface_index

unregister(c, n) ==
  /\ Registered(n)
  /\ services' = [services EXCEPT ![n] = NoDesc]
  /\ Begin(c, "drop_interface", n, {n}, services[n])

\* retain: every occurrence of the name goes, from the lists of the descriptor's
\* interface and capabilities only.
DropInterface(c) ==
  /\ pc[c] = "drop_interface"
  /\ interface_index' = [interface_index EXCEPT ![desc[c].interface][target[c]] = 0]
  /\ Continue(c, "drop_capability")
  /\ UNCHANGED capability_index

DropCapabilityForgotten(c) ==
  /\ pc[c] = "drop_capability"
  /\ End(c)
  /\ UNCHANGED indices

DropCapability(c) ==
  /\ pc[c] = "drop_capability"
  /\ capability_index' = [k \in Capabilities |->
       [capability_index[k] EXCEPT ![target[c]] = IF desc[c].capabilities[k] > 0 THEN 0 ELSE @]]
  /\ End(c)
  /\ UNCHANGED interface_index

clear(c) ==
  /\ services' = [n \in Names |-> NoDesc]
  /\ Begin(c, "clear", "all", Names, NoDesc)

\* The lock of the first index is held over the second.
ClearIndices(c) ==
  /\ pc[c] = "clear"
  /\ interface_index' = [i \in Interfaces |-> [n \in Names |-> 0]]
  /\ capability_index' = [i \in Capabilities |-> [n \in Names |-> 0]]
  /\ End(c)

Step(c) ==
  \/ AddInterface(c) \/ AddCapability(c) \/ DropInterface(c) \/ DropCapability(c) \/ ClearIndices(c)
Next ==
  \E c \in Callers :
    \/ Step(c) \/ clear(c)
    \/ \E n \in Names : unregister(c, n) \/ \E d \in Descriptors : register(c, n, d)

Spec == Init /\ [][Next]_vars

-----------------------------------------------------------------------------
\* discover by interface: the names of the list that are registered and match
\* (matches_filter looks at the descriptor again), as often as the list has them.
Discovered(i, n) ==
  IF Registered(n) /\ services[n].interface = i THEN interface_index[i][n] ELSE 0

\* discover by capability.
Capable(k, n) ==
  IF Registered(n) /\ services[n].capabilities[k] > 0 THEN capability_index[k][n] ELSE 0

(* Properties.                                                             *)

\* A name whose operations never overlapped and that none is under way for is
\* once in the list of its descriptor's interface, in the list of a capability as
\* often as its descriptor names that capability, and in no other, whatever
\* happens to other names: when it is registered it is discovered exactly so often.
Alone(n) == n \notin raced /\ ~Busy(n)
IndexExact ==
  \A n \in Names : Alone(n) =>
    /\ \A i \in Interfaces : interface_index[i][n] = IF services[n].interface = i THEN 1 ELSE 0
    /\ \A k \in Capabilities : capability_index[k][n] = services[n].capabilities[k]
    /\ Registered(n) => /\ Discovered(services[n].interface, n) = 1
                        /\ \A k \in Capabilities : Capable(k, n) = services[n].capabilities[k]

-----------------------------------------------------------------------------
(***************************************************************************)
(* ServiceCluster of abi/src/clustering.rs: every node keeps its own copy  *)
(* of the services and merges the lists it gets from others, with version  *)
(* vectors and last-write-wins.  The lists travel as messages that may be  *)
(* lost, delayed, duplicated and reordered.  One node also watches the     *)
(* heartbeats of the others.                                               *)
(*                                                                         *)
(* The caller of register_service gives the version vector: here, that of  *)
(* the entry it has, with the component of its own node increased.         *)
(***************************************************************************)

CONSTANTS Nodes, Services,
          MaxRegs,   \* bound: registrations at one node
          MaxTime,   \* bound: registered_at, as the caller's clock gives it
          Timeout,   \* health_check_timeout_secs
          MaxAge     \* bound: ages beyond it are all alike

VARIABLES
  registry,  \* node -> service -> its entry, or Absent
  regs,      \* node -> registrations made there
  lists,     \* messages: lists of services that nodes have sent
  status,    \* health_status of a node, or "Gone" when it was never added
  beat       \* seconds since the last_heartbeat of a node; -1: the node's clock is ahead

sync == <<registry, regs, lists>>
health == <<status, beat>>
cluster_vars == <<sync, health>>

Zero   == [m \in Nodes |-> 0]
Absent == [vector |-> Zero, at |-> 0]   \* registered_at is never 0
Present(e) == e # Absent

ClusterTypeOK ==
  /\ \A n \in Nodes, s \in Services :
       /\ registry[n][s].vector \in [Nodes -> 0..MaxRegs]
       /\ registry[n][s].at \in 0..MaxTime
       /\ \A m \in Nodes : registry[n][s].vector[m] <= regs[m]
  /\ status \in [Nodes -> {"Gone", "Unknown", "Healthy", "Unhealthy"}]

ClusterInit ==
  /\ registry = [n \in Nodes |-> [s \in Services |-> Absent]]
  /\ regs = Zero
  /\ lists = {}
  /\ status = [n \in Nodes |-> "Gone"] /\ beat = [n \in Nodes |-> 0]

-----------------------------------------------------------------------------
(* Version vectors.                                                        *)

\* version_vector_dominates: nowhere less, somewhere greater; a missing
\* component counts as 0.
Dominates(a, b) == (\A m \in Nodes : a[m] >= b[m]) /\ \E m \in Nodes : a[m] > b[m]

ConcurrentUnlessDominated(a, b) == ~Dominates(b, a) /\ a # b

\* detect_version_conflict_static.
Conflict(a, b) == ~Dominates(a, b) /\ ~Dominates(b, a) /\ a # b

EarlierWins(local, remote) == IF remote.at <= local.at THEN remote ELSE local

\* resolve_conflict_last_write_wins.
Resolved(local, remote) == IF remote.at >= local.at THEN remote ELSE local

\* sync_from_remote_services, for one service: a list without it changes nothing.
Merged(local, remote) ==
  IF ~Present(remote) THEN local
  ELSE IF ~Present(local) THEN remote
  ELSE IF Conflict(local.vector, remote.vector) THEN Resolved(local, remote)
  ELSE local

-----------------------------------------------------------------------------
register_service(n, s, time) ==
  /\ regs[n] < MaxRegs
  /\ regs' = [regs EXCEPT ![n] = @ + 1]
  /\ registry' = [registry EXCEPT ![n][s] =
       [vector |-> [@.vector EXCEPT ![n] = regs[n] + 1], at |-> time]]
  /\ UNCHANGED <<lists, health>>

deregister_service(n, s) ==
  /\ Present(registry[n][s])
  /\ registry' = [registry EXCEPT ![n][s] = Absent]
  /\ UNCHANGED <<regs, lists, health>>

\* A node sends what list_services gives; the message stays for ever, so it can
\* arrive late, more than once or never.
Send(n) ==
  /\ lists' = lists \cup {registry[n]}
  /\ UNCHANGED <<registry, regs, health>>

sync_from_remote_services(n, l) ==
  /\ l \in lists
  /\ registry' = [registry EXCEPT ![n] = [s \in Services |-> Merged(@[s], l[s])]]
  /\ UNCHANGED <<regs, lists, health>>

-----------------------------------------------------------------------------
(* Nodes and their health.                                                 *)

\* add_node replaces what was known of the node: a new one is Unknown, one that
\* update_heartbeat was called for is Healthy.
add_node(n, st, age) ==
  /\ status' = [status EXCEPT ![n] = st]
  /\ beat' = [beat EXCEPT ![n] = age]
  /\ UNCHANGED sync

\* is_timed_out: now - last_heartbeat on u64, so that a heartbeat from a clock
\* that is ahead wraps around (in a release build) and counts as very old.
TimedOut(b) == b < 0 \/ b > Timeout

health_check ==
  /\ status' = [n \in Nodes |-> IF status[n] # "Gone" /\ TimedOut(beat[n]) THEN "Unhealthy" ELSE status[n]]
  /\ UNCHANGED <<sync, beat>>

Tick ==
  /\ beat' = [n \in Nodes |-> IF beat[n] < MaxAge THEN beat[n] + 1 ELSE beat[n]]
  /\ UNCHANGED <<sync, status>>

Change ==
  \E n \in Nodes, s \in Services :
    deregister_service(n, s) \/ \E time \in 1..MaxTime : register_service(n, s, time)
Exchange == \E n \in Nodes : Send(n) \/ \E l \in lists : sync_from_remote_services(n, l)
Health == health_check \/ Tick \/ \E n \in Nodes, st \in {"Unknown", "Healthy"}, age \in {-1, 0} : add_node(n, st, age)
ClusterNext == Change \/ Exchange \/ Health

ClusterSpec == ClusterInit /\ [][ClusterNext]_cluster_vars

-----------------------------------------------------------------------------
(* Properties.                                                             *)

\* No message, however old or repeated, takes an entry back: what a merge puts in
\* the place of an entry is neither in its causal past nor registered earlier.
MergeForward ==
  [][\A n \in Nodes, s \in Services :
       LET old == registry[n][s]  new == registry'[n][s]
       IN  regs' = regs /\ Present(old) /\ Present(new) /\ new # old
             => ~Dominates(old.vector, new.vector) /\ new.at >= old.at]_cluster_vars

\* A node is given up only when its last heartbeat is older than the timeout, or
\* when its clock is ahead and the subtraction wraps (clustering.rs:88).
GivenUp ==
  [][\A n \in Nodes : status'[n] = "Unhealthy" /\ status[n] # "Unhealthy" => beat[n] > Timeout \/ beat[n] < 0]_cluster_vars

\* clustering.rs:8, "Eventual consistency with conflict resolution": registrations
\* are bounded, so nodes that keep exchanging their lists come to agree.
Converges == <>[](\A n, m \in Nodes : registry[n] = registry[m])
=============================================================================
