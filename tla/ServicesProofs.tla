--------------------------- MODULE ServicesProofs ---------------------------
(***************************************************************************)
(* Proofs about the registries and services of the host, for every set of  *)
(* plugins, threads, names and nodes.  Each component is proved about by   *)
(* itself; the theorems, at the end, are about their composition in        *)
(* MCServices.                                                             *)
(***************************************************************************)
EXTENDS MCServices, FiniteSetTheorems, TLAPS

-----------------------------------------------------------------------------
(* HostServices: a plugin that cleaned up can be unloaded.                 *)

\* Everything on the bus is in the list of subscriptions or about to enter it, and
\* never both, so that unsubscribe takes off the bus what it takes off the list.
Listed == bus = subscriptions \cup subscribing /\ subscriptions \cap subscribing = {}

HostTypes ==
  /\ services \in [Services -> Plugins \cup {None}]
  /\ routes \in [Routes -> Plugins \cup {None}]
  /\ pointer \in [Publishers -> Plugins \cup {None}]
  /\ DOMAIN snapshot = Publishers

HostInv == HostTypes /\ Listed /\ H!CleanUnload

\* Each step of a subscription, a publication, a look-up, a registration and an
\* unload keeps the lists together and unloaded plugins unreachable.
LEMMA HostStep ==
  ASSUME None \notin Plugins, HostInv, [H!Next]_H!vars
  PROVE  HostInv'
<1> USE DEF HostInv, HostTypes, Listed, H!CleanUnload, H!Reachable
<1>1. ASSUME NEW p \in Plugins, NEW e \in Topics, H!BusSubscribe(p, e) PROVE HostInv'
  BY <1>1 DEF H!BusSubscribe
<1>2. ASSUME NEW s \in subscribing, H!ListSubscription(s) PROVE HostInv'
  BY <1>2 DEF H!ListSubscription
<1>3. ASSUME NEW e \in Topics, H!unsubscribe(e) PROVE HostInv'
  BY <1>3 DEF H!unsubscribe
<1>4. ASSUME NEW t \in Publishers, NEW e \in Topics, H!publish(t, e) PROVE HostInv'
  BY <1>4 DEF H!publish
<1>5. ASSUME NEW t \in Publishers, H!UsePointer(t) PROVE HostInv'
  BY <1>5 DEF H!UsePointer
<1>6. ASSUME NEW t \in Publishers, NEW s \in snapshot[t], H!Deliver(t, s) PROVE HostInv'
  BY <1>6 DEF H!Deliver
<1>7. ASSUME NEW t \in Publishers, NEW n \in Services, H!get(t, n) PROVE HostInv'
  BY <1>7 DEF H!get
<1>8. ASSUME NEW p \in Plugins, H!Unload(p) PROVE HostInv'
  BY <1>8 DEF H!Unload, H!Known
<1>9. ASSUME NEW p \in Plugins, NEW n \in Services, H!register(p, n) PROVE HostInv'
  BY <1>9 DEF H!register
<1>10. ASSUME NEW p \in Plugins, NEW r \in Routes, H!register_route(p, r) PROVE HostInv'
  BY <1>10 DEF H!register_route
<1>11. ASSUME NEW n \in Services, H!unregister(n) PROVE HostInv'
  BY <1>11 DEF H!unregister
<1>12. ASSUME NEW r \in Routes, H!unregister_route(r) PROVE HostInv'
  BY <1>12 DEF H!unregister_route
<1>13. CASE UNCHANGED H!vars
  BY <1>13 DEF H!vars
<1> QED
  BY <1>1, <1>2, <1>3, <1>4, <1>5, <1>6, <1>7, <1>8, <1>9, <1>10, <1>11, <1>12, <1>13 DEF H!Next

\* Whatever subscriptions, publications, look-ups and removals overlap, nothing
\* in the host leads into a plugin that was unloaded when it had removed what it
\* registered and nobody was calling it (unload_plugin, manager.rs:1984).
LEMMA UnloadSafe == None \notin Plugins => (H!Spec => []H!CleanUnload)
<1> SUFFICES ASSUME None \notin Plugins PROVE H!Spec => []H!CleanUnload
  OBVIOUS
<1>1. H!Init => HostInv
  BY DEF H!Init, HostInv, HostTypes, Listed, H!CleanUnload, H!Reachable
<1>2. HostInv /\ [H!Next]_H!vars => HostInv'
  BY HostStep
<1>3. HostInv => H!CleanUnload
  BY DEF HostInv
<1> QED BY <1>1, <1>2, <1>3, PTL DEF H!Spec

-----------------------------------------------------------------------------
(* KeyStore: an id belongs to one key for ever.                            *)

\* An id that was drawn is below the counter; an id being inserted was not
\* issued before and nobody else is inserting it.
DrawnOnce ==
  /\ \A k \in issued : k < key_counter
  /\ \A k \in K!Ids : keys[k] # None => k \in issued
  /\ \A t \in Threads : step[t] = "insert" =>
       /\ fresh[t] \in K!Ids /\ fresh[t] \notin issued /\ fresh[t] < key_counter
       /\ \A u \in Threads : u # t /\ step[u] = "insert" => fresh[u] # fresh[t]

KeyInv == K!TypeOK /\ DrawnOnce

\* Each step of generate_key, rotate_key and revoke_key keeps the ids apart.
LEMMA KeyStep ==
  ASSUME MaxKeys \in Nat, KeyInv, [K!Next]_K!vars
  PROVE  KeyInv'
<1> USE DEF KeyInv, K!TypeOK, DrawnOnce, K!Ids, K!Stored
<1>1. ASSUME NEW t \in Threads, K!generate_key(t) PROVE KeyInv'
  BY <1>1 DEF K!generate_key
<1>2. ASSUME NEW t \in Threads, NEW k \in K!Ids, K!rotate_key(t, k) PROVE KeyInv'
  BY <1>1, <1>2 DEF K!rotate_key
<1>3. ASSUME NEW t \in Threads, K!Draw(t) PROVE KeyInv'
  <2>1. key_counter \in 0..MaxKeys
    BY <1>3 DEF K!Draw
  <2> QED BY <1>3, <2>1 DEF K!Draw
<1>4. ASSUME NEW t \in Threads, K!Insert(t) PROVE KeyInv'
  BY <1>4 DEF K!Insert
<1>5. ASSUME NEW k \in K!Ids, K!revoke_key(k) PROVE KeyInv'
  BY <1>5 DEF K!revoke_key
<1>6. CASE UNCHANGED K!vars
  BY <1>6 DEF K!vars
<1> QED BY <1>1, <1>2, <1>3, <1>4, <1>5, <1>6 DEF K!Next

\* However many threads generate, rotate and revoke keys at once, the key behind
\* an id that was handed out never changes, and a revoked id has no key again
\* (generate_key_id, key_management.rs:255).
LEMMA KeysSafe == MaxKeys \in Nat => (K!Spec => K!KeyFixed)
<1> SUFFICES ASSUME MaxKeys \in Nat PROVE K!Spec => K!KeyFixed
  OBVIOUS
<1> DEFINE Fixed == \A k \in issued : keys'[k] = keys[k] \/ (keys'[k] = None /\ k \in revoked')
<1>1. K!Init => KeyInv
  BY DEF K!Init, KeyInv, K!TypeOK, DrawnOnce, K!Ids
<1>2. KeyInv /\ [K!Next]_K!vars => KeyInv'
  BY KeyStep
<1>3. KeyInv /\ [K!Next]_K!vars => [Fixed]_K!vars
  <2> SUFFICES ASSUME KeyInv, K!Next PROVE Fixed
    OBVIOUS
  <2> USE DEF KeyInv, K!TypeOK, DrawnOnce
  <2>1. ASSUME NEW t \in Threads, NEW k \in K!Ids, K!generate_key(t) \/ K!rotate_key(t, k) \/ K!Draw(t) PROVE Fixed
    BY <2>1 DEF K!generate_key, K!rotate_key, K!Draw
  <2>2. ASSUME NEW t \in Threads, K!Insert(t) PROVE Fixed
    BY <2>2 DEF K!Insert
  <2>3. ASSUME NEW k \in K!Ids, K!revoke_key(k) PROVE Fixed
    BY <2>3 DEF K!revoke_key
  <2>4. 0 \in K!Ids
    BY DEF K!Ids
  <2> QED BY <2>1, <2>2, <2>3, <2>4 DEF K!Next
<1>4. K!Spec => [][Fixed]_K!vars
  BY <1>1, <1>2, <1>3, PTL DEF K!Spec
<1> QED BY <1>4 DEF K!KeyFixed

-----------------------------------------------------------------------------
(* Discovery: services and their two indices.                              *)

\* No service and no interface is mistaken for a mark of the model; a descriptor
\* names an interface, and each capability some number of times.
DiscoveryAssumption ==
  /\ "all" \notin Names /\ None \notin Interfaces
  /\ \A d \in Descriptors : d.interface \in Interfaces /\ \A k \in Capabilities : d.capabilities[k] \in Nat

Adding   == {"add_interface", "add_capability"}
Dropping == {"drop_interface", "drop_capability"}

DiscoveryTypes ==
  /\ offers \in [Names -> Descriptors \cup {D!NoDesc}]
  /\ interface_index \in [Interfaces -> [Names -> Nat]]
  /\ capability_index \in [Capabilities -> [Names -> Nat]]
  /\ pc \in [Threads -> {"idle", "clear"} \cup Adding \cup Dropping]
  /\ DOMAIN target = Threads /\ DOMAIN desc = Threads
  /\ \A c \in Threads : /\ pc[c] = "clear" => target[c] = "all"
                        /\ pc[c] \in Adding \cup Dropping => target[c] \in Names /\ desc[c] \in Descriptors

\* Thread c is inside an operation on the name n.
On(c, n) == pc[c] # "idle" /\ target[c] \in {n, "all"}

\* The lists have the name n exactly as often as the descriptor d says.
InInterface(n, d)  == \A i \in Interfaces : interface_index[i][n] = IF d.interface = i THEN 1 ELSE 0
InCapability(n, d) == \A k \in Capabilities : capability_index[k][n] = d.capabilities[k]

\* How far the only operation on a name has come: which of the two lists it
\* has changed already.
Progress(c, n) ==
  /\ pc[c] \in Adding => offers[n] = desc[c] /\ InCapability(n, D!NoDesc)
  /\ pc[c] = "add_interface" => InInterface(n, D!NoDesc)
  /\ pc[c] = "add_capability" => InInterface(n, desc[c])
  /\ pc[c] \in Dropping \cup {"clear"} => offers[n] = D!NoDesc
  /\ pc[c] \in Dropping => InCapability(n, desc[c])
  /\ pc[c] = "drop_interface" => InInterface(n, desc[c])
  /\ pc[c] = "drop_capability" => InInterface(n, D!NoDesc)

Followed(n) ==
  /\ ~D!Busy(n) => InInterface(n, offers[n]) /\ InCapability(n, offers[n])
  /\ \A c \in Threads : On(c, n) =>
       Progress(c, n) /\ \A b \in Threads : b # c => ~On(b, n)

DiscoveryInv == DiscoveryTypes /\ \A n \in Names \ raced : Followed(n)

\* A descriptor names an interface, and capabilities some number of times; none, nothing.
LEMMA DescriptorFacts ==
  ASSUME DiscoveryAssumption
  PROVE  /\ \A d \in Descriptors : d.interface \in Interfaces /\ \A k \in Capabilities : d.capabilities[k] \in Nat
         /\ D!NoDesc.interface \notin Interfaces /\ \A k \in Capabilities : D!NoDesc.capabilities[k] = 0
         /\ D!NoDesc \notin Descriptors
<1>1. \A d \in Descriptors : d.interface \in Interfaces /\ \A k \in Capabilities : d.capabilities[k] \in Nat
  BY DEF DiscoveryAssumption
<1>2. D!NoDesc.interface \notin Interfaces /\ \A k \in Capabilities : D!NoDesc.capabilities[k] = 0
  BY DEF D!NoDesc, DiscoveryAssumption
<1> QED BY <1>1, <1>2

\* Each lock that register, unregister and clear take keeps the account.
LEMMA DiscoveryStep ==
  ASSUME DiscoveryAssumption, DiscoveryInv, [D!Next]_D!vars
  PROVE  DiscoveryInv'
<1> USE DEF DiscoveryAssumption, DiscoveryInv, DiscoveryTypes, Adding, Dropping, Followed, On, Progress, InInterface, InCapability, D!Busy, D!indices
<1>0. /\ \A d \in Descriptors : d.interface \in Interfaces /\ \A k \in Capabilities : d.capabilities[k] \in Nat
      /\ D!NoDesc.interface \notin Interfaces /\ \A k \in Capabilities : D!NoDesc.capabilities[k] = 0
      /\ D!NoDesc \notin Descriptors
  BY DescriptorFacts
<1>1. ASSUME NEW c \in Threads, NEW n \in Names, NEW d \in Descriptors, D!register(c, n, d) PROVE DiscoveryInv'
  <2>1. DiscoveryTypes'
    BY <1>1 DEF D!register, D!Begin, D!Registered
  <2>2. ASSUME NEW m \in Names \ raced', m # n PROVE Followed(m)'
    <3>1. m \notin raced /\ offers'[m] = offers[m] /\ \A b \in Threads : On(b, m)' <=> On(b, m)
      BY <1>1, <2>2 DEF D!register, D!Begin
    <3> QED BY <1>1, <2>2, <3>1 DEF D!register, D!Begin
  <2>3. ASSUME n \notin raced' PROVE Followed(n)'
    <3>1. n \notin raced /\ ~D!Busy(n)
      BY <1>1, <2>3 DEF D!register, D!Begin
    <3>2. InInterface(n, offers[n]) /\ InCapability(n, offers[n])
      BY <3>1
    <3>3. \A b \in Threads : On(b, n)' <=> b = c
      BY <1>1, <3>1 DEF D!register, D!Begin
    <3>4. Progress(c, n)'
      BY <1>1, <3>2 DEF D!register, D!Begin, D!Registered
    <3>5. D!Busy(n)'
      BY <3>3
    <3> HIDE DEF On, Progress, D!Busy, InInterface, InCapability
    <3> QED BY <3>3, <3>4, <3>5
  <2> HIDE DEF Followed, DiscoveryTypes
  <2> QED BY <2>1, <2>2, <2>3
<1>2. ASSUME NEW c \in Threads, NEW n \in Names, D!unregister(c, n) PROVE DiscoveryInv'
  <2>1. DiscoveryTypes'
    BY <1>2 DEF D!unregister, D!Begin, D!Registered
  <2>2. ASSUME NEW m \in Names \ raced', m # n PROVE Followed(m)'
    <3>1. m \notin raced /\ offers'[m] = offers[m] /\ \A b \in Threads : On(b, m)' <=> On(b, m)
      BY <1>2, <2>2 DEF D!unregister, D!Begin
    <3> QED BY <1>2, <3>1 DEF D!unregister, D!Begin
  <2>3. ASSUME n \notin raced' PROVE Followed(n)'
    <3>1. n \notin raced /\ ~D!Busy(n)
      BY <1>2, <2>3 DEF D!unregister, D!Begin
    <3>2. InInterface(n, offers[n]) /\ InCapability(n, offers[n])
      BY <3>1
    <3>3. \A b \in Threads : On(b, n)' <=> b = c
      BY <1>2, <3>1 DEF D!unregister, D!Begin
    <3>4. Progress(c, n)'
      BY <1>2, <3>2 DEF D!unregister, D!Begin, D!Registered
    <3>5. D!Busy(n)'
      BY <3>3
    <3> HIDE DEF On, Progress, D!Busy, InInterface, InCapability
    <3> QED BY <3>3, <3>4, <3>5
  <2> HIDE DEF Followed, DiscoveryTypes
  <2> QED BY <2>1, <2>2, <2>3
<1>3. ASSUME NEW c \in Threads, D!clear(c) PROVE DiscoveryInv'
  BY <1>0, <1>3 DEF D!clear, D!Begin
<1>4. ASSUME NEW c \in Threads, D!AddInterface(c) PROVE DiscoveryInv'
  BY <1>0, <1>4 DEF D!AddInterface, D!Continue
<1>5. ASSUME NEW c \in Threads, D!AddCapability(c) PROVE DiscoveryInv'
  <2>1. PICK n \in Names, d \in Descriptors : n = target[c] /\ d = desc[c] /\ pc[c] = "add_capability"
    BY <1>5 DEF D!AddCapability
  <2>2. \A k \in Capabilities, m \in Names :
          capability_index'[k][m] = IF m = n THEN capability_index[k][m] + d.capabilities[k] ELSE capability_index[k][m]
    BY <1>5, <2>1 DEF D!AddCapability
  <2>3. capability_index' \in [Capabilities -> [Names -> Nat]]
    BY <1>0, <1>5, <2>1 DEF D!AddCapability
  <2>4. /\ pc' = [pc EXCEPT ![c] = "idle"] /\ target' = [target EXCEPT ![c] = None] /\ desc' = [desc EXCEPT ![c] = D!NoDesc]
        /\ UNCHANGED <<offers, raced, interface_index>>
    BY <1>5 DEF D!AddCapability, D!End
  <2>5. DiscoveryTypes'
    BY <2>3, <2>4
  <2>6. ASSUME NEW m \in Names \ raced, m # n PROVE Followed(m)'
    <3>1. \A b \in Threads : On(b, m)' <=> On(b, m)
      BY <2>1, <2>4, <2>6
    <3> QED BY <2>2, <2>4, <2>6, <3>1
  <2>7. ASSUME n \notin raced PROVE Followed(n)'
    <3>1. Progress(c, n) /\ \A b \in Threads : b # c => ~On(b, n)
      BY <2>1, <2>7
    <3>2. \A b \in Threads : ~(pc'[b] # "idle" /\ target'[b] \in {n, "all"})
      BY <2>4, <3>1
    <3>3. offers[n] = d /\ InInterface(n, d) /\ InCapability(n, D!NoDesc)
      BY <2>1, <3>1
    <3>4. \A i \in Interfaces : interface_index'[i][n] = IF offers'[n].interface = i THEN 1 ELSE 0
      BY <2>4, <3>3
    <3>5. \A k \in Capabilities : capability_index'[k][n] = offers'[n].capabilities[k]
      BY <1>0, <2>1, <2>2, <2>4, <3>3
    <3> QED BY <3>2, <3>4, <3>5
  <2>8. \A m \in Names \ raced' : Followed(m)'
    <3> HIDE DEF Followed
    <3> QED BY <2>4, <2>6, <2>7
  <2> HIDE DEF Followed, DiscoveryTypes
  <2> QED BY <2>5, <2>8
<1>6. ASSUME NEW c \in Threads, D!DropInterface(c) PROVE DiscoveryInv'
  BY <1>0, <1>6 DEF D!DropInterface, D!Continue
<1>7. ASSUME NEW c \in Threads, D!DropCapability(c) PROVE DiscoveryInv'
  BY <1>0, <1>7 DEF D!DropCapability, D!End
<1>8. ASSUME NEW c \in Threads, D!ClearIndices(c) PROVE DiscoveryInv'
  BY <1>0, <1>8 DEF D!ClearIndices, D!End
<1>9. CASE UNCHANGED D!vars
  BY <1>9 DEF D!vars
<1> QED BY <1>1, <1>2, <1>3, <1>4, <1>5, <1>6, <1>7, <1>8, <1>9 DEF D!Next, D!Step

\* However many threads register, unregister and clear at once, a name whose own
\* operations never overlapped is in the list of its interface once, in that of a
\* capability as often as its descriptor names it, and in no other, and is
\* discovered exactly so often (register, service_discovery.rs:164).
LEMMA IndicesSafe == DiscoveryAssumption => (D!Spec => []D!IndexExact)
<1> SUFFICES ASSUME DiscoveryAssumption PROVE D!Spec => []D!IndexExact
  OBVIOUS
<1>1. D!Init => DiscoveryInv
  BY DescriptorFacts DEF D!Init, DiscoveryAssumption, DiscoveryInv, DiscoveryTypes, Adding, Dropping, Followed, On,
         InInterface, InCapability, D!Busy
<1>2. DiscoveryInv /\ [D!Next]_D!vars => DiscoveryInv'
  BY DiscoveryStep
<1>3. DiscoveryInv => D!IndexExact
  BY DescriptorFacts DEF DiscoveryInv, DiscoveryTypes, Followed, InInterface, InCapability, D!IndexExact, D!Alone, D!Registered,
         D!Discovered, D!Capable
<1> QED BY <1>1, <1>2, <1>3, PTL DEF D!Spec

-----------------------------------------------------------------------------
(* Clustering: merging of lists, and heartbeats.                           *)

\* Every copy of the registry has an entry for each service, in every list sent too.
ClusterTypes ==
  /\ registry \in [Nodes -> [Services -> [vector : [Nodes -> Nat], at : Nat]]]
  /\ lists \subseteq [Services -> [vector : [Nodes -> Nat], at : Nat]]
  /\ regs \in [Nodes -> Nat]
  /\ status \in [Nodes -> {"Gone", "Unknown", "Healthy", "Unhealthy"}] /\ beat \in [Nodes -> Int]

\* A merge keeps the shape of an entry.
LEMMA MergedType ==
  ASSUME NEW T, NEW local \in T, NEW remote \in T PROVE D!Merged(local, remote) \in T
  BY DEF D!Merged, D!Resolved

\* Each operation of a node, each message and each heartbeat is well typed.
LEMMA ClusterStep ==
  ASSUME MaxTime \in Nat, ClusterTypes, [D!ClusterNext]_D!cluster_vars
  PROVE  ClusterTypes'
<1> DEFINE Entries == [vector : [Nodes -> Nat], at : Nat]
<1> USE DEF ClusterTypes, D!health, D!sync
<1>1. ASSUME NEW n \in Nodes, NEW s \in Services, NEW time \in 1..MaxTime, D!register_service(n, s, time) PROVE ClusterTypes'
  BY <1>1 DEF D!register_service
<1>2. ASSUME NEW n \in Nodes, NEW s \in Services, D!deregister_service(n, s) PROVE ClusterTypes'
  BY <1>2 DEF D!deregister_service, D!Absent, D!Zero
<1>3. ASSUME NEW n \in Nodes, D!Send(n) PROVE ClusterTypes'
  BY <1>3 DEF D!Send
<1>4. ASSUME NEW n \in Nodes, NEW l \in lists, D!sync_from_remote_services(n, l) PROVE ClusterTypes'
  <2>1. \A s \in Services : D!Merged(registry[n][s], l[s]) \in Entries
    <3>1. \A s \in Services : registry[n][s] \in Entries /\ l[s] \in Entries
      OBVIOUS
    <3> HIDE DEF Entries, ClusterTypes
    <3> QED BY <3>1, MergedType
  <2> QED BY <1>4, <2>1 DEF D!sync_from_remote_services
<1>5. ASSUME NEW n \in Nodes, NEW st \in {"Unknown", "Healthy"}, NEW age \in {-1, 0}, D!add_node(n, st, age) PROVE ClusterTypes'
  BY <1>5 DEF D!add_node
<1>6. ASSUME D!health_check PROVE ClusterTypes'
  BY <1>6 DEF D!health_check
<1>7. ASSUME D!Tick PROVE ClusterTypes'
  BY <1>7 DEF D!Tick
<1>8. CASE UNCHANGED D!cluster_vars
  BY <1>8 DEF D!cluster_vars
<1> QED BY <1>1, <1>2, <1>3, <1>4, <1>5, <1>6, <1>7, <1>8 DEF D!ClusterNext, D!Change, D!Exchange, D!Health

\* No list of services, however late or repeated, takes an entry of a node back
\* behind what it was (sync_from_remote_services, clustering.rs:324), and
\* health_check gives a node up only after its timeout or when its clock is
\* ahead (is_timed_out, clustering.rs:83).
LEMMA MergesSafe == MaxTime \in Nat => (D!ClusterSpec => D!MergeForward /\ D!GivenUp)
<1> SUFFICES ASSUME MaxTime \in Nat PROVE D!ClusterSpec => D!MergeForward /\ D!GivenUp
  OBVIOUS
<1> DEFINE Forward ==
      \A n \in Nodes, s \in Services :
        LET old == registry[n][s]  new == registry'[n][s]
        IN  regs' = regs /\ D!Present(old) /\ D!Present(new) /\ new # old
              => ~D!Dominates(old.vector, new.vector) /\ new.at >= old.at
    Late == \A n \in Nodes : status'[n] = "Unhealthy" /\ status[n] # "Unhealthy" => beat[n] > Timeout \/ beat[n] < 0
<1>1. D!ClusterInit => ClusterTypes
  BY DEF D!ClusterInit, ClusterTypes, D!Absent, D!Zero
<1>2. ClusterTypes /\ [D!ClusterNext]_D!cluster_vars => ClusterTypes'
  BY ClusterStep
<1>3. ClusterTypes /\ [D!ClusterNext]_D!cluster_vars => [Forward]_D!cluster_vars
  <2> SUFFICES ASSUME ClusterTypes, D!ClusterNext PROVE Forward
    OBVIOUS
  <2>1. ASSUME NEW n \in Nodes, NEW s \in Services, NEW time \in 1..MaxTime, D!register_service(n, s, time) PROVE Forward
    <3>1. regs'[n] # regs[n]
      BY <2>1 DEF D!register_service, ClusterTypes
    <3> QED BY <3>1
  <2>2. ASSUME NEW n \in Nodes, NEW s \in Services, D!deregister_service(n, s) PROVE Forward
    BY <2>2 DEF D!deregister_service, D!Present, ClusterTypes
  <2>3. ASSUME NEW n \in Nodes, NEW l \in lists, D!sync_from_remote_services(n, l) PROVE Forward
    <3>1. ASSUME NEW m \in Nodes, NEW s \in Services
          PROVE  registry'[m][s] = registry[m][s] \/ registry'[m][s] = D!Merged(registry[m][s], l[s])
      BY <2>3 DEF D!sync_from_remote_services, ClusterTypes
    <3>2. ASSUME NEW local, NEW remote, D!Present(local), D!Merged(local, remote) # local
          PROVE  /\ ~D!Dominates(local.vector, D!Merged(local, remote).vector)
                 /\ D!Merged(local, remote).at >= local.at
      BY <3>2 DEF D!Merged, D!Resolved, D!Conflict
    <3> QED BY <3>1, <3>2
  <2>4. ASSUME UNCHANGED registry PROVE Forward
    BY <2>4
  <2> QED
    BY <2>1, <2>2, <2>3, <2>4 DEF D!ClusterNext, D!Change, D!Exchange, D!Health, D!Send, D!health_check, D!Tick,
       D!add_node, D!sync
<1>4. ClusterTypes /\ [D!ClusterNext]_D!cluster_vars => [Late]_D!cluster_vars
  <2> SUFFICES ASSUME ClusterTypes, D!ClusterNext PROVE Late
    OBVIOUS
  <2>1. ASSUME D!health_check PROVE Late
    BY <2>1 DEF D!health_check, D!TimedOut, ClusterTypes
  <2>2. ASSUME NEW n \in Nodes, NEW st \in {"Unknown", "Healthy"}, NEW age \in {-1, 0}, D!add_node(n, st, age) PROVE Late
    BY <2>2 DEF D!add_node, ClusterTypes
  <2>3. ASSUME UNCHANGED status PROVE Late
    BY <2>3
  <2> QED
    BY <2>1, <2>2, <2>3 DEF D!ClusterNext, D!Change, D!Exchange, D!Health, D!Send, D!Tick, D!register_service,
       D!deregister_service, D!sync_from_remote_services, D!health
<1>5. D!ClusterSpec => [][Forward]_D!cluster_vars /\ [][Late]_D!cluster_vars
  BY <1>1, <1>2, <1>3, <1>4, PTL DEF D!ClusterSpec
<1> QED BY <1>5 DEF D!MergeForward, D!GivenUp

-----------------------------------------------------------------------------
(* Resources: counters and the things they count.                          *)

\* A machine word holds the limit and one more unit for every thread.
ResourceAssumption ==
  /\ IsFiniteSet(Threads) /\ Threads # {}
  /\ Capacity \in Nat /\ PoolSize \in Nat /\ MaxSteps \in Nat /\ Word \in Nat
  /\ Capacity + Cardinality(Threads) <= Word
  /\ None \notin Addresses

\* The instance counts as FiniteSets does.
LEMMA CountedAsCardinality == \A T : R!Cardinality(T) = Cardinality(T)
  BY DEF Cardinality, R!Cardinality

Labels == {"idle", "charge", "enter", "lower", "remove", "clear", "count", "increment", "lock", "write", "mark", "return"}

\* One thread moves: it leaves one group of threads and joins another.
LEMMA Moved ==
  ASSUME ResourceAssumption, at \in [Threads -> Labels], NEW t \in Threads, NEW to \in Labels,
         at' = [at EXCEPT ![t] = to]
  PROVE  /\ at' \in [Threads -> Labels]
         /\ \A l \in Labels : R!At(l)' = R!At(l) + (IF l = to THEN 1 ELSE 0) - (IF l = at[t] THEN 1 ELSE 0)
<1>1. at' \in [Threads -> Labels]
  OBVIOUS
<1>2. ASSUME NEW l \in Labels
      PROVE  R!At(l)' = R!At(l) + (IF l = to THEN 1 ELSE 0) - (IF l = at[t] THEN 1 ELSE 0)
  <2> DEFINE S == {u \in Threads : at[u] = l}
             B == {u \in Threads \ {t} : at[u] = l}
  <2>1. IsFiniteSet(B) /\ Cardinality(B) \in Nat
    BY FS_Subset, FS_CardinalityType DEF ResourceAssumption
  <2>2. Cardinality(B \cup {t}) = Cardinality(B) + 1
    BY <2>1, FS_AddElement
  <2>3. S = IF l = at[t] THEN B \cup {t} ELSE B
    OBVIOUS
  <2>4. S' = IF l = to THEN B \cup {t} ELSE B
    OBVIOUS
  <2>5. R!At(l) = Cardinality(S) /\ R!At(l)' = Cardinality(S')
    BY CountedAsCardinality DEF R!At
  <2> HIDE DEF S, B
  <2> QED BY <2>1, <2>2, <2>3, <2>4, <2>5
<1> QED BY <1>1, <1>2

\* A group has no more threads than there are, one less when a thread is elsewhere.
LEMMA Bounded ==
  ASSUME ResourceAssumption, NEW f \in [Threads -> Labels], NEW l \in Labels
  PROVE  LET group == Cardinality({u \in Threads : f[u] = l})
         IN  /\ group \in Nat /\ group <= Cardinality(Threads)
             /\ \A t \in Threads : f[t] # l => group <= Cardinality(Threads) - 1
<1> DEFINE S == {u \in Threads : f[u] = l}
<1>1. IsFiniteSet(Threads) /\ S \subseteq Threads /\ Cardinality(Threads) \in Nat
  BY FS_CardinalityType DEF ResourceAssumption
<1>2. Cardinality(S) \in Nat /\ Cardinality(S) <= Cardinality(Threads)
  BY <1>1, FS_Subset, FS_CardinalityType
<1>3. ASSUME NEW t \in Threads, f[t] # l PROVE Cardinality(S) <= Cardinality(Threads) - 1
  <2>1. S \subseteq Threads \ {t}
    BY <1>3
  <2>2. IsFiniteSet(Threads \ {t}) /\ Cardinality(Threads \ {t}) = Cardinality(Threads) - 1
    BY <1>1, FS_RemoveElement
  <2> HIDE DEF S
  <2> QED BY <2>1, <2>2, FS_Subset
<1> QED BY <1>2, <1>3

\* Arithmetic modulo the word size, where it does not wrap and where it may.
LEMMA Modulo ==
  ASSUME NEW a \in Int, NEW w \in Nat, w > 0
  PROVE  a % w \in Nat /\ a % w < w /\ (a >= 0 /\ a < w => a % w = a)
  OBVIOUS

ResourceTypes ==
  /\ used \in Nat /\ live \subseteq Addresses /\ IsFiniteSet(live) /\ table \subseteq Addresses
  /\ mine \in [Threads -> Addresses \cup {None}] /\ reset_live \in BOOLEAN
  /\ idle \in Nat /\ in_use \in Int /\ out \in Nat /\ taken \in Nat
  /\ counted \in Nat /\ plugins \in Nat
  /\ init \in BOOLEAN /\ locked \in BOOLEAN /\ value \in BOOLEAN /\ initialized \in BOOLEAN /\ returned \in BOOLEAN
  /\ at \in [Threads -> Labels] /\ steps \in Nat

\* What the operations under way are about: an address that is entered is
\* allocated, by one thread; one that was not allocated again is freed by one
\* thread only, and gone.
Addressed ==
  /\ \A t \in Threads : mine[t] # None <=> at[t] \in {"enter", "lower", "remove"}
  /\ \A t \in Threads : at[t] = "enter" => mine[t] \in live
  /\ \A t, u \in Threads : at[t] = "enter" /\ at[u] = "enter" /\ mine[t] = mine[u] => t = u
  /\ \A t \in Threads : at[t] \in {"lower", "remove"} /\ mine[t] \notin reused =>
       /\ mine[t] \notin live
       /\ \A u \in Threads : at[u] \in {"lower", "remove"} /\ mine[u] = mine[t] => u = t

\* The arena: what is allocated or about to be given back is charged, and the
\* threads between the check and the charge count against the limit.
ArenaTrue ==
  /\ Addressed
  /\ ~reset_live =>
       /\ used = Cardinality(live) + R!At("lower")
       /\ used + R!At("charge") <= Capacity + Cardinality(Threads) - 1
       /\ R!TableTrue

PoolTrue == idle <= PoolSize /\ in_use + R!At("count") = out + taken

TrackerTrue == counted = plugins /\ counted + R!At("increment") <= Capacity + Cardinality(Threads) - 1

\* The initializer: it is taken under the lock, and the lock is given back only
\* with the value in place.
DelayedTrue ==
  /\ initialized => value
  /\ ~init /\ ~locked => value
  /\ \A t \in Threads : at[t] \in {"mark", "return"} => value
  /\ ~returned

ResourceInv == ResourceTypes /\ ArenaTrue /\ PoolTrue /\ TrackerTrue /\ DelayedTrue

\* What a step of one thread does to the groups that the invariant counts.
LEMMA Groups ==
  ASSUME ResourceAssumption, ResourceTypes, NEW t \in Threads, NEW to \in Labels, at' = [at EXCEPT ![t] = to]
  PROVE  /\ at' \in [Threads -> Labels]
         /\ \A l \in {"charge", "lower", "count", "increment"} :
              /\ R!At(l) \in Nat /\ R!At(l)' \in Nat
              /\ R!At(l)' = R!At(l) + (IF l = to THEN 1 ELSE 0) - (IF l = at[t] THEN 1 ELSE 0)
              /\ R!At(l)' <= Cardinality(Threads) /\ (l # to => R!At(l)' <= Cardinality(Threads) - 1)
         /\ Cardinality(Threads) \in Nat /\ Cardinality(Threads) >= 1
<1>1. at' \in [Threads -> Labels] /\ at'[t] = to
  BY DEF ResourceTypes
<1>2. \A l \in Labels : R!At(l)' = R!At(l) + (IF l = to THEN 1 ELSE 0) - (IF l = at[t] THEN 1 ELSE 0)
  BY Moved DEF ResourceTypes
<1>3. ASSUME NEW l \in Labels
      PROVE  /\ R!At(l) \in Nat /\ R!At(l)' \in Nat /\ R!At(l)' <= Cardinality(Threads)
             /\ l # to => R!At(l)' <= Cardinality(Threads) - 1
  <2>1. R!At(l) \in Nat
    BY Bounded, CountedAsCardinality DEF R!At, ResourceTypes
  <2>2. R!At(l)' \in Nat /\ R!At(l)' <= Cardinality(Threads) /\ (l # to => R!At(l)' <= Cardinality(Threads) - 1)
    BY <1>1, Bounded, CountedAsCardinality DEF R!At
  <2> QED BY <2>1, <2>2
<1>4. Cardinality(Threads) \in Nat /\ Cardinality(Threads) >= 1
  BY FS_EmptySet, FS_CardinalityType DEF ResourceAssumption
<1> QED BY <1>1, <1>2, <1>3, <1>4 DEF Labels

\* Sums modulo the word size that do not leave it.
LEMMA WordSums ==
  ASSUME ResourceAssumption
  PROVE  \A a \in Int : a % Word \in Nat /\ (a >= 0 /\ a < Word => a % Word = a)
<1>1. Word > 0
  BY FS_CardinalityType, FS_EmptySet DEF ResourceAssumption
<1> QED BY <1>1, Modulo DEF ResourceAssumption

\* A step that moves one thread and leaves the initializer alone, or leaves the
\* thread outside of what follows the value, preserves the initializer's part.
LEMMA DelayedFrame ==
  ASSUME ResourceInv, NEW t \in Threads, NEW to \in Labels \ {"mark", "return"}, at' = [at EXCEPT ![t] = to],
         UNCHANGED R!delayed
  PROVE  DelayedTrue'
  BY DEF ResourceInv, ResourceTypes, DelayedTrue, R!delayed

\* What a step leaves alone.
LEMMA AddressedFrame ==
  ASSUME ResourceInv, NEW t \in Threads, NEW to \in {"idle", "charge", "clear", "count", "increment", "lock", "write", "mark", "return"},
         at' = [at EXCEPT ![t] = to], at[t] \notin {"enter", "lower", "remove"}, UNCHANGED <<live, mine, reused>>
  PROVE  Addressed' /\ \A a \in Addresses : (R!Entering(a)' <=> R!Entering(a)) /\ (R!Freeing(a)' <=> R!Freeing(a))
<1>1. \A u \in Threads : \A l \in {"enter", "lower", "remove"} : at'[u] = l <=> at[u] = l
  BY DEF ResourceInv, ResourceTypes
<1>2. Addressed'
  BY <1>1 DEF ResourceInv, ArenaTrue, Addressed
<1> QED BY <1>1, <1>2 DEF R!Entering, R!Freeing

LEMMA ArenaFrame ==
  ASSUME ResourceInv, NEW t \in Threads, NEW to \in {"idle", "charge", "clear", "count", "increment", "lock", "write", "mark", "return"},
         at' = [at EXCEPT ![t] = to], at[t] \notin {"enter", "lower", "remove"}, UNCHANGED R!arena,
         R!At("charge")' = R!At("charge"), R!At("lower")' = R!At("lower")
  PROVE  ArenaTrue'
<1>1. UNCHANGED <<used, live, table, mine, reused, reset_live>>
  BY DEF R!arena
<1>2. Addressed' /\ \A a \in Addresses : (R!Entering(a)' <=> R!Entering(a)) /\ (R!Freeing(a)' <=> R!Freeing(a))
  BY <1>1, AddressedFrame
<1>3. R!TableTrue => R!TableTrue'
  BY <1>1, <1>2 DEF R!TableTrue
<1> QED BY <1>1, <1>2, <1>3 DEF ResourceInv, ArenaTrue

\* A step of the arena: allocation, deallocation or reset.
LEMMA ArenaStep ==
  ASSUME ResourceAssumption, ResourceInv, NEW t \in Threads, R!Arena(t)
  PROVE  ResourceInv'
<1> DEFINE L == {"idle", "charge", "enter", "lower", "remove", "clear"}
<1>1. PICK to \in L : at' = [at EXCEPT ![t] = to] /\ at[t] \in L /\ UNCHANGED <<R!pool, R!tracker, R!delayed>>
  BY DEF R!Arena, R!alloc, R!OutOfMemory, R!Charge, R!Enter, R!dealloc, R!Lower, R!Remove, R!reset, R!ClearTable, R!Begin, R!Go
<1>2. to \in Labels \ {"mark", "return"}
  BY DEF Labels
<1>3. /\ at' \in [Threads -> Labels] /\ at'[t] = to
      /\ \A l \in {"charge", "lower", "count", "increment"} :
           /\ R!At(l) \in Nat /\ R!At(l)' \in Nat
           /\ R!At(l)' = R!At(l) + (IF l = to THEN 1 ELSE 0) - (IF l = at[t] THEN 1 ELSE 0)
           /\ R!At(l)' <= Cardinality(Threads) /\ (l # to => R!At(l)' <= Cardinality(Threads) - 1)
      /\ Cardinality(Threads) \in Nat /\ Cardinality(Threads) >= 1
  BY <1>1, <1>2, Groups DEF ResourceInv, ResourceTypes
<1>4. PoolTrue' /\ TrackerTrue'
  BY <1>1, <1>3 DEF ResourceInv, PoolTrue, TrackerTrue, R!pool, R!tracker
<1>5. DelayedTrue'
  BY <1>1, <1>2, DelayedFrame
<1>6. ASSUME used' \in Nat, live' \subseteq Addresses, IsFiniteSet(live'), table' \subseteq Addresses,
             mine' \in [Threads -> Addresses \cup {None}], reset_live' \in BOOLEAN, steps' \in Nat, ArenaTrue'
      PROVE  ResourceInv'
  BY <1>1, <1>3, <1>4, <1>5, <1>6 DEF ResourceInv, ResourceTypes, R!pool, R!tracker, R!delayed
<1>7. /\ ResourceTypes /\ ArenaTrue /\ Addressed /\ Cardinality(live) \in Nat
      /\ Capacity \in Nat /\ MaxSteps \in Nat /\ Word \in Nat /\ Capacity + Cardinality(Threads) <= Word
      /\ None \notin Addresses
  BY FS_CardinalityType DEF ResourceInv, ResourceAssumption, ResourceTypes, ArenaTrue
<1>8. /\ used \in Nat /\ live \subseteq Addresses /\ IsFiniteSet(live) /\ table \subseteq Addresses
      /\ mine \in [Threads -> Addresses \cup {None}] /\ reset_live \in BOOLEAN /\ steps \in Nat
      /\ at \in [Threads -> Labels]
  BY <1>7 DEF ResourceTypes
<1> HIDE DEF L
<1> USE DEF R!Begin, R!Go
<1>9. CASE R!alloc(t) \/ R!OutOfMemory(t)
  <2>1. /\ to \in {"idle", "charge"} /\ at[t] \in {"idle", "charge"} /\ UNCHANGED R!arena /\ steps' \in Nat
        /\ to = "charge" => used + 1 <= Capacity
    BY <1>1, <1>3, <1>8, <1>9 DEF R!alloc, R!OutOfMemory
  <2>2. Addressed' /\ \A a \in Addresses : (R!Entering(a)' <=> R!Entering(a)) /\ (R!Freeing(a)' <=> R!Freeing(a))
    BY <1>1, <2>1, AddressedFrame DEF R!arena
  <2>3. R!TableTrue => R!TableTrue'
    BY <2>1, <2>2 DEF R!TableTrue, R!arena
  <2>4. R!At("lower")' = R!At("lower") /\ R!At("lower") \in Nat /\ Cardinality(live)' = Cardinality(live)
    BY <1>3, <2>1 DEF R!arena
  <2>5. ~reset_live => used + R!At("charge")' <= Capacity + Cardinality(Threads) - 1
    BY <1>3, <1>7, <1>8, <2>1 DEF ArenaTrue
  <2>6. ArenaTrue'
    BY <1>7, <2>1, <2>2, <2>3, <2>4, <2>5 DEF ArenaTrue, R!arena
  <2> QED BY <1>6, <1>8, <2>1, <2>6 DEF R!arena
<1>10. ASSUME NEW a \in Addresses, R!Charge(t, a) PROVE ResourceInv'
  <2>1. to = "enter" /\ at[t] = "charge" /\ a \notin live
    BY <1>1, <1>3, <1>10 DEF R!Charge
  <2>2. /\ used' = (used + 1) % Word /\ live' = live \cup {a} /\ mine' = [mine EXCEPT ![t] = a]
        /\ reused' = IF R!Freeing(a) THEN reused \cup {a} ELSE reused
        /\ UNCHANGED <<table, reset_live, steps>>
    BY <1>10 DEF R!Charge
  <2>3. IsFiniteSet(live') /\ Cardinality(live') = Cardinality(live) + 1
    BY <1>8, <2>1, <2>2, FS_AddElement
  <2>4. R!At("charge")' = R!At("charge") - 1 /\ R!At("lower")' = R!At("lower") /\ R!At("charge")' \in Nat /\ R!At("lower") \in Nat
    BY <1>3, <2>1
  <2>5. used' \in Nat /\ (~reset_live => used' = used + 1)
    <3>1. ~reset_live => used + 1 <= Word - 1
      BY <1>3, <1>7, <1>8, <2>4 DEF ArenaTrue
    <3> QED BY <1>7, <1>8, <2>2, <3>1, WordSums
  <2>6. \A u \in Threads : u # t => at'[u] = at[u] /\ mine'[u] = mine[u]
    BY <1>1, <1>8, <2>2
  <2>7. at'[t] = "enter" /\ mine'[t] = a
    BY <1>3, <1>8, <2>1, <2>2
  <2>8. Addressed'
    BY <1>7, <2>1, <2>2, <2>6, <2>7 DEF Addressed, R!Freeing
  <2>9. R!TableTrue => R!TableTrue'
    <3>1. \A b \in Addresses : /\ R!Freeing(b)' <=> R!Freeing(b)
                               /\ R!Entering(b)' <=> R!Entering(b) \/ b = a
      BY <2>1, <2>6, <2>7 DEF R!Freeing, R!Entering
    <3>2. ASSUME R!TableTrue, NEW b \in Addresses
          PROVE    /\ b \in table' => b \in live' \/ R!Freeing(b)'
                   /\ b \notin reused' => (b \in table' <=> (b \in live' /\ ~R!Entering(b)') \/ R!Freeing(b)')
      <4>1. /\ b \in table => b \in live \/ R!Freeing(b)
            /\ b \notin reused => (b \in table <=> (b \in live /\ ~R!Entering(b)) \/ R!Freeing(b))
        BY <3>2 DEF R!TableTrue
      <4> QED BY <2>1, <2>2, <3>1, <4>1
    <3> QED BY <3>2 DEF R!TableTrue
  <2>10. ArenaTrue'
    BY <1>3, <1>7, <1>8, <2>2, <2>3, <2>4, <2>5, <2>8, <2>9 DEF ArenaTrue
  <2>11. mine' \in [Threads -> Addresses \cup {None}]
    BY <1>8, <2>2
  <2> QED BY <1>6, <1>8, <2>2, <2>3, <2>5, <2>10, <2>11
<1>11. CASE R!Enter(t)
  <2>1. to = "idle" /\ at[t] = "enter"
    BY <1>1, <1>3, <1>11 DEF R!Enter
  <2>2. table' = table \cup {mine[t]} /\ mine' = [mine EXCEPT ![t] = None] /\ UNCHANGED <<used, live, reused, reset_live, steps>>
    BY <1>11 DEF R!Enter
  <2>3. mine[t] \in live
    BY <1>7, <2>1 DEF Addressed
  <2>4. R!At("charge")' = R!At("charge") /\ R!At("lower")' = R!At("lower")
    BY <1>3, <2>1
  <2>5. \A u \in Threads : u # t => at'[u] = at[u] /\ mine'[u] = mine[u]
    BY <1>1, <1>8, <2>2
  <2>6. at'[t] = "idle" /\ mine'[t] = None
    BY <1>3, <1>8, <2>1, <2>2
  <2>7. Addressed'
    BY <1>7, <2>2, <2>5, <2>6 DEF Addressed
  <2>8. R!TableTrue => R!TableTrue'
    <3>1. \A b \in Addresses : /\ R!Freeing(b)' <=> R!Freeing(b)
                               /\ R!Entering(b)' <=> R!Entering(b) /\ b # mine[t]
      BY <1>7, <2>1, <2>5, <2>6 DEF R!Freeing, R!Entering, Addressed
    <3>2. ASSUME R!TableTrue, NEW b \in Addresses
          PROVE    /\ b \in table' => b \in live' \/ R!Freeing(b)'
                   /\ b \notin reused' => (b \in table' <=> (b \in live' /\ ~R!Entering(b)') \/ R!Freeing(b)')
      <4>1. /\ b \in table => b \in live \/ R!Freeing(b)
            /\ b \notin reused => (b \in table <=> (b \in live /\ ~R!Entering(b)) \/ R!Freeing(b))
        BY <3>2 DEF R!TableTrue
      <4> QED BY <2>2, <2>3, <3>1, <4>1
    <3> QED BY <3>2 DEF R!TableTrue
  <2>9. ArenaTrue'
    BY <1>7, <2>2, <2>4, <2>7, <2>8 DEF ArenaTrue
  <2>10. mine' \in [Threads -> Addresses \cup {None}] /\ table' \subseteq Addresses
    BY <1>8, <2>2, <2>3
  <2> QED BY <1>6, <1>8, <2>2, <2>9, <2>10
<1>12. ASSUME NEW a \in Addresses, R!dealloc(t, a) PROVE ResourceInv'
  <2>1. to = "lower" /\ at[t] = "idle" /\ a \in live /\ ~R!Entering(a)
    BY <1>1, <1>3, <1>12 DEF R!dealloc
  <2>2. /\ live' = live \ {a} /\ mine' = [mine EXCEPT ![t] = a] /\ steps' = steps + 1
        /\ UNCHANGED <<used, table, reused, reset_live>>
    BY <1>12 DEF R!dealloc
  <2>3. IsFiniteSet(live') /\ Cardinality(live') = Cardinality(live) - 1
    BY <1>8, <2>1, <2>2, FS_RemoveElement
  <2>4. R!At("charge")' = R!At("charge") /\ R!At("lower")' = R!At("lower") + 1 /\ R!At("lower") \in Nat
    BY <1>3, <2>1
  <2>5. \A u \in Threads : u # t => at'[u] = at[u] /\ mine'[u] = mine[u]
    BY <1>1, <1>8, <2>2
  <2>6. at'[t] = "lower" /\ mine'[t] = a
    BY <1>3, <1>8, <2>1, <2>2
  <2>7. Addressed'
    BY <1>7, <2>1, <2>2, <2>5, <2>6 DEF Addressed, R!Entering
  <2>8. R!TableTrue => R!TableTrue'
    <3>1. \A b \in Addresses : /\ R!Freeing(b)' <=> R!Freeing(b) \/ b = a
                               /\ R!Entering(b)' <=> R!Entering(b)
      BY <2>1, <2>5, <2>6 DEF R!Freeing, R!Entering
    <3>2. ASSUME R!TableTrue, NEW b \in Addresses
          PROVE    /\ b \in table' => b \in live' \/ R!Freeing(b)'
                   /\ b \notin reused' => (b \in table' <=> (b \in live' /\ ~R!Entering(b)') \/ R!Freeing(b)')
      <4>1. /\ b \in table => b \in live \/ R!Freeing(b)
            /\ b \notin reused => (b \in table <=> (b \in live /\ ~R!Entering(b)) \/ R!Freeing(b))
        BY <3>2 DEF R!TableTrue
      <4> QED BY <2>1, <2>2, <3>1, <4>1
    <3> QED BY <3>2 DEF R!TableTrue
  <2>9. ArenaTrue'
    BY <1>7, <1>8, <2>2, <2>3, <2>4, <2>7, <2>8 DEF ArenaTrue
  <2>10. mine' \in [Threads -> Addresses \cup {None}] /\ live' \subseteq Addresses
    BY <1>8, <2>2
  <2> QED BY <1>6, <1>8, <2>2, <2>3, <2>9, <2>10
<1>13. CASE R!Lower(t)
  <2>1. to = "remove" /\ at[t] = "lower"
    BY <1>1, <1>3, <1>13 DEF R!Lower
  <2>2. used' = (used - 1) % Word /\ UNCHANGED <<live, table, mine, reused, reset_live, steps>>
    BY <1>13 DEF R!Lower
  <2>3. R!At("charge")' = R!At("charge") /\ R!At("lower")' = R!At("lower") - 1 /\ R!At("lower")' \in Nat /\ R!At("charge") \in Nat
    BY <1>3, <2>1
  <2>4. used' \in Nat /\ (~reset_live => used' = used - 1)
    <3>1. ~reset_live => used - 1 >= 0 /\ used - 1 < Word
      BY <1>3, <1>7, <1>8, <2>3 DEF ArenaTrue
    <3> QED BY <1>8, <2>2, <3>1, WordSums
  <2>5. \A u \in Threads : mine'[u] = mine[u] /\ (at'[u] \in {"lower", "remove"} <=> at[u] \in {"lower", "remove"})
                           /\ (at'[u] = "enter" <=> at[u] = "enter")
    BY <1>1, <1>8, <2>1, <2>2
  <2>6. Addressed'
    BY <1>7, <2>2, <2>5 DEF Addressed
  <2>7. R!TableTrue => R!TableTrue'
    <3>1. \A b \in Addresses : (R!Freeing(b)' <=> R!Freeing(b)) /\ (R!Entering(b)' <=> R!Entering(b))
      BY <2>5 DEF R!Freeing, R!Entering
    <3> QED BY <2>2, <3>1 DEF R!TableTrue
  <2>8. ArenaTrue'
    BY <1>3, <1>7, <1>8, <2>2, <2>3, <2>4, <2>6, <2>7 DEF ArenaTrue
  <2> QED BY <1>6, <1>8, <2>2, <2>4, <2>8
<1>14. CASE R!Remove(t)
  <2>1. to = "idle" /\ at[t] = "remove"
    BY <1>1, <1>3, <1>14 DEF R!Remove
  <2>2. table' = table \ {mine[t]} /\ mine' = [mine EXCEPT ![t] = None] /\ UNCHANGED <<used, live, reused, reset_live, steps>>
    BY <1>14 DEF R!Remove
  <2>3. R!At("charge")' = R!At("charge") /\ R!At("lower")' = R!At("lower")
    BY <1>3, <2>1
  <2>4. \A u \in Threads : u # t => at'[u] = at[u] /\ mine'[u] = mine[u]
    BY <1>1, <1>8, <2>2
  <2>5. at'[t] = "idle" /\ mine'[t] = None
    BY <1>3, <1>8, <2>1, <2>2
  <2>6. Addressed'
    BY <1>7, <2>2, <2>4, <2>5 DEF Addressed
  <2>7. R!TableTrue => R!TableTrue'
    <3>1. \A b \in Addresses : R!Entering(b)' <=> R!Entering(b)
      BY <2>1, <2>4, <2>5 DEF R!Entering
    <3>2. \A b \in Addresses : b # mine[t] => (R!Freeing(b)' <=> R!Freeing(b))
      BY <2>4, <2>5 DEF R!Freeing
    <3>3. \A b \in Addresses : b = mine[t] /\ b \notin reused => b \notin live /\ ~R!Freeing(b)'
      BY <1>7, <2>1, <2>4, <2>5 DEF Addressed, R!Freeing
    <3>4. ASSUME R!TableTrue, NEW b \in Addresses
          PROVE    /\ b \in table' => b \in live' \/ R!Freeing(b)'
                   /\ b \notin reused' => (b \in table' <=> (b \in live' /\ ~R!Entering(b)') \/ R!Freeing(b)')
      <4>1. /\ b \in table => b \in live \/ R!Freeing(b)
            /\ b \notin reused => (b \in table <=> (b \in live /\ ~R!Entering(b)) \/ R!Freeing(b))
        BY <3>4 DEF R!TableTrue
      <4> QED BY <2>2, <3>1, <3>2, <3>3, <4>1
    <3> QED BY <3>4 DEF R!TableTrue
  <2>8. ArenaTrue'
    BY <1>7, <2>2, <2>3, <2>6, <2>7 DEF ArenaTrue
  <2>9. mine' \in [Threads -> Addresses \cup {None}] /\ table' \subseteq Addresses
    BY <1>8, <2>2
  <2> QED BY <1>6, <1>8, <2>2, <2>8, <2>9
<1>15. CASE R!reset(t) \/ R!ClearTable(t)
  <2>1. to \in {"idle", "clear"} /\ at[t] \in {"idle", "clear"}
    BY <1>1, <1>3, <1>15 DEF R!reset, R!ClearTable
  <2>2. /\ reset_live' \in BOOLEAN /\ (~reset_live' => ~reset_live /\ ~R!Alive)
        /\ UNCHANGED <<live, mine, reused>> /\ steps' \in Nat
        /\ ((used' = 0 /\ table' = table) \/ (used' = used /\ table' = {}))
    <3>0. R!Alive \in BOOLEAN
      BY DEF R!Alive
    <3>1. CASE R!reset(t)
      BY <1>8, <3>0, <3>1 DEF R!reset
    <3>2. CASE R!ClearTable(t)
      BY <1>8, <3>2 DEF R!ClearTable
    <3> QED BY <1>15, <3>1, <3>2
  <2>3. Addressed' /\ \A a \in Addresses : (R!Entering(a)' <=> R!Entering(a)) /\ (R!Freeing(a)' <=> R!Freeing(a))
    BY <1>1, <2>1, <2>2, AddressedFrame
  <2>4. R!At("charge")' = R!At("charge") /\ R!At("lower")' = R!At("lower") /\ R!At("charge") \in Nat /\ R!At("lower") \in Nat
    BY <1>3, <2>1
  <2>5. ASSUME ~reset_live' PROVE used' = Cardinality(live') + R!At("lower")' /\ R!TableTrue' /\ used' + R!At("charge")' <= Capacity + Cardinality(Threads) - 1
    <3>1. /\ live = {} /\ R!TableTrue /\ \A u \in Threads : at[u] \notin {"charge", "enter", "lower", "remove"}
          /\ used = Cardinality(live) + R!At("lower") /\ used + R!At("charge") <= Capacity + Cardinality(Threads) - 1
      BY <1>7, <1>8, <2>2, <2>5 DEF R!Alive, Addressed, ArenaTrue
    <3>2. R!At("lower") = 0 /\ Cardinality(live) = 0
      BY <3>1, FS_EmptySet, CountedAsCardinality DEF R!At
    <3>3. \A a \in Addresses : ~R!Freeing(a) /\ ~R!Entering(a)
      BY <3>1 DEF R!Freeing, R!Entering
    <3>4. R!TableTrue'
      BY <2>2, <2>3, <3>1, <3>3 DEF R!TableTrue
    <3>5. live' = live /\ used = 0 /\ used' = 0
      BY <2>2, <3>1, <3>2
    <3> QED BY <2>4, <3>1, <3>2, <3>4, <3>5
  <2>6. ArenaTrue'
    BY <2>3, <2>5 DEF ArenaTrue
  <2> QED BY <1>6, <1>8, <2>2, <2>6
<1> QED BY <1>9, <1>10, <1>11, <1>12, <1>13, <1>14, <1>15 DEF R!Arena

\* A step of the pool or of the capacity tracker.
LEMMA PoolTrackerStep ==
  ASSUME ResourceAssumption, ResourceInv, NEW t \in Threads, R!Pool(t) \/ R!Tracker(t)
  PROVE  ResourceInv'
<1> DEFINE L == {"idle", "count", "increment"}
<1>1. PICK to \in L : at' = [at EXCEPT ![t] = to] /\ at[t] \in L /\ UNCHANGED <<R!arena, R!delayed>>
  BY DEF R!Pool, R!Tracker, R!get, R!Count, R!return_object, R!take, R!prefill, R!can_load_locally, R!increment, R!decrement, R!Begin, R!Go
<1>2. to \in Labels \ {"mark", "return"}
  BY DEF Labels
<1>3. /\ at' \in [Threads -> Labels] /\ at'[t] = to
      /\ \A l \in {"charge", "lower", "count", "increment"} :
           /\ R!At(l) \in Nat /\ R!At(l)' \in Nat
           /\ R!At(l)' = R!At(l) + (IF l = to THEN 1 ELSE 0) - (IF l = at[t] THEN 1 ELSE 0)
           /\ R!At(l)' <= Cardinality(Threads) /\ (l # to => R!At(l)' <= Cardinality(Threads) - 1)
      /\ Cardinality(Threads) \in Nat /\ Cardinality(Threads) >= 1
  BY <1>1, <1>2, Groups DEF ResourceInv, ResourceTypes
<1>4. ArenaTrue'
  <2>1. R!At("charge")' = R!At("charge") /\ R!At("lower")' = R!At("lower")
    BY <1>1, <1>3
  <2> QED BY <1>1, <2>1, ArenaFrame
<1>5. DelayedTrue'
  BY <1>1, <1>2, DelayedFrame
<1>6. ASSUME idle' \in Nat, in_use' \in Int, out' \in Nat, taken' \in Nat, counted' \in Nat, plugins' \in Nat,
             steps' \in Nat, PoolTrue', TrackerTrue'
      PROVE  ResourceInv'
  BY <1>1, <1>3, <1>4, <1>5, <1>6 DEF ResourceInv, ResourceTypes, R!arena, R!delayed
<1>7. /\ ResourceTypes /\ PoolTrue /\ TrackerTrue
      /\ Capacity \in Nat /\ PoolSize \in Nat /\ MaxSteps \in Nat /\ Word \in Nat
      /\ Capacity + Cardinality(Threads) <= Word
  BY DEF ResourceInv, ResourceAssumption
<1> HIDE DEF L
<1> USE DEF ResourceTypes, PoolTrue, TrackerTrue, R!pool, R!tracker, R!Begin, R!Go
<1>8. CASE R!get(t)
  <2>1. to = "count" /\ at[t] = "idle"
    BY <1>1, <1>3, <1>8 DEF R!get
  <2> QED BY <2>1, <1>3, <1>6, <1>7, <1>8 DEF R!get
<1>9. CASE R!Count(t)
  <2>1. to = "idle" /\ at[t] = "count"
    BY <1>1, <1>3, <1>9 DEF R!Count
  <2> QED BY <2>1, <1>3, <1>6, <1>7, <1>9 DEF R!Count
<1>10. CASE R!return_object(t) \/ R!take(t) \/ R!prefill(t)
  <2>1. to = "idle" /\ at[t] = "idle"
    BY <1>1, <1>3, <1>10 DEF R!return_object, R!take, R!prefill
  <2> QED BY <2>1, <1>3, <1>6, <1>7, <1>10 DEF R!return_object, R!take, R!prefill
<1>11. CASE R!can_load_locally(t)
  <2>1. to = "increment" /\ at[t] = "idle"
    BY <1>1, <1>3, <1>11 DEF R!can_load_locally
  <2> QED BY <2>1, <1>3, <1>6, <1>7, <1>11 DEF R!can_load_locally
<1>12. CASE R!increment(t)
  <2>1. to = "idle" /\ at[t] = "increment"
    BY <1>1, <1>3, <1>12 DEF R!increment
  <2> QED BY <2>1, <1>3, <1>6, <1>7, <1>12, WordSums DEF R!increment
<1>13. CASE R!decrement(t)
  <2>1. to = "idle" /\ at[t] = "idle"
    BY <1>1, <1>3, <1>13 DEF R!decrement
  <2>2. counted = plugins /\ counted - 1 \in Int /\ counted - 1 >= 0 /\ counted - 1 < Word
    BY <1>3, <1>7, <1>13 DEF R!decrement
  <2>3. (counted - 1) % Word = counted - 1
    BY <2>2, WordSums
  <2>4. counted' = counted - 1 /\ plugins' = plugins - 1 /\ steps' = steps + 1 /\ UNCHANGED R!pool
    BY <2>3, <1>13 DEF R!decrement
  <2> QED BY <2>1, <2>2, <2>4, <1>3, <1>6, <1>7
<1> QED BY <1>8, <1>9, <1>10, <1>11, <1>12, <1>13 DEF R!Pool, R!Tracker

\* A step of the initializer's get.
LEMMA DelayedStep ==
  ASSUME ResourceAssumption, ResourceInv, NEW t \in Threads, R!Delayed(t)
  PROVE  ResourceInv'
<1> DEFINE L == {"idle", "lock", "write", "mark", "return"}
<1>1. PICK to \in L : at' = [at EXCEPT ![t] = to] /\ at[t] \in L /\ UNCHANGED <<R!arena, R!pool, R!tracker>>
  BY DEF R!Delayed, R!GetReady, R!GetWait, R!Lock, R!WriteValue, R!Mark, R!ReturnValue, R!Return, R!Begin, R!Go
<1>2. /\ at' \in [Threads -> Labels] /\ at'[t] = to
      /\ \A l \in {"charge", "lower", "count", "increment"} : R!At(l)' = R!At(l)
  <2>1. to \in Labels
    BY DEF Labels
  <2>2. ASSUME NEW l \in {"charge", "lower", "count", "increment"} PROVE R!At(l)' = R!At(l)
    <3>1. /\ R!At(l) \in Nat
          /\ R!At(l)' = R!At(l) + (IF l = to THEN 1 ELSE 0) - (IF l = at[t] THEN 1 ELSE 0)
      BY <1>1, <2>1, Groups DEF ResourceInv
    <3>2. l # to /\ l # at[t]
      BY <1>1
    <3> HIDE DEF L
    <3> QED BY <3>1, <3>2
  <2> QED BY <1>1, <2>1, <2>2 DEF ResourceInv, ResourceTypes
<1>3. ArenaTrue' /\ PoolTrue' /\ TrackerTrue'
  <2>1. ArenaTrue'
    BY <1>1, <1>2, ArenaFrame
  <2> QED BY <1>1, <1>2, <2>1 DEF ResourceInv, PoolTrue, TrackerTrue, R!pool, R!tracker
<1>4. ResourceTypes'
  <2>1. steps' \in Nat
    BY DEF ResourceInv, ResourceTypes, R!Delayed, R!GetReady, R!GetWait, R!Lock, R!WriteValue, R!Mark, R!ReturnValue, R!Return, R!Begin, R!Go
  <2>2. /\ init' \in BOOLEAN /\ locked' \in BOOLEAN /\ value' \in BOOLEAN
        /\ initialized' \in BOOLEAN /\ returned' \in BOOLEAN
    BY DEF ResourceInv, ResourceTypes, R!delayed, R!Delayed, R!GetReady, R!GetWait, R!Lock, R!WriteValue, R!Mark, R!ReturnValue, R!Return
  <2> QED BY <1>1, <1>2, <2>1, <2>2 DEF ResourceInv, ResourceTypes, R!arena, R!pool, R!tracker
<1>5. DelayedTrue'
  <2> USE DEF ResourceInv, ResourceTypes, DelayedTrue, R!delayed, R!Begin, R!Go
  <2>1. CASE R!GetReady(t) \/ R!GetWait(t)
    BY <2>1 DEF R!GetReady, R!GetWait
  <2>2. CASE R!Lock(t)
    BY <2>2 DEF R!Lock
  <2>3. CASE R!WriteValue(t)
    BY <2>3 DEF R!WriteValue
  <2>4. CASE R!Mark(t)
    BY <2>4 DEF R!Mark
  <2>5. CASE R!ReturnValue(t)
    BY <2>5 DEF R!ReturnValue, R!Return
  <2> QED BY <2>1, <2>2, <2>3, <2>4, <2>5 DEF R!Delayed
<1> QED BY <1>3, <1>4, <1>5 DEF ResourceInv

\* The arena charges what is allocated and lists it, the pool counts what is
\* borrowed or taken, neither limit is passed by more than one unit for every
\* other caller, and DelayedInitializer::get never returns before the value is
\* there, for any number of threads, any limit and any pool size (memory/
\* arena.rs, memory/pool.rs, PluginCapacityTracker, startup.rs).
LEMMA CountersSafe == ResourceAssumption => (R!Spec => []R!CountersTrue)
<1> SUFFICES ASSUME ResourceAssumption PROVE R!Spec => []R!CountersTrue
  OBVIOUS
<1>1. R!Init => ResourceInv
  <2> SUFFICES ASSUME R!Init PROVE ResourceInv
    OBVIOUS
  <2>1. ResourceTypes
    <3>1. at \in [Threads -> Labels]
      BY DEF R!Init, Labels
    <3>2. /\ reset_live \in BOOLEAN /\ init \in BOOLEAN /\ locked \in BOOLEAN /\ value \in BOOLEAN
          /\ initialized \in BOOLEAN /\ returned \in BOOLEAN
      BY DEF R!Init
    <3>3. \A n \in {used, idle, in_use, out, taken, counted, plugins, steps} : n = 0
      BY DEF R!Init
    <3>4. live = {} /\ table = {} /\ IsFiniteSet(live) /\ mine \in [Threads -> Addresses \cup {None}]
      BY FS_EmptySet DEF R!Init
    <3> QED BY <3>1, <3>2, <3>3, <3>4 DEF ResourceTypes
  <2>2. \A l \in Labels \ {"idle"} : R!At(l) = 0
    BY FS_EmptySet, CountedAsCardinality DEF R!Init, R!At
  <2>3. Cardinality(Threads) \in Nat /\ Cardinality(Threads) >= 1
    BY FS_EmptySet, FS_CardinalityType DEF ResourceAssumption
  <2>4. ArenaTrue /\ PoolTrue /\ TrackerTrue
    <3>1. Addressed /\ R!TableTrue
      BY DEF R!Init, Addressed, R!TableTrue, R!Freeing, R!Entering
    <3>2. Cardinality(live) = 0
      BY FS_EmptySet DEF R!Init
    <3> QED BY <2>2, <2>3, <3>1, <3>2 DEF R!Init, ArenaTrue, PoolTrue, TrackerTrue, Labels, ResourceAssumption
  <2> QED BY <2>1, <2>4 DEF ResourceInv, DelayedTrue, R!Init
<1>2. ResourceInv /\ [R!Next]_R!vars => ResourceInv'
  <2>1. ASSUME ResourceInv, UNCHANGED R!vars PROVE ResourceInv'
    BY <2>1 DEF ResourceInv, ResourceTypes, ArenaTrue, Addressed, PoolTrue, TrackerTrue, DelayedTrue, R!TableTrue, R!Freeing, R!Entering,
                R!At, R!vars, R!arena, R!pool, R!tracker, R!delayed
  <2> QED BY <2>1, ArenaStep, PoolTrackerStep, DelayedStep DEF R!Next
<1>3. ResourceInv => R!CountersTrue
  <2> SUFFICES ASSUME ResourceInv PROVE R!CountersTrue
    OBVIOUS
  <2>1. R!At("charge") \in Nat /\ R!At("increment") \in Nat
    BY Bounded, CountedAsCardinality DEF R!At, Labels, ResourceInv, ResourceTypes
  <2>2. Cardinality(Threads) \in Nat
    BY FS_CardinalityType DEF ResourceAssumption
  <2> QED
    BY <2>1, <2>2, CountedAsCardinality DEF ResourceInv, ResourceTypes, ArenaTrue, PoolTrue, TrackerTrue, DelayedTrue, R!CountersTrue, ResourceAssumption
<1> QED BY <1>1, <1>2, <1>3, PTL DEF R!Spec

-----------------------------------------------------------------------------
(* ReloadWatch: changes of plugins and of configuration files.             *)

\* What a handler of a file change is doing.
Handling ==
  {W!Idle} \cup [at : {"find", "clock"}] \cup [at : {"record"}, plugin : Plugins] \cup [at : {"process"}, now : Nat]
    \cup [at : {"reload"}, queue : SUBSET Plugins]

WatchInv ==
  /\ task \in [Threads -> Handling] /\ watched \subseteq Plugins /\ owed \subseteq Plugins /\ now \in Nat
  /\ DOMAIN pending = Plugins
  /\ W!ChangeNotLost

\* Each lock that a handler takes, start, stop and the clock keep every recorded
\* change in the map or in a queue.
LEMMA WatchStep ==
  ASSUME None \notin Nat, WatchInv, [W!Next]_W!vars
  PROVE  WatchInv'
<1> DEFINE Queued(p) == \E t \in Threads : task[t].at = "reload" /\ p \in task[t].queue
<1>1. /\ task \in [Threads -> Handling] /\ watched \subseteq Plugins /\ owed \subseteq Plugins /\ now \in Nat
      /\ DOMAIN pending = Plugins
      /\ \A p \in owed : pending[p] # None \/ Queued(p)
  BY DEF WatchInv, W!ChangeNotLost
<1>2. ASSUME task' \in [Threads -> Handling], watched' \subseteq Plugins, owed' \subseteq Plugins, now' \in Nat,
             DOMAIN pending' = Plugins, \A p \in owed' : pending'[p] # None \/ Queued(p)'
      PROVE WatchInv'
  BY <1>2 DEF WatchInv, W!ChangeNotLost
<1>3. ASSUME UNCHANGED <<pending, task, owed>>, watched' \subseteq Plugins, now' \in Nat PROVE WatchInv'
  BY <1>1, <1>2, <1>3
<1>4. CASE UNCHANGED W!vars
  BY <1>1, <1>3, <1>4 DEF W!vars
<1>5. CASE W!start \/ W!Tick
  BY <1>1, <1>3, <1>5 DEF W!start, W!Tick
<1>6. ASSUME NEW p \in Plugins, W!watch_plugin(p) \/ W!unwatch_plugin(p) PROVE WatchInv'
  BY <1>1, <1>3, <1>6 DEF W!watch_plugin, W!unwatch_plugin
<1>7. CASE W!stop
  BY <1>1, <1>2, <1>7 DEF W!stop
\* A handler that has no queue and gets none.
<1>8. ASSUME NEW t \in Threads, NEW x \in Handling, task[t].at # "reload", task' = [task EXCEPT ![t] = x],
             UNCHANGED <<pending, owed, watched, now>>
      PROVE WatchInv'
  <2>1. task' \in [Threads -> Handling] /\ \A u \in Threads : u # t => task'[u] = task[u]
    BY <1>1, <1>8
  <2>2. \A p : Queued(p) => Queued(p)'
    BY <1>8, <2>1
  <2> QED BY <1>1, <1>2, <1>8, <2>1, <2>2
<1>9. ASSUME NEW t \in Threads, W!on_file_changed(t) PROVE WatchInv'
  <2>1. [at |-> "find"] \in Handling /\ task[t].at # "reload"
    BY <1>9 DEF W!on_file_changed, W!Idle, Handling
  <2> QED BY <1>8, <1>9, <2>1 DEF W!on_file_changed
<1>10. ASSUME NEW t \in Threads, W!FindPlugin(t) PROVE WatchInv'
  <2>1. W!Idle \in Handling /\ \A p \in watched : [at |-> "record", plugin |-> p] \in Handling
    BY <1>1 DEF Handling
  <2>2. \E x \in Handling : task' = [task EXCEPT ![t] = x]
    BY <1>10, <2>1 DEF W!FindPlugin
  <2> QED BY <1>8, <1>10, <2>2 DEF W!FindPlugin
<1>11. ASSUME NEW t \in Threads, W!record_pending_change(t) PROVE WatchInv'
  <2>1. task[t].plugin \in Plugins
    <3>1. task[t] \in Handling /\ task[t].at = "record"
      BY <1>1, <1>11 DEF W!record_pending_change
    <3> QED BY <3>1 DEF Handling, W!Idle
  <2>2. [at |-> "clock"] \in Handling
    BY DEF Handling
  <2> DEFINE q == task[t].plugin
  <2>3. /\ task[t].at = "record" /\ pending' = [pending EXCEPT ![q] = now] /\ task' = [task EXCEPT ![t] = [at |-> "clock"]]
        /\ owed' = owed \cup {q} /\ UNCHANGED <<watched, now>>
    BY <1>11 DEF W!record_pending_change
  <2> HIDE DEF q
  <2>4. task' \in [Threads -> Handling] /\ \A u \in Threads : u # t => task'[u] = task[u]
    BY <1>1, <2>2, <2>3
  <2>5. \A p : Queued(p) => Queued(p)'
    BY <2>3, <2>4
  <2>6. q \in Plugins /\ pending'[q] # None /\ \A p \in Plugins : p # q => pending'[p] = pending[p]
    BY <1>1, <2>1, <2>3 DEF q
  <2>7. \A p \in owed' : pending'[p] # None \/ Queued(p)'
    BY <1>1, <2>3, <2>5, <2>6
  <2> HIDE DEF Queued
  <2> QED BY <1>1, <1>2, <2>3, <2>4, <2>6, <2>7
<1>12. ASSUME NEW t \in Threads, W!ReadClock(t) PROVE WatchInv'
  <2>1. [at |-> "process", now |-> now] \in Handling
    BY <1>1 DEF Handling
  <2> QED BY <1>8, <1>12, <2>1 DEF W!ReadClock
<1>13. ASSUME NEW t \in Threads, W!process_debounced_changes(t) PROVE WatchInv'
  <2>1. /\ task[t].at = "process" /\ task' = [task EXCEPT ![t] = [at |-> "reload", queue |-> W!Ready(t)]]
        /\ pending' = [p \in Plugins |-> IF p \in W!Ready(t) THEN None ELSE pending[p]] /\ UNCHANGED <<watched, now, owed>>
    BY <1>13 DEF W!process_debounced_changes
  <2>2. W!Ready(t) \subseteq Plugins
    BY DEF W!Ready
  <2>3. [at |-> "reload", queue |-> W!Ready(t)] \in Handling
    BY <2>2 DEF Handling
  <2>4. /\ task' \in [Threads -> Handling] /\ \A u \in Threads : u # t => task'[u] = task[u]
        /\ task'[t].at = "reload" /\ task'[t].queue = W!Ready(t)
    BY <1>1, <2>1, <2>3
  <2>5. \A p : Queued(p) \/ p \in W!Ready(t) => Queued(p)'
    BY <2>1, <2>4
  <2>6. \A p \in owed' : pending'[p] # None \/ Queued(p)'
    BY <1>1, <2>1, <2>5
  <2> HIDE DEF Queued
  <2> QED BY <1>1, <1>2, <2>1, <2>4, <2>6
<1>14. ASSUME NEW t \in Threads, W!Reload(t) PROVE WatchInv'
  <2>1. task[t] \in Handling /\ task[t].at = "reload" /\ UNCHANGED <<watched, now, pending>>
    BY <1>1, <1>14 DEF W!Reload
  <2>2. task[t] = [at |-> "reload", queue |-> task[t].queue] /\ task[t].queue \subseteq Plugins
    BY <2>1 DEF Handling, W!Idle
  <2>3. CASE task[t].queue = {} /\ task' = [task EXCEPT ![t] = W!Idle] /\ owed' = owed
    <3>1. task' \in [Threads -> Handling] /\ \A u \in Threads : u # t => task'[u] = task[u]
      BY <1>1, <2>3 DEF Handling
    <3>2. \A p : Queued(p) => Queued(p)'
      BY <2>3, <3>1
    <3> QED BY <1>1, <1>2, <2>1, <2>3, <3>1, <3>2
  <2>4. ASSUME NEW p \in task[t].queue, task' = [task EXCEPT ![t].queue = task[t].queue \ {p}],
               owed' = IF pending[p] = None THEN owed \ {p} ELSE owed
        PROVE WatchInv'
    <3>1. task'[t] = [at |-> "reload", queue |-> task[t].queue \ {p}] /\ \A u \in Threads : u # t => task'[u] = task[u]
      BY <1>1, <2>2, <2>4
    <3>2. task'[t] \in Handling
      BY <2>2, <3>1 DEF Handling
    <3>3. task' \in [Threads -> Handling]
      BY <1>1, <2>4, <3>1, <3>2
    <3>4. \A o : o # p /\ Queued(o) => Queued(o)'
      BY <3>1
    <3>5. \A o \in owed' : pending'[o] # None \/ Queued(o)'
      BY <1>1, <2>1, <2>4, <3>4
    <3> HIDE DEF Queued
    <3> QED BY <1>1, <1>2, <2>1, <2>4, <3>3, <3>5
  <2> QED BY <1>14, <2>3, <2>4 DEF W!Reload
<1> QED BY <1>4, <1>5, <1>6, <1>7, <1>9, <1>10, <1>11, <1>12, <1>13, <1>14 DEF W!Next

\* What a caller of reload_plugin_config is doing.
Reading == {W!Idle} \cup [at : {"read"}] \cup [at : {"insert"}, value : Nat]

\* Nobody is about to insert something older than what was in the file when the
\* reloads under way began.
ConfigInv ==
  /\ reader \in [Threads -> Reading] /\ disk \in Nat /\ config \in Nat /\ before \in Nat /\ shown \in Nat
  /\ shown <= before /\ before <= disk
  /\ \A t \in Threads : reader[t].at = "insert" => before <= reader[t].value
  /\ W!ConfigCurrent

\* Each step of a reload, a write of the file and an event of it keep that.
LEMMA ConfigStep ==
  ASSUME ConfigInv, [W!ConfigNext]_W!config_vars
  PROVE  ConfigInv'
<1>1. /\ reader \in [Threads -> Reading] /\ disk \in Nat /\ config \in Nat /\ before \in Nat /\ shown \in Nat
      /\ shown <= before /\ before <= disk /\ config >= shown
      /\ \A t \in Threads : reader[t].at = "insert" => before <= reader[t].value
  BY DEF ConfigInv, W!ConfigCurrent
<1>2. CASE UNCHANGED W!config_vars \/ W!handle_watch_event
  BY <1>2 DEF ConfigInv, W!ConfigCurrent, W!config_vars, W!handle_watch_event
<1>3. CASE W!WriteFile
  BY <1>1, <1>3 DEF ConfigInv, W!ConfigCurrent, W!WriteFile
<1>4. ASSUME NEW t \in Threads, W!reload_plugin_config(t) PROVE ConfigInv'
  <2>1. [at |-> "read"] \in Reading
    BY DEF Reading
  <2>2. /\ reader' = [reader EXCEPT ![t] = [at |-> "read"]] /\ UNCHANGED <<disk, config, shown>>
        /\ before' = IF \A u \in Threads : reader[u] = W!Idle THEN disk ELSE before
    BY <1>4 DEF W!reload_plugin_config
  <2>3. reader' \in [Threads -> Reading] /\ reader'[t].at = "read" /\ \A u \in Threads : u # t => reader'[u] = reader[u]
    BY <1>1, <2>1, <2>2
  <2>4. \A u \in Threads : reader'[u].at = "insert" => before' <= reader'[u].value
    <3>1. CASE \A u \in Threads : reader[u] = W!Idle
      BY <2>3, <3>1 DEF W!Idle
    <3>2. CASE ~\A u \in Threads : reader[u] = W!Idle
      BY <1>1, <2>2, <2>3, <3>2
    <3> QED BY <3>1, <3>2
  <2>5. before' \in Nat /\ shown' <= before' /\ before' <= disk'
    BY <1>1, <2>2
  <2> QED BY <1>1, <2>2, <2>3, <2>4, <2>5 DEF ConfigInv, W!ConfigCurrent
<1>5. ASSUME NEW t \in Threads, W!Read(t) PROVE ConfigInv'
  <2> DEFINE x == IF disk \in Unparsable THEN W!Idle ELSE [at |-> "insert", value |-> disk]
  <2>1. x \in Reading /\ (x.at = "insert" => x.value = disk)
    BY <1>1 DEF Reading, W!Idle
  <2>2. reader' = [reader EXCEPT ![t] = x] /\ UNCHANGED <<disk, config, before, shown>>
    BY <1>5 DEF W!Read
  <2> HIDE DEF x
  <2>3. reader' \in [Threads -> Reading] /\ reader'[t] = x /\ \A u \in Threads : u # t => reader'[u] = reader[u]
    BY <1>1, <2>1, <2>2
  <2> QED BY <1>1, <2>1, <2>2, <2>3 DEF ConfigInv, W!ConfigCurrent
<1>6. ASSUME NEW t \in Threads, W!Insert(t) PROVE ConfigInv'
  <2>1. /\ reader[t].at = "insert" /\ config' = reader[t].value /\ shown' = before
        /\ reader' = [reader EXCEPT ![t] = W!Idle] /\ UNCHANGED <<disk, before>>
    BY <1>6 DEF W!Insert
  <2>2. reader[t].value \in Nat /\ before <= reader[t].value
    <3>1. reader[t] \in Reading
      BY <1>1
    <3> QED BY <1>1, <2>1, <3>1 DEF Reading, W!Idle
  <2>3. W!Idle \in Reading /\ W!Idle.at # "insert"
    BY DEF Reading, W!Idle
  <2>4. reader' \in [Threads -> Reading] /\ \A u \in Threads : reader'[u].at = "insert" => reader'[u] = reader[u]
    BY <1>1, <2>1, <2>3
  <2> QED BY <1>1, <2>1, <2>2, <2>4 DEF ConfigInv, W!ConfigCurrent
<1> QED BY <1>2, <1>3, <1>4, <1>5, <1>6 DEF W!ConfigNext

LEMMA ReloadsSafe == None \notin Nat => (W!Spec => []W!ChangeNotLost) /\ (W!ConfigSpec => []W!ConfigCurrent)
<1> SUFFICES ASSUME None \notin Nat PROVE (W!Spec => []W!ChangeNotLost) /\ (W!ConfigSpec => []W!ConfigCurrent)
  OBVIOUS
<1>1. W!Init => WatchInv
  BY DEF W!Init, WatchInv, Handling, W!ChangeNotLost
<1>2. WatchInv /\ [W!Next]_W!vars => WatchInv'
  BY WatchStep
<1>3. WatchInv => W!ChangeNotLost
  BY DEF WatchInv
<1>4. W!ConfigInit => ConfigInv
  <2>1. W!Idle \in Reading /\ W!Idle.at # "insert"
    BY DEF Reading, W!Idle
  <2> QED BY <2>1 DEF W!ConfigInit, ConfigInv, W!ConfigCurrent
<1>5. ConfigInv /\ [W!ConfigNext]_W!config_vars => ConfigInv'
  BY ConfigStep
<1>6. ConfigInv => W!ConfigCurrent
  BY DEF ConfigInv
<1> QED BY <1>1, <1>2, <1>3, <1>4, <1>5, <1>6, PTL DEF W!Spec, W!ConfigSpec

-----------------------------------------------------------------------------
(* Events: requests are answered once.                                     *)

\* The sender of a request that nobody answered is in the map, or was dropped from
\* it when it was old.
Asked(r) ==
  /\ answered[r] \in {0, 1}
  /\ request[r] = "new" => sent[r] = -1 /\ answered[r] = 0
  /\ sent[r] >= 0 => answered[r] = 0
  /\ request[r] # "new" /\ sent[r] < 0 /\ answered[r] = 0 => tick > RequestTimeout
  /\ request[r] = "success" => answered[r] = 1
  /\ request[r] = "canceled" => answered[r] = 0 /\ sent[r] < 0 /\ tick > RequestTimeout

RequestInv ==
  /\ sent \in [Requests -> Nat \cup {-1}] /\ tick \in Nat
  /\ request \in [Requests -> {"new", "publish", "wait", "failed", "success", "canceled", "timeout"}]
  /\ DOMAIN answered = Requests
  /\ \A r \in Requests : Asked(r)

LEMMA RequestStep ==
  ASSUME RequestTimeout \in Nat, RequestInv, E!RequestResponse \/ UNCHANGED <<sent, request, answered, tick>>
  PROVE  RequestInv'
<1> USE DEF RequestInv, Asked
<1>1. CASE UNCHANGED <<sent, request, answered, tick>>
  BY <1>1
<1>2. ASSUME NEW r \in Requests, E!send_request(r) PROVE RequestInv'
  BY <1>2 DEF E!send_request
<1>3. ASSUME NEW r \in Requests, E!PublishRequest(r) PROVE RequestInv'
  BY <1>3 DEF E!PublishRequest
<1>4. ASSUME NEW r \in Requests, E!handle_response(r) PROVE RequestInv'
  BY <1>4 DEF E!handle_response
<1>5. ASSUME NEW r \in Requests, E!Receive(r) PROVE RequestInv'
  BY <1>5 DEF E!Receive
<1>6. ASSUME NEW r \in Requests, E!TimeOut(r) PROVE RequestInv'
  BY <1>6 DEF E!TimeOut
<1>7. ASSUME E!cleanup_expired PROVE RequestInv'
  BY <1>7 DEF E!cleanup_expired
<1>8. ASSUME E!Tick PROVE RequestInv'
  BY <1>8 DEF E!Tick
<1> QED BY <1>1, <1>2, <1>3, <1>4, <1>5, <1>6, <1>7, <1>8 DEF E!RequestResponse

-----------------------------------------------------------------------------
(* Events: a publication reaches those who stay registered.                *)

EventsAssumption ==
  /\ MaxDead \in Nat
  /\ \A s \in Subscribers : /\ TypesOf[s] # <<>> /\ DOMAIN TypesOf[s] = 1..Len(TypesOf[s]) /\ Len(TypesOf[s]) \in Nat

LEMMA Prefixes == \A n \in Nat : IsFiniteSet(1..n)
<1> SUFFICES ASSUME NEW n \in Nat PROVE IsFiniteSet(1..n)
  OBVIOUS
<1>1. 1 \in Int /\ n \in Int
  OBVIOUS
<1> QED BY <1>1, FS_Interval, SMTT(60)

LEMMA PushedAsCardinality == \A T : E!Cardinality(T) = Cardinality(T)
  BY DEF Cardinality, E!Cardinality

\* Times route_by_pattern pushes a subscriber that has all its entries.
Exactly(f, s, e) ==
  IF f.pattern /\ e \in Accepts[s]
  THEN Cardinality({i \in E!Types(s) : ~E!IsWildcard(TypesOf[s][i]) /\ TypesOf[s][i] = e}) ELSE 0

\* Subsets of the places in event_types have a cardinality.
LEMMA PlacesCounted ==
  ASSUME EventsAssumption, NEW s \in Subscribers, NEW T \in SUBSET E!Types(s)
  PROVE  Cardinality(T) \in Nat
<1>1. E!Types(s) = 1..Len(TypesOf[s]) /\ Len(TypesOf[s]) \in Nat
  BY DEF EventsAssumption, E!Types
<1> QED BY <1>1, Prefixes, FS_Subset, FS_CardinalityType

\* What the two tables give a subscriber that is in both with all its patterns.
LEMMA AllEntries ==
  ASSUME EventsAssumption, NEW s \in Subscribers, NEW e, entries[s] = E!Types(s)
  PROVE  E!Exact(s, e) = Exactly(flags, s, e) /\ Exactly(flags, s, e) + E!Wildcards(s, e) = E!Full(flags, s, e)
<1> DEFINE wild == {i \in E!Types(s) : E!IsWildcard(TypesOf[s][i])}
           fit  == {i \in wild : E!Matches(TypesOf[s][i], e)}
           both == {i \in E!Types(s) : E!IsWildcard(TypesOf[s][i]) /\ E!Matches(TypesOf[s][i], e)}
           exact == {i \in E!Types(s) \ wild : TypesOf[s][i] = e}
           same == {i \in E!Types(s) : ~E!IsWildcard(TypesOf[s][i]) /\ TypesOf[s][i] = e}
<1>1. fit = both /\ exact = same
  OBVIOUS
<1>2. Cardinality(same) \in Nat /\ Cardinality(wild) \in Nat /\ Cardinality(both) \in Nat
  BY PlacesCounted
<1>3. E!Exact(s, e) = IF flags.pattern /\ e \in Accepts[s] THEN Cardinality(same) ELSE 0
  BY PushedAsCardinality DEF E!Exact
<1>4. Exactly(flags, s, e) = IF flags.pattern /\ e \in Accepts[s] THEN Cardinality(same) ELSE 0
  BY DEF Exactly
<1>5. E!Wildcards(s, e) = IF flags.wildcard /\ e \in Accepts[s] THEN Cardinality(wild) * Cardinality(both) ELSE 0
  BY PushedAsCardinality DEF E!Wildcards
<1>6. E!Full(flags, s, e) = IF e \in Accepts[s]
                     THEN (IF flags.pattern THEN Cardinality(exact) ELSE 0)
                          + (IF flags.wildcard THEN Cardinality(wild) * Cardinality(fit) ELSE 0)
                     ELSE 0
  BY PushedAsCardinality DEF E!Full
<1> HIDE DEF wild, fit, both, exact, same
<1>7. Cardinality(wild) * Cardinality(both) \in Nat
  BY <1>2
<1> QED BY <1>1, <1>2, <1>3, <1>4, <1>5, <1>6, <1>7

\* A subscriber in neither table is not pushed.
LEMMA NoEntries ==
  ASSUME EventsAssumption, NEW s \in Subscribers, NEW e, entries[s] = {}
  PROVE  E!Exact(s, e) = 0 /\ E!Wildcards(s, e) = 0
<1> DEFINE both == {i \in E!Types(s) : E!IsWildcard(TypesOf[s][i]) /\ E!Matches(TypesOf[s][i], e)}
<1>1. Cardinality({}) = 0
  BY FS_EmptySet
<1>2. E!Exact(s, e) = 0
  <2>1. {i \in entries[s] : ~E!IsWildcard(TypesOf[s][i]) /\ TypesOf[s][i] = e} = {}
    OBVIOUS
  <2> QED BY <1>1, <2>1, PushedAsCardinality DEF E!Exact
<1>3. Cardinality(both) \in Nat
  BY PlacesCounted
<1>4. E!Wildcards(s, e) = IF flags.wildcard /\ e \in Accepts[s] THEN Cardinality({}) * Cardinality(both) ELSE 0
  <2>1. {i \in entries[s] : E!IsWildcard(TypesOf[s][i])} = {}
    OBVIOUS
  <2> QED BY <2>1, PushedAsCardinality DEF E!Wildcards
<1> HIDE DEF both
<1> QED BY <1>1, <1>2, <1>3, <1>4

\* A publication under way, as the code keeps it.
Active ==
  [at : {"filter", "store", "pattern", "wildcard", "deliver"}, type : EventTypes, id : Nat,
   matched : [Subscribers -> Int], due : [Subscribers -> Int] \cup {<<>>}, must : SUBSET Subscribers, gone : SUBSET Subscribers]

Publishing == {E!Idle} \cup Active

LEMMA PublishingRecord ==
  ASSUME NEW x \in Active, NEW g \in SUBSET Subscribers
  PROVE  [x EXCEPT !.gone = g] \in Active /\ [x EXCEPT !.must = g] \in Active
  BY DEF Active

\* The subscribers that must hear of it have all their entries since it began and
\* those that must not have none; what was matched so far is what they get.
Reaches(x) ==
  /\ \A s \in x.must : /\ entries[s] = E!Types(s)
                       /\ x.at = "wildcard" => x.matched[s] = Exactly(flags, s, x.type)
                       /\ x.at = "deliver" => x.matched[s] = E!Full(flags, s, x.type)
  /\ \A s \in x.gone : /\ entries[s] = {} /\ adding[s] = 0
                       /\ x.at \in {"wildcard", "deliver"} => x.matched[s] = 0
  /\ x.at = "deliver" => x.due \in [Subscribers -> Int]

RouterInv ==
  /\ DOMAIN entries = Subscribers /\ DOMAIN adding = Subscribers /\ removed \subseteq Subscribers
  /\ \A s \in Subscribers : adding[s] \in 0..Len(TypesOf[s]) /\ entries[s] \subseteq E!Types(s)
  /\ \A s \in removed : entries[s] = {} /\ adding[s] = 0

LettersInv ==
  errors \in Nat /\ dead = IF ~flags.dead_letters THEN 0 ELSE IF errors <= MaxDead THEN errors ELSE MaxDead

EventInv ==
  /\ RouterInv /\ LettersInv /\ published \in Nat
  /\ pub \in [Publishers -> Publishing]
  /\ \A t \in Publishers : pub[t] # E!Idle => Reaches(pub[t])

\* However many publications run, every step of one and every step of an addition
\* or a removal keeps what they have matched.
LEMMA EventStep ==
  ASSUME EventsAssumption, EventInv, E!Publication \/ UNCHANGED <<flags, entries, adding, removed, published, dead, errors, pub>>
  PROVE  EventInv'
<1>1. /\ RouterInv /\ LettersInv /\ published \in Nat /\ pub \in [Publishers -> Publishing]
      /\ \A t \in Publishers : pub[t] # E!Idle => Reaches(pub[t])
  BY DEF EventInv
<1>2. CASE UNCHANGED <<flags, entries, adding, removed, published, dead, errors, pub>>
  BY <1>2 DEF EventInv, RouterInv, LettersInv, Reaches
<1>3. ASSUME UNCHANGED <<flags, entries, adding, removed>> PROVE RouterInv' /\ \A x : Reaches(x) <=> Reaches(x)'
  BY <1>1, <1>3 DEF RouterInv, Reaches
\* A publication goes on.
<1>4. ASSUME NEW t \in Publishers, NEW x \in Publishing, pub' = [pub EXCEPT ![t] = x], UNCHANGED <<flags, entries, adding, removed>>,
             x # E!Idle => Reaches(x), LettersInv', published' \in Nat
      PROVE EventInv'
  <2>1. pub' \in [Publishers -> Publishing]
    BY <1>1, <1>4
  <2>2. ASSUME NEW u \in Publishers, pub'[u] # E!Idle PROVE Reaches(pub[u])'
    <3>1. Reaches(pub'[u])
      BY <1>1, <1>4, <2>2
    <3> QED BY <1>3, <1>4, <3>1 DEF Reaches
  <2> QED BY <1>3, <1>4, <2>1, <2>2 DEF EventInv
\* The parts of a publication that is not idle.
<1>5. ASSUME NEW t \in Publishers, pub[t] # E!Idle
      PROVE pub[t] \in Active /\ Reaches(pub[t])
  BY <1>1, <1>5 DEF Publishing
<1>6. \A t \in Publishers : pub[t].at # "idle" => pub[t] # E!Idle
  BY DEF E!Idle
<1>7. UNCHANGED <<flags, dead, errors>> => LettersInv'
  BY <1>1 DEF LettersInv
<1>8. ASSUME NEW s \in Subscribers, E!add_subscriber(s) PROVE EventInv'
  <2>1. /\ adding[s] = 0 /\ entries[s] = {} /\ adding' = [adding EXCEPT ![s] = 1] /\ removed' = removed \ {s}
        /\ pub' = [t \in Publishers |-> IF pub[t] = E!Idle THEN E!Idle ELSE [pub[t] EXCEPT !.gone = pub[t].gone \ {s}]]
        /\ UNCHANGED <<flags, entries, published, dead, errors>>
    BY <1>8 DEF E!add_subscriber, E!storage
  <2>2. RouterInv'
    <3>1. 1 \in 0..Len(TypesOf[s])
      BY DEF EventsAssumption
    <3> QED BY <1>1, <2>1, <3>1 DEF RouterInv
  <2>3. ASSUME NEW t \in Publishers, pub[t] # E!Idle PROVE pub'[t] \in Publishing /\ Reaches(pub[t])'
    <3>1. pub'[t] = [pub[t] EXCEPT !.gone = pub[t].gone \ {s}]
      BY <2>1, <2>3
    <3>2. /\ pub'[t].at = pub[t].at /\ pub'[t].type = pub[t].type /\ pub'[t].matched = pub[t].matched
          /\ pub'[t].due = pub[t].due /\ pub'[t].must = pub[t].must /\ pub'[t].gone = pub[t].gone \ {s}
          /\ pub[t].gone \subseteq Subscribers /\ pub[t].must \subseteq Subscribers
      BY <1>5, <2>3, <3>1 DEF Active
    <3>0. pub'[t] \in Publishing
      <4>1. pub[t] \in Active /\ pub[t].gone \ {s} \in SUBSET Subscribers
        BY <1>5, <2>3, <3>2
      <4> QED BY <3>1, <4>1, PublishingRecord DEF Publishing
    <3>3. \A o \in Subscribers : o # s => adding'[o] = adding[o]
      BY <1>1, <2>1 DEF RouterInv
    <3>4. Reaches(pub[t])
      BY <1>5, <2>3
    <3>5. \A o \in pub'[t].must : entries'[o] = entries[o] /\ o \in pub[t].must
      BY <2>1, <3>2
    <3>6. \A o \in pub'[t].gone : entries'[o] = entries[o] /\ adding'[o] = adding[o] /\ o \in pub[t].gone
      BY <2>1, <3>2, <3>3
    <3> QED BY <3>0, <3>2, <2>1, <3>4, <3>5, <3>6 DEF Reaches
  <2>4. \A t \in Publishers : pub[t] = E!Idle => pub'[t] = E!Idle /\ E!Idle \in Publishing
    BY <2>1 DEF Publishing, Active
  <2>5. pub' \in [Publishers -> Publishing]
    BY <2>1, <2>3, <2>4
  <2> QED BY <1>1, <1>7, <2>1, <2>2, <2>3, <2>4, <2>5 DEF EventInv
<1>9. ASSUME NEW s \in Subscribers, E!AddType(s) PROVE EventInv'
  <2>1. /\ adding[s] # 0 /\ entries' = [entries EXCEPT ![s] = entries[s] \cup {adding[s]}]
        /\ adding' = [adding EXCEPT ![s] = (adding[s] + 1) % (Len(TypesOf[s]) + 1)]
        /\ UNCHANGED <<flags, removed, published, dead, errors, pub>>
    BY <1>9 DEF E!AddType, E!storage
  <2>2. Len(TypesOf[s]) \in Nat /\ adding[s] \in E!Types(s) /\ adding[s] \in 0..Len(TypesOf[s])
    BY <1>1, <2>1 DEF EventsAssumption, RouterInv, E!Types
  <2>3. (adding[s] + 1) % (Len(TypesOf[s]) + 1) \in 0..Len(TypesOf[s])
    BY <2>2
  <2>4. \A o \in Subscribers : o # s => adding'[o] = adding[o] /\ entries'[o] = entries[o]
    BY <1>1, <2>1 DEF RouterInv
  <2>5. s \notin removed /\ entries'[s] = entries[s] \cup {adding[s]} /\ adding'[s] \in 0..Len(TypesOf[s])
    BY <1>1, <2>1, <2>3 DEF RouterInv
  <2>6. RouterInv'
    BY <1>1, <2>1, <2>2, <2>4, <2>5 DEF RouterInv, E!Types
  <2>7. ASSUME NEW t \in Publishers, pub[t] # E!Idle PROVE Reaches(pub[t])'
    <3>1. Reaches(pub[t]) /\ pub[t].must \subseteq Subscribers /\ pub[t].gone \subseteq Subscribers
      BY <1>5, <2>7 DEF Active
    <3>2. \A o \in pub[t].must : entries'[o] = E!Types(o)
      <4>1. \A o \in pub[t].must : entries[o] = E!Types(o) /\ o \in Subscribers
        BY <3>1 DEF Reaches
      <4>2. entries[s] = E!Types(s) => entries'[s] = E!Types(s)
        BY <2>2, <2>5
      <4> QED BY <2>4, <4>1, <4>2
    <3>3. \A o \in pub[t].gone : entries'[o] = {} /\ adding'[o] = 0
      BY <2>1, <2>4, <3>1 DEF Reaches
    <3> QED BY <2>1, <3>1, <3>2, <3>3 DEF Reaches
  <2> QED BY <1>1, <1>7, <2>1, <2>6, <2>7 DEF EventInv
<1>10. ASSUME NEW s \in Subscribers, E!remove_subscriber(s) PROVE EventInv'
  <2>1. /\ entries' = [entries EXCEPT ![s] = {}] /\ removed' = (IF adding[s] = 0 THEN removed \cup {s} ELSE removed)
        /\ pub' = [t \in Publishers |-> IF pub[t] = E!Idle THEN E!Idle ELSE [pub[t] EXCEPT !.must = pub[t].must \ {s}]]
        /\ UNCHANGED <<flags, adding, published, dead, errors>>
    BY <1>10 DEF E!remove_subscriber, E!storage
  <2>2. entries'[s] = {} /\ \A o \in Subscribers : o # s => entries'[o] = entries[o]
    BY <1>1, <2>1 DEF RouterInv
  <2>3. RouterInv'
    BY <1>1, <2>1, <2>2 DEF RouterInv
  <2>4. ASSUME NEW t \in Publishers, pub[t] # E!Idle PROVE pub'[t] \in Publishing /\ Reaches(pub[t])'
    <3>1. pub'[t] = [pub[t] EXCEPT !.must = pub[t].must \ {s}]
      BY <2>1, <2>4
    <3>2. /\ pub'[t].at = pub[t].at /\ pub'[t].type = pub[t].type /\ pub'[t].matched = pub[t].matched
          /\ pub'[t].due = pub[t].due /\ pub'[t].gone = pub[t].gone /\ pub'[t].must = pub[t].must \ {s}
          /\ pub[t].gone \subseteq Subscribers /\ pub[t].must \subseteq Subscribers
      BY <1>5, <2>4, <3>1 DEF Active
    <3>0. pub'[t] \in Publishing
      <4>1. pub[t] \in Active /\ pub[t].must \ {s} \in SUBSET Subscribers
        BY <1>5, <2>4, <3>2
      <4> QED BY <3>1, <4>1, PublishingRecord DEF Publishing
    <3>3. Reaches(pub[t])
      BY <1>5, <2>4
    <3>4. \A o \in pub'[t].must : entries'[o] = entries[o] /\ o \in pub[t].must
      BY <2>2, <3>2
    <3>5. \A o \in pub'[t].gone : entries'[o] = {} /\ adding'[o] = adding[o] /\ o \in pub[t].gone
      BY <2>1, <2>2, <3>2, <3>3 DEF Reaches
    <3> QED BY <2>1, <3>0, <3>2, <3>3, <3>4, <3>5 DEF Reaches
  <2>5. \A t \in Publishers : pub[t] = E!Idle => pub'[t] = E!Idle /\ E!Idle \in Publishing
    BY <2>1 DEF Publishing, Active
  <2>6. pub' \in [Publishers -> Publishing]
    BY <2>1, <2>4, <2>5
  <2> QED BY <1>1, <1>7, <2>1, <2>3, <2>4, <2>5, <2>6 DEF EventInv
<1>11. ASSUME NEW f \in Filters, E!add_filter(f) \/ E!remove_filter(f) PROVE EventInv'
  BY <1>2, <1>11 DEF E!add_filter, E!remove_filter, E!router, E!storage
<1>12. ASSUME NEW t \in Publishers, NEW e \in EventTypes, E!publish(t, e) \/ E!route_event(t, e) PROVE EventInv'
  <2>0. PICK at0 \in {"filter", "pattern"} : E!Start(t, e, at0)
    BY <1>12 DEF E!publish, E!route_event
  <2> DEFINE x == [at |-> at0, type |-> e, id |-> published + 1,
                   matched |-> [s \in Subscribers |-> 0], due |-> <<>>,
                   must |-> {s \in Subscribers : entries[s] = E!Types(s)}, gone |-> removed]
  <2>1. pub' = [pub EXCEPT ![t] = x] /\ published' = published + 1 /\ UNCHANGED <<flags, entries, adding, removed, dead, errors>>
    BY <2>0 DEF E!Start, E!router, E!storage
  <2>2. x \in Publishing
    BY <1>1 DEF Publishing, Active, RouterInv
  <2>3. Reaches(x)
    BY <1>1 DEF Reaches, RouterInv
  <2> HIDE DEF x
  <2>4. published' \in Nat /\ LettersInv'
    BY <1>1, <1>7, <2>1
  <2> QED BY <1>4, <2>1, <2>2, <2>3, <2>4
<1>13. ASSUME NEW t \in Publishers, E!apply_filters(t) PROVE EventInv'
  <2> DEFINE next == IF flags.persist THEN "store" ELSE "pattern"
             x == [pub[t] EXCEPT !.at = next]
  <2>0. next \in {"store", "pattern"}
    OBVIOUS
  <2> HIDE DEF next
  <2>1. pub[t].at = "filter" /\ pub' \in {[pub EXCEPT ![t] = x], [pub EXCEPT ![t] = E!Idle]}
        /\ UNCHANGED <<flags, entries, adding, removed, published, dead, errors>>
    BY <1>13 DEF E!apply_filters, E!router, E!storage, next
  <2>2. x \in Publishing /\ E!Idle \in Publishing
    BY <1>5, <1>6, <2>0, <2>1 DEF Publishing, Active
  <2>3. Reaches(x)
    BY <1>5, <1>6, <2>0, <2>1 DEF Reaches
  <2> HIDE DEF x
  <2> QED BY <1>1, <1>4, <1>7, <2>1, <2>2, <2>3
<1>14. ASSUME NEW t \in Publishers, E!store_event(t) PROVE EventInv'
  <2> DEFINE x == [pub[t] EXCEPT !.at = "pattern"]
  <2>1. pub[t].at = "store" /\ pub' = [pub EXCEPT ![t] = x] /\ UNCHANGED <<flags, entries, adding, removed, published, dead, errors>>
    BY <1>14 DEF E!store_event, E!router
  <2>2. x \in Publishing
    BY <1>5, <1>6, <2>1 DEF Publishing, Active
  <2>3. Reaches(x)
    BY <1>5, <1>6, <2>1 DEF Reaches
  <2> HIDE DEF x
  <2> QED BY <1>1, <1>4, <1>7, <2>1, <2>2, <2>3
\* What is counted is a number.
<1>15. ASSUME NEW s \in Subscribers, NEW e PROVE E!Exact(s, e) \in Int /\ E!Wildcards(s, e) \in Int
  <2>1. \A T : T \subseteq E!Types(s) => E!Cardinality(T) \in Nat
    BY PlacesCounted, PushedAsCardinality
  <2>2. entries[s] \subseteq E!Types(s)
    BY <1>1 DEF RouterInv
  <2>3. E!Exact(s, e) \in Int
    BY <2>1, <2>2 DEF E!Exact
  <2>4. ASSUME NEW m \in Nat, NEW n \in Nat PROVE m * n \in Int
    OBVIOUS
  <2>5. E!Wildcards(s, e) \in Int
    <3> DEFINE S == {i \in entries[s] : E!IsWildcard(TypesOf[s][i])}
               T == {i \in E!Types(s) : E!IsWildcard(TypesOf[s][i]) /\ E!Matches(TypesOf[s][i], e)}
    <3>1. E!Cardinality(S) \in Nat /\ E!Cardinality(T) \in Nat
      BY <2>1, <2>2
    <3>2. E!Wildcards(s, e) = IF flags.wildcard /\ e \in Accepts[s] THEN E!Cardinality(S) * E!Cardinality(T) ELSE 0
      BY DEF E!Wildcards
    <3> HIDE DEF S, T
    <3> QED BY <2>4, <3>1, <3>2
  <2> QED BY <2>3, <2>5
<1>16. ASSUME NEW t \in Publishers, E!route_by_pattern(t) PROVE EventInv'
  <2> DEFINE m == [s \in Subscribers |-> E!Exact(s, pub[t].type)]
             x == [pub[t] EXCEPT !.matched = m, !.at = "wildcard"]
  <2>1. pub[t].at = "pattern" /\ pub' = [pub EXCEPT ![t] = x] /\ UNCHANGED <<flags, entries, adding, removed, published, dead, errors>>
    BY <1>16 DEF E!route_by_pattern, E!router, E!storage
  <2>2. m \in [Subscribers -> Int] /\ \A s \in Subscribers : m[s] = E!Exact(s, pub[t].type)
    BY <1>15
  <2> HIDE DEF m
  <2>3. /\ x \in Publishing /\ x.matched = m /\ x.at = "wildcard" /\ x.type = pub[t].type /\ x.must = pub[t].must /\ x.gone = pub[t].gone
        /\ pub[t].must \subseteq Subscribers /\ pub[t].gone \subseteq Subscribers /\ pub[t].type \in EventTypes
    BY <1>5, <1>6, <2>1, <2>2 DEF Publishing, Active
  <2> HIDE DEF x
  <2>4. Reaches(pub[t])
    BY <1>5, <1>6, <2>1
  <2>5. \A s \in pub[t].must : entries[s] = E!Types(s) /\ m[s] = Exactly(flags, s, pub[t].type)
    BY <2>2, <2>3, <2>4, AllEntries DEF Reaches
  <2>6. \A s \in pub[t].gone : entries[s] = {} /\ adding[s] = 0 /\ m[s] = 0
    BY <2>2, <2>3, <2>4, NoEntries DEF Reaches
  <2>7. Reaches(x)
    BY <2>3, <2>5, <2>6 DEF Reaches
  <2> QED BY <1>1, <1>4, <1>7, <2>1, <2>3, <2>7
<1>17. ASSUME NEW t \in Publishers, E!route_by_wildcard(t) PROVE EventInv'
  <2> DEFINE m == [s \in Subscribers |-> pub[t].matched[s] + E!Wildcards(s, pub[t].type)]
             x == [pub[t] EXCEPT !.matched = m, !.due = m, !.at = "deliver"]
  <2>1. pub[t].at = "wildcard" /\ pub' = [pub EXCEPT ![t] = x] /\ UNCHANGED <<flags, entries, adding, removed, published, dead, errors>>
    BY <1>17, Zenon DEF E!route_by_wildcard, E!router, E!storage
  <2>2. /\ pub[t].must \subseteq Subscribers /\ pub[t].gone \subseteq Subscribers /\ pub[t].type \in EventTypes
        /\ pub[t].matched \in [Subscribers -> Int] /\ Reaches(pub[t])
    BY <1>5, <1>6, <2>1 DEF Active
  <2>3. m \in [Subscribers -> Int] /\ \A s \in Subscribers : m[s] = pub[t].matched[s] + E!Wildcards(s, pub[t].type)
    BY <1>15, <2>2
  <2> HIDE DEF m
  <2>4. /\ x \in Publishing /\ x.matched = m /\ x.due = m /\ x.at = "deliver" /\ x.type = pub[t].type
        /\ x.must = pub[t].must /\ x.gone = pub[t].gone
    BY <1>5, <1>6, <2>1, <2>3 DEF Publishing, Active
  <2> HIDE DEF x
  <2>5. \A s \in pub[t].must : entries[s] = E!Types(s) /\ m[s] = E!Full(flags, s, pub[t].type)
    BY <2>1, <2>2, <2>3, AllEntries DEF Reaches
  <2>6. \A s \in pub[t].gone : entries[s] = {} /\ adding[s] = 0 /\ m[s] = 0
    BY <2>1, <2>2, <2>3, NoEntries DEF Reaches
  <2>7. Reaches(x)
    BY <2>3, <2>4, <2>5, <2>6 DEF Reaches
  <2> QED BY <1>1, <1>4, <1>7, <2>1, <2>4, <2>7
<1>18. ASSUME NEW t \in Publishers, NEW s \in Subscribers, E!Deliver(t, s) PROVE EventInv'
  <2> DEFINE d == [pub[t].due EXCEPT ![s] = pub[t].due[s] - 1]
             x == [pub[t] EXCEPT !.due = d]
  <2>1. pub[t].at = "deliver" /\ pub' = [pub EXCEPT ![t] = x] /\ UNCHANGED <<flags, entries, adding, removed, published>>
    BY <1>18 DEF E!Deliver, E!router
  <2>2. LettersInv'
    <3>1. PICK ok \in BOOLEAN : /\ errors' = (IF ok \/ errors > MaxDead THEN errors ELSE errors + 1)
                                /\ dead' = (IF ok \/ ~flags.dead_letters \/ dead = MaxDead THEN dead ELSE dead + 1)
      BY <1>18 DEF E!Deliver
    <3> QED BY <1>1, <2>1, <3>1 DEF LettersInv, EventsAssumption
  <2>3. Reaches(pub[t]) /\ d \in [Subscribers -> Int]
    BY <1>5, <1>6, <2>1 DEF Reaches
  <2> HIDE DEF d
  <2>4. /\ x \in Publishing /\ x.matched = pub[t].matched /\ x.due = d /\ x.at = "deliver" /\ x.type = pub[t].type
        /\ x.must = pub[t].must /\ x.gone = pub[t].gone
    BY <1>5, <1>6, <2>1, <2>3 DEF Publishing, Active
  <2> HIDE DEF x
  <2>5. Reaches(x)
    BY <2>1, <2>3, <2>4 DEF Reaches
  <2> QED BY <1>1, <1>4, <2>1, <2>2, <2>4, <2>5
<1>19. ASSUME NEW t \in Publishers, E!Published(t) PROVE EventInv'
  <2>1. E!Idle \in Publishing
    BY DEF Publishing, Active
  <2> QED BY <1>1, <1>4, <1>7, <1>19, <2>1 DEF E!Published, E!router, E!storage
<1>20. ASSUME E!clear_dead_letters PROVE EventInv'
  <2>1. LettersInv'
    BY <1>20 DEF E!clear_dead_letters, E!router, LettersInv, EventsAssumption
  <2> QED BY <1>1, <1>3, <1>20, <2>1 DEF E!clear_dead_letters, E!router, EventInv, Reaches
<1> QED BY <1>2, <1>8, <1>9, <1>10, <1>11, <1>12, <1>13, <1>14, <1>16, <1>17, <1>18, <1>19, <1>20 DEF E!Publication

LEMMA EventsSafe ==
  ASSUME EventsAssumption, RequestTimeout \in Nat
  PROVE  E!Init /\ [][E!Publication \/ E!RequestResponse]_E!vars => [](E!DeliverySound /\ E!RequestsSettle)
<1> DEFINE Inv == EventInv /\ RequestInv
<1>1. E!Init => Inv
  <2> SUFFICES ASSUME E!Init PROVE Inv
    OBVIOUS
  <2>1. RequestInv
    BY DEF E!Init, RequestInv, Asked
  <2>2. RouterInv
    BY DEF E!Init, RouterInv, EventsAssumption
  <2>3. LettersInv
    BY DEF E!Init, LettersInv, EventsAssumption
  <2> QED BY <2>1, <2>2, <2>3 DEF E!Init, EventInv, Publishing
<1>2. Inv /\ [E!Publication \/ E!RequestResponse]_E!vars => Inv'
  <2> SUFFICES ASSUME Inv, [E!Publication \/ E!RequestResponse]_E!vars PROVE Inv'
    OBVIOUS
  <2>1. E!Publication => UNCHANGED <<sent, request, answered, tick>>
    BY DEF E!Publication, E!calls, E!add_subscriber, E!AddType, E!remove_subscriber, E!add_filter, E!remove_filter, E!publish, E!route_event, E!Start,
           E!apply_filters, E!store_event, E!route_by_pattern, E!route_by_wildcard, E!Deliver, E!Published, E!clear_dead_letters
  <2>2. E!RequestResponse => UNCHANGED <<flags, entries, adding, removed, published, dead, errors, pub>>
    BY DEF E!RequestResponse, E!events, E!router, E!storage, E!send_request, E!PublishRequest, E!handle_response, E!Receive,
           E!TimeOut, E!cleanup_expired, E!Tick
  <2>3. UNCHANGED E!vars => UNCHANGED <<flags, entries, adding, removed, published, dead, errors, pub, sent, request, answered, tick>>
    BY DEF E!vars, E!router, E!storage, E!calls
  <2> QED BY <2>1, <2>2, <2>3, EventStep, RequestStep
<1>3. Inv => E!DeliverySound /\ E!RequestsSettle
  <2> SUFFICES ASSUME Inv PROVE E!DeliverySound /\ E!RequestsSettle
    OBVIOUS
  <2>1. E!RequestsSettle
    BY DEF RequestInv, Asked, E!RequestsSettle
  <2>2. E!DeliverySound
    BY DEF EventInv, Reaches, LettersInv, E!DeliverySound
  <2> QED BY <2>1, <2>2
<1> QED BY <1>1, <1>2, <1>3, PTL

-----------------------------------------------------------------------------
(* The services side by side, as MCServices composes them.                 *)

\* A behaviour of the composition is one of every service.
LEMMA Projections == Spec => H!Spec /\ D!Spec /\ D!ClusterSpec /\ K!Spec /\ R!Spec /\ W!Spec /\ W!ConfigSpec
                            /\ E!Init /\ [][E!Publication \/ E!RequestResponse]_E!vars
<1>1. Init => H!Init /\ D!Init /\ D!ClusterInit /\ K!Init /\ R!Init /\ W!Init /\ W!ConfigInit /\ E!Init
  BY DEF Init
<1> USE DEF Next, About, Resource, vars, registry_vars, service_vars, host_vars, discovery_vars, cluster_vars, sync_vars, health_vars,
            key_vars, watch_vars, config_vars, resource_vars, event_vars
<1>2. [Next]_vars => [H!Next]_H!vars
  BY DEF H!vars
<1>3. [Next]_vars => [D!Next]_D!vars
  BY DEF D!vars, D!indices
<1>4. [Next]_vars => [D!ClusterNext]_D!cluster_vars
  BY DEF D!cluster_vars, D!sync, D!health, D!ClusterNext
<1>5. [Next]_vars => [K!Next]_K!vars
  BY DEF K!vars
<1>6. [Next]_vars => [R!Next]_R!vars
  BY DEF R!Next, R!vars, R!arena, R!pool, R!tracker, R!delayed
<1>7. [Next]_vars => [W!Next]_W!vars
  BY DEF W!vars
<1>8. [Next]_vars => [W!ConfigNext]_W!config_vars
  BY DEF W!config_vars
<1>9. [Next]_vars => [E!Publication \/ E!RequestResponse]_E!vars
  BY DEF E!vars, E!router, E!storage, E!calls
<1> HIDE DEF Next, About, Resource, vars, registry_vars, service_vars, host_vars, discovery_vars, cluster_vars, sync_vars, health_vars,
             key_vars, watch_vars, config_vars, resource_vars, event_vars
<1> QED BY <1>1, <1>2, <1>3, <1>4, <1>5, <1>6, <1>7, <1>8, <1>9, PTL
   DEF Spec, H!Spec, D!Spec, D!ClusterSpec, K!Spec, R!Spec, W!Spec, W!ConfigSpec

\* Whatever subscriptions, publications, look-ups and removals overlap, nothing
\* in the host leads into a plugin that was unloaded when it had removed what it
\* registered and nobody was calling it (unload_plugin, manager.rs:1984).
THEOREM UnloadClean == Spec => []CleanUnload
<1>1. H!Spec => []H!CleanUnload
  BY ServicesAssumption, UnloadSafe
<1>2. H!CleanUnload => CleanUnload
  BY DEF CleanUnload
<1> QED BY <1>1, <1>2, Projections, PTL

\* However many threads generate, rotate and revoke keys at once, the key behind
\* an id that was handed out never changes, and a revoked id has no key again
\* (generate_key_id, key_management.rs:255).
THEOREM KeysFixed == Spec => KeyFixed
<1>1. K!Spec => K!KeyFixed
  BY ServicesAssumption, KeysSafe
<1> QED BY <1>1, Projections DEF KeyFixed

\* However many threads register, unregister and clear at once, a name whose own
\* operations never overlapped is in the list of its interface once, in that of a
\* capability as often as its descriptor names it, and in no other, and is
\* discovered exactly so often (register, service_discovery.rs:164).
THEOREM IndicesExact == Spec => []IndexExact
<1>1. DiscoveryAssumption
  BY ServicesAssumption DEF DiscoveryAssumption
<1>2. D!Spec => []D!IndexExact
  BY <1>1, IndicesSafe
<1>3. D!IndexExact => IndexExact
  BY DEF IndexExact
<1> QED BY <1>2, <1>3, Projections, PTL

\* No list of services, however late or repeated, takes an entry of a node back
\* behind what it was (sync_from_remote_services, clustering.rs:324), and
\* health_check gives a node up only after its timeout or when its clock is
\* ahead (is_timed_out, clustering.rs:83).
THEOREM MergesForward == Spec => MergeForward
<1>1. D!ClusterSpec => D!MergeForward /\ D!GivenUp
  BY ServicesAssumption, MergesSafe
<1> QED BY <1>1, Projections DEF MergeForward

\* The arena charges what is allocated and lists it, the pool counts what is
\* borrowed or taken, neither limit is passed by more than one unit for every
\* other caller, and DelayedInitializer::get never returns before the value is
\* there, for any number of threads, any limit and any pool size (memory/
\* arena.rs, memory/pool.rs, PluginCapacityTracker, startup.rs).
THEOREM CountersRight == Spec => []CountersTrue
<1>1. ResourceAssumption
  BY ServicesAssumption DEF ResourceAssumption
<1>2. R!Spec => []R!CountersTrue
  BY <1>1, CountersSafe
<1> QED BY <1>2, Projections, PTL DEF CountersTrue

\* Whatever handlers overlap, a recorded change of a watched file waits in the
\* map or in the queue of a handler until a reload of its plugin follows it; and
\* whatever reloads of a configuration overlap, the map is never older than the
\* file was when they began (process_debounced_changes, plugin_manager/
\* hot_reload.rs; reload_plugin_config, plugin_manager/config/hot_reload.rs).
THEOREM ReloadsHold == Spec => []ReloadsCurrent
<1>1. None \notin Nat
  BY ServicesAssumption
<1>2. W!Spec /\ W!ConfigSpec => []W!ChangeNotLost /\ []W!ConfigCurrent
  BY <1>1, ReloadsSafe
<1> QED BY <1>2, Projections, PTL DEF ReloadsCurrent

\* However many publications, additions and removals overlap, a publication is
\* routed to every subscriber that stays registered and whose filter lets it
\* through, as often as its patterns ask for in the tables that the router's flags
\* enable, and to none that was removed before it and not added again, for any
\* patterns, filters and flags; failed callbacks leave a dead letter while there
\* is room, if dead letters are kept; and a request is answered at most once,
\* whatever responses and clean-ups come (route_event, router.rs:37;
\* handle_response, plugin_comm.rs:125).
THEOREM EventsHold == Spec => []EventsSound
<1>1. EventsAssumption /\ RequestTimeout \in Nat
  BY ServicesAssumption DEF EventsAssumption
<1>2. E!Init /\ [][E!Publication \/ E!RequestResponse]_E!vars => [](E!DeliverySound /\ E!RequestsSettle)
  BY <1>1, EventsSafe
<1>3. E!DeliverySound /\ E!RequestsSettle => EventsSound
  BY DEF EventsSound
<1> QED BY <1>2, <1>3, Projections, PTL
=============================================================================
