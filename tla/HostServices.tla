---------------------------- MODULE HostServices ----------------------------
(***************************************************************************)
(* What plugins leave with the host through PluginContextV2, and what the  *)
(* host calls back: the event bus (TypedEventBus of abi/src/lib.rs under   *)
(* PluginEventBusBackend of plugin_manager/manager.rs), the service        *)
(* registry and the HTTP routes.  Everything is a pointer into the         *)
(* plugin's library, and unload_plugin takes the library away.             *)
(***************************************************************************)
EXTENDS Naturals, FiniteSets

CONSTANTS Plugins,
          Topics,      \* event types, "*" among them
          Services,    \* service names
          Routes,      \* "METHOD:path"
          Threads,     \* that publish and look services up
          MaxIds,      \* bound: subscriptions ever made
          None

VARIABLES
  loaded,       \* plugins whose library is in memory
  bus,          \* TypedEventBus.inner: the subscribers
  subscriptions,\* PluginEventBusBackend.subscriptions
  pending,      \* on the bus and not in the list yet: subscribe has not returned
  ids,          \* id_counter
  services,     \* name -> the plugin its pointer leads into
  routes,       \* key -> the plugin that registered it
  metadata,     \* keys in route_metadata
  snapshot,     \* thread -> the subscribers publish has still to call
  pointer,      \* thread -> the plugin a service pointer it got leads into
  unready       \* history: plugins unloaded while the host still referred to them

vars == <<loaded, bus, subscriptions, pending, ids, services, routes, metadata, snapshot, pointer, unready>>

Registrations == [id : 1..MaxIds, topic : Topics, owner : Plugins]

TypeOK ==
  /\ loaded \subseteq Plugins /\ unready \subseteq Plugins \ loaded
  /\ bus \subseteq Registrations /\ subscriptions \subseteq bus /\ pending \subseteq bus
  /\ services \in [Services -> Plugins \cup {None}]
  /\ metadata = {r \in Routes : routes[r] # None}
  /\ snapshot \in [Threads -> SUBSET Registrations]

Init ==
  /\ loaded = Plugins /\ unready = {}
  /\ bus = {} /\ subscriptions = {} /\ pending = {} /\ ids = 0
  /\ services = [n \in Services |-> None]
  /\ routes = [r \in Routes |-> None] /\ metadata = {}
  /\ snapshot = [t \in Threads |-> {}]
  /\ pointer = [t \in Threads |-> None]

-----------------------------------------------------------------------------
(* The event bus.                                                          *)

\* PluginEventBusBackend::subscribe: first on the bus ...
BusSubscribe(p, e) ==
  /\ p \in loaded /\ ids < MaxIds
  /\ ids' = ids + 1
  /\ bus' = bus \cup {[id |-> ids + 1, topic |-> e, owner |-> p]}
  /\ pending' = pending \cup (bus' \ bus)
  /\ UNCHANGED <<loaded, subscriptions, services, routes, metadata, snapshot, pointer, unready>>

\* ... then in the list, so that unsubscribe finds it.
ListSubscription(s) ==
  /\ s \in pending /\ s.owner \in loaded
  /\ subscriptions' = subscriptions \cup {s}
  /\ pending' = pending \ {s}
  /\ UNCHANGED <<loaded, bus, ids, services, routes, metadata, snapshot, pointer, unready>>

UnsubscribeKeepsBus(e) ==
  /\ subscriptions' = {s \in subscriptions : s.topic # e}
  /\ UNCHANGED <<loaded, bus, pending, ids, services, routes, metadata, snapshot, pointer, unready>>

\* Every subscription to the topic that is in the list goes, whoever owns it.
unsubscribe(e) ==
  /\ subscriptions' = {s \in subscriptions : s.topic # e}
  /\ bus' = bus \ {s \in subscriptions : s.topic = e}
  /\ UNCHANGED <<loaded, pending, ids, services, routes, metadata, snapshot, pointer, unready>>

\* The handlers of the topic and those of "*" are copied under the lock ...
publish(t, e) ==
  /\ snapshot[t] = {}
  /\ snapshot' = [snapshot EXCEPT ![t] = {s \in bus : s.topic \in {e, "*"}}]
  /\ UNCHANGED <<loaded, bus, subscriptions, pending, ids, services, routes, metadata, pointer, unready>>

\* Those of "*" come last, otherwise the order is that of subscription.
Before(r, s) == IF (r.topic = "*") = (s.topic = "*") THEN r.id < s.id ELSE s.topic = "*"
First(t, s) == s \in snapshot[t] /\ \A r \in snapshot[t] \ {s} : Before(s, r)

\* ... and called after it, one by one.
Deliver(t, s) ==
  /\ First(t, s)
  /\ snapshot' = [snapshot EXCEPT ![t] = @ \ {s}]
  /\ UNCHANGED <<loaded, bus, subscriptions, pending, ids, services, routes, metadata, pointer, unready>>

-----------------------------------------------------------------------------
(* Services and routes.                                                    *)

\* A service of that name is replaced, whoever registered it.
register(p, n) ==
  /\ p \in loaded
  /\ services' = [services EXCEPT ![n] = p]
  /\ UNCHANGED <<loaded, bus, subscriptions, pending, ids, routes, metadata, snapshot, pointer, unready>>

get(t, n) ==
  /\ pointer[t] = None /\ services[n] # None
  /\ pointer' = [pointer EXCEPT ![t] = services[n]]
  /\ UNCHANGED <<loaded, bus, subscriptions, pending, ids, services, routes, metadata, snapshot, unready>>

\* The thread calls through the pointer and drops it.
UsePointer(t) ==
  /\ pointer[t] # None
  /\ pointer' = [pointer EXCEPT ![t] = None]
  /\ UNCHANGED <<loaded, bus, subscriptions, pending, ids, services, routes, metadata, snapshot, unready>>

unregister(n) ==
  /\ services' = [services EXCEPT ![n] = None]
  /\ UNCHANGED <<loaded, bus, subscriptions, pending, ids, routes, metadata, snapshot, pointer, unready>>

register_route(p, r) ==
  /\ p \in loaded /\ routes[r] = None
  /\ routes' = [routes EXCEPT ![r] = p] /\ metadata' = metadata \cup {r}
  /\ UNCHANGED <<loaded, bus, subscriptions, pending, ids, services, snapshot, pointer, unready>>

\* Both locks are held over both changes.
unregister_route(r) ==
  /\ routes' = [routes EXCEPT ![r] = None] /\ metadata' = metadata \ {r}
  /\ UNCHANGED <<loaded, bus, subscriptions, pending, ids, services, snapshot, pointer, unready>>

-----------------------------------------------------------------------------
\* What a plugin can know of and clean up before it goes: its entries in the list,
\* the registry and the routes, its own calls, and calls into it.
Known(p) ==
  \/ \E s \in subscriptions \cup pending : s.owner = p
  \/ \E n \in Services : services[n] = p
  \/ \E r \in Routes : routes[r] = p
  \/ \E t \in Threads : pointer[t] = p \/ \E s \in snapshot[t] : s.owner = p

\* unload_plugin removes nothing of what the plugin left with the host.
Unload(p) ==
  /\ p \in loaded
  /\ loaded' = loaded \ {p}
  /\ unready' = IF Known(p) THEN unready \cup {p} ELSE unready
  /\ UNCHANGED <<bus, subscriptions, pending, ids, services, routes, metadata, snapshot, pointer>>

Next ==
  \/ \E p \in Plugins, e \in Topics : BusSubscribe(p, e)
  \/ \E s \in pending : ListSubscription(s)
  \/ \E e \in Topics : unsubscribe(e) \/ \E t \in Threads : publish(t, e)
  \/ \E t \in Threads : UsePointer(t) \/ (\E s \in snapshot[t] : Deliver(t, s)) \/ \E n \in Services : get(t, n)
  \/ \E p \in Plugins : Unload(p) \/ (\E n \in Services : register(p, n)) \/ \E r \in Routes : register_route(p, r)
  \/ \E n \in Services : unregister(n)
  \/ \E r \in Routes : unregister_route(r)

Spec == Init /\ [][Next]_vars

-----------------------------------------------------------------------------
(* Properties.                                                             *)

\* Something the host may still call or hand out leads into p.
Reachable(p) ==
  \/ \E s \in bus \cup subscriptions \cup UNION {snapshot[t] : t \in Threads} : s.owner = p
  \/ \E n \in Services : services[n] = p
  \/ \E r \in Routes : routes[r] = p
  \/ \E t \in Threads : pointer[t] = p

\* A plugin that has removed what it registered, and that nobody is calling, can
\* be unloaded: nothing in the host leads into it any more, in whatever order
\* subscriptions, publications, look-ups and removals came.
CleanUnload == \A p \in Plugins \ (loaded \cup unready) : ~Reachable(p)
=============================================================================
