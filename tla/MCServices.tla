----------------------------- MODULE MCServices -----------------------------
(***************************************************************************)
(* The registries and services that the host keeps for its plugins.  They  *)
(* share no state: subject says which of them a behaviour is about, the    *)
(* others stand still.  MCSetup extends this module with the setup of      *)
(* plugins.                                                                *)
(***************************************************************************)
EXTENDS Integers, FiniteSets, Sequences, TLC

CONSTANTS Plugins, Topics, Services, Routes, Threads, MaxIds, None,
          Names, Interfaces, Capabilities, Descriptors, MaxEntries,
          Nodes, MaxRegs, MaxTime, Timeout, MaxAge, MaxKeys,
          Quiet, MaxNow, MaxWrites, Unparsable,
          Addresses, Capacity, PoolSize, Word, MaxSteps,
          Publishers, Subscribers, EventTypes, TypesOf, Accepts, Star, Starred, Regexes, Filters, Requests, RequestTimeout, MaxPublished, MaxDead, MaxCached, MaxTick

\* No plugin, interface or address is the mark None; a machine word holds
\* the limit and one more unit for every thread; a descriptor has one
\* of the interfaces; a subscriber has event types.
ASSUME ServicesAssumption ==
  /\ None \notin Plugins /\ None \notin Interfaces /\ None \notin Addresses /\ "all" \notin Names
  /\ \A d \in Descriptors : d.interface \in Interfaces /\ \A k \in Capabilities : d.capabilities[k] \in Nat
  /\ MaxKeys \in Nat /\ MaxTime \in Nat
  /\ IsFiniteSet(Threads) /\ Threads # {}
  /\ Capacity \in Nat /\ PoolSize \in Nat /\ MaxSteps \in Nat /\ Word \in Nat
  /\ Capacity + Cardinality(Threads) <= Word
  /\ None \notin Nat /\ RequestTimeout \in Nat /\ MaxDead \in Nat
  /\ \A s \in Subscribers : /\ TypesOf[s] # <<>> /\ DOMAIN TypesOf[s] = 1..Len(TypesOf[s]) /\ Len(TypesOf[s]) \in Nat

VARIABLES subject,
  loaded, bus, subscriptions, subscribing, ids, services, routes, metadata, snapshot, pointer, unready,
  offers, interface_index, capability_index, pc, target, desc, raced,
  registry, regs, lists, status, beat,
  keys, key_counter, step, fresh, issued, revoked,
  running, watched, pending, task, now, owed,
  disk, config, reader, enabled, watcher, before, shown,
  used, live, table, mine, reused, idle, in_use, out, taken, counted, plugins,
  init, locked, value, initialized, returned, at, steps, reset_live,
  flags, entries, adding, removed, filters, published, stored, cache, dead, errors, pub,
  sent, request, answered, tick

host_vars      == <<loaded, bus, subscriptions, subscribing, ids, services, routes, metadata, snapshot,
                    pointer, unready>>
discovery_vars == <<offers, interface_index, capability_index, pc, target, desc, raced>>
sync_vars      == <<registry, regs, lists>>
health_vars    == <<status, beat>>
cluster_vars   == <<sync_vars, health_vars>>
key_vars       == <<keys, key_counter, step, fresh, issued, revoked>>
watch_vars     == <<running, watched, pending, task, now, owed>>
config_vars    == <<disk, config, reader, enabled, watcher, before, shown>>
resource_vars  == <<used, live, table, mine, reused, idle, in_use, out, taken, counted, plugins,
                    init, locked, value, initialized, returned, at, steps, reset_live>>
event_vars     == <<flags, entries, adding, removed, filters, published, stored, cache, dead, errors, pub,
                    sent, request, answered, tick>>
registry_vars  == <<host_vars, discovery_vars, cluster_vars, key_vars>>
service_vars   == <<watch_vars, config_vars, resource_vars, event_vars>>
vars == <<subject, registry_vars, service_vars>>

\* Values of constants in the runs.  A descriptor names one capability twice,
\* the other both.  Event types 1.2 and 1.3, one subscriber of an exact
\* type, a wildcard and a regular expression, and one whose filter lets 1.2
\* through, with two wildcards that match it; parts 8 ("regex:...") and 9 ("a*").
MCDescriptors == {[interface |-> "i1", capabilities |-> [k1 |-> 2, k2 |-> 0]], [interface |-> "i2", capabilities |-> [k1 |-> 1, k2 |-> 1]]}
MCStar == 0
MCTypesOf == [mixed |-> << <<1, 2>>, <<1, Star>>, <<8, Star>> >>, wild |-> << <<Star, 2>>, <<9, 2>> >>]
MCAccepts == [mixed |-> EventTypes, wild |-> {<<1, 2>>}]
MCEventTypes == {<<1, 2>>, <<1, 3>>}
MCFilters == {<<1, 2>>}

H == INSTANCE HostServices WITH Threads <- Publishers, pending <- subscribing
D == INSTANCE Discovery WITH Callers <- Threads, services <- offers
K == INSTANCE KeyStore WITH Users <- Threads
W == INSTANCE ReloadWatch WITH Tasks <- Threads
R == INSTANCE Resources WITH pc <- at, loaded <- counted
E == INSTANCE Events WITH failures <- errors, pending <- sent, now <- tick, Timeout <- RequestTimeout, MaxNow <- MaxTick

\* Those of MCSetup, in which everything here stands still.
SetupSubjects == {"pipeline", "symbols", "states", "startup", "plugin_config", "config_files", "config_env", "config_layers", "reload",
                  "metrics", "samples", "memory", "settings", "spans"}

Init ==
  /\ subject \in {"host", "discovery", "cluster", "health", "keys", "watch", "config",
                  "arena", "pool", "tracker", "delayed", "events", "requests"} \cup SetupSubjects
  /\ H!Init /\ D!Init /\ D!ClusterInit /\ K!Init
  /\ W!Init /\ W!ConfigInit /\ R!Init /\ E!Init
  /\ subject # "config" => enabled
  /\ subject # "events" => E!OfSystem /\ flags.persist

About(s, others) == subject = s /\ UNCHANGED <<subject, others>>
Resource(s) == About(s, <<registry_vars, watch_vars, config_vars, event_vars>>)

Next ==
  \/ About("host", <<discovery_vars, cluster_vars, key_vars, service_vars>>) /\ H!Next
  \/ About("discovery", <<host_vars, cluster_vars, key_vars, service_vars>>) /\ D!Next
  \/ About("cluster", <<host_vars, discovery_vars, key_vars, service_vars>>) /\ (D!Change \/ D!Exchange)
  \/ About("health", <<host_vars, discovery_vars, key_vars, service_vars>>) /\ D!Health
  \/ About("keys", <<host_vars, discovery_vars, cluster_vars, service_vars>>) /\ K!Next
  \/ About("watch", <<registry_vars, config_vars, resource_vars, event_vars>>) /\ W!Next
  \/ About("config", <<registry_vars, watch_vars, resource_vars, event_vars>>) /\ W!ConfigNext
  \/ Resource("arena") /\ \E t \in Threads : R!Arena(t)
  \/ Resource("pool") /\ \E t \in Threads : R!Pool(t)
  \/ Resource("tracker") /\ \E t \in Threads : R!Tracker(t)
  \/ Resource("delayed") /\ \E t \in Threads : R!Delayed(t)
  \/ About("events", <<registry_vars, watch_vars, config_vars, resource_vars>>) /\ E!Publication
  \/ About("requests", <<registry_vars, watch_vars, config_vars, resource_vars>>) /\ E!RequestResponse

Spec == Init /\ [][Next]_vars

\* No thread is told apart from another, and no plugin.
Symmetry == Permutations(Threads) \cup Permutations(Plugins)

\* Only the cluster, with nodes that keep sending their lists and messages that
\* get through in the end.
ClusterInit == Init /\ subject = "cluster"
ClusterSpec ==
  /\ ClusterInit /\ [][Next]_vars
  /\ \A n, m \in Nodes :
       /\ WF_cluster_vars(D!Send(n))
       /\ SF_cluster_vars(registry[m] \in lists /\ D!sync_from_remote_services(n, registry[m]))

-----------------------------------------------------------------------------
\* HostServices: a plugin that has removed what it registered and that nobody
\* is calling can be unloaded (manager.rs:112, :187, :1984).
CleanUnload == subject = "host" => H!CleanUnload

\* Discovery: a name whose operations never overlapped is in the lists of
\* its descriptor as often as that says (service_discovery.rs:164, :200).
IndexExact == subject = "discovery" => D!IndexExact

\* Discovery: no late or repeated list takes an entry back, and a node is given up
\* only after its timeout, or because its clock is ahead
\* (sync_from_remote_services, clustering.rs:324; is_timed_out, clustering.rs:83).
MergeForward == D!MergeForward /\ D!GivenUp

\* KeyStore: the key behind an id never changes (key_management.rs:255).
KeyFixed == K!KeyFixed

\* Discovery: "Eventual consistency with conflict resolution" (clustering.rs:8).
Converges == D!Converges

\* ReloadWatch: overlapping handlers lose no change of a plugin, and the
\* configuration in the map is not older than the file was before the
\* overlapping reloads of it began (process_debounced_changes,
\* hot_reload.rs:416; reload_plugin_config, config/hot_reload.rs:272).
ReloadsCurrent == W!ChangeNotLost /\ W!ConfigCurrent

\* Resources: what is counted is there (arena.rs, pool.rs, security.rs:337, startup.rs).
CountersTrue == R!CountersTrue

\* Events: a publication reaches those who are registered, and a request is
\* answered once (route_event, events/router.rs:38; handle_response, events/plugin_comm.rs:129).
EventsSound == subject \in {"events", "requests"} => E!DeliverySound /\ E!RequestsSettle
=============================================================================
