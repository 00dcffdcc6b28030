----------------------------- MODULE PluginHost -----------------------------
(***************************************************************************)
(* PluginManager (src/plugin_manager/manager.rs) and the registries        *)
(* through which plugins are reached: the global RPC registry              *)
(* (rpc_global.rs, abi/src/rpc.rs) and the shared service registry.        *)
(*                                                                         *)
(* An instance is one AbiV2PluginLoader, that is one open library, with    *)
(* the context (PluginResources) its init was given.  A load runs in       *)
(* steps: open, init, register the RPC handlers, publish under both write  *)
(* locks.  Unloading is one step, because both locks are held.  The epoch  *)
(* collector closes the library at some later moment; RPC calls hold no    *)
(* epoch guard (only the readers of configuration schemas do, and these    *)
(* keep the read lock as well).                                            *)
(***************************************************************************)
EXTENDS Naturals, Sequences, FiniteSets

CONSTANTS Names,      \* plugin names
          Instances,  \* loader values, one per successful open
          Services,   \* names of RPC handlers and services
          Tasks,      \* tasks that load plugins
          Callers,    \* threads inside GlobalRpcRegistry::call
          None

ASSUME HostAssumption ==
  /\ None \notin Instances /\ None \notin Services /\ None \notin Names

VARIABLES
  loaded,     \* loaded_plugins_v2
  resources,  \* plugin_resources
  rpc,        \* GlobalRpcRegistry.registries, in order of registration
  services,   \* PluginServiceRegistryBackend: the instance that owns the pointer
  offers,     \* of each instance: the RPC handlers its init registered
  life,       \* of each instance's library
  contexts,   \* instances whose PluginResources are allocated
  pc,         \* where each load is
  name,       \* the plugin it loads
  inst,       \* the loader it holds
  calling,    \* the service each caller asks for
  todo,       \* the rest of its snapshot of the registries
  at,         \* the instance whose handler it runs
  gone        \* history: instances unloaded or replaced before the call began

maps  == <<loaded, resources>>
load  == <<pc, name, inst>>
calls == <<calling, todo, at, gone>>
vars  == <<maps, rpc, services, offers, life, contexts, load, calls>>

Optional(S) == S \cup {None}

TypeOK ==
  /\ loaded \in [Names -> Optional(Instances)]
  /\ resources \in [Names -> Optional(Instances)]
  /\ rpc \in Seq(Instances)
  /\ services \in [Services -> Optional(Instances)]
  /\ offers \in [Instances -> SUBSET Services]
  /\ life \in [Instances -> {"new", "open", "retired", "closed"}]
  /\ contexts \subseteq Instances
  /\ pc \in [Tasks -> {"idle", "opened", "initialized", "registered"}]
  /\ name \in [Tasks -> Optional(Names)]
  /\ inst \in [Tasks -> Optional(Instances)]
  /\ \A t \in Tasks : (inst[t] = None <=> pc[t] = "idle") /\ (name[t] = None <=> pc[t] = "idle")
  /\ calling \in [Callers -> Optional(Services)]
  /\ todo \in [Callers -> Seq(Instances)]
  /\ at \in [Callers -> Optional(Instances)]
  /\ gone \in [Callers -> SUBSET Instances]

Init ==
  /\ loaded = [n \in Names |-> None]
  /\ resources = [n \in Names |-> None]
  /\ rpc = <<>>
  /\ services = [s \in Services |-> None]
  /\ offers = [i \in Instances |-> {}]
  /\ life = [i \in Instances |-> "new"]
  /\ contexts = {}
  /\ pc = [t \in Tasks |-> "idle"]
  /\ name = [t \in Tasks |-> None]
  /\ inst = [t \in Tasks |-> None]
  /\ calling = [c \in Callers |-> None]
  /\ todo = [c \in Callers |-> <<>>]
  /\ at = [c \in Callers |-> None]
  /\ gone = [c \in Callers |-> {}]

-----------------------------------------------------------------------------
(* load_plugin_instance_v2.                                                *)

EndLoad(t) ==
  /\ pc' = [pc EXCEPT ![t] = "idle"]
  /\ name' = [name EXCEPT ![t] = None]
  /\ inst' = [inst EXCEPT ![t] = None]

\* AbiV2PluginLoader::load opens the library (a failure changes nothing).
Open(t, n, i) ==
  /\ pc[t] = "idle" /\ life[i] = "new"
  /\ life' = [life EXCEPT ![i] = "open"]
  /\ pc' = [pc EXCEPT ![t] = "opened"]
  /\ name' = [name EXCEPT ![t] = n]
  /\ inst' = [inst EXCEPT ![t] = i]
  /\ UNCHANGED <<maps, rpc, services, offers, contexts, calls>>

\* get_info or get_capabilities fails: the loader is dropped.
Reject(t) ==
  /\ pc[t] = "opened"
  /\ life' = [life EXCEPT ![inst[t]] = "closed"]
  /\ EndLoad(t)
  /\ UNCHANGED <<maps, rpc, services, offers, contexts, calls>>

\* PluginServiceRegistryBackend::register, called by the plugin's init.
Publish(i, S) ==
  services' = [s \in Services |-> IF s \in S THEN i ELSE services[s]]

\* create_plugin_context_v2, then plugin_init_v2, which registers handlers in
\* the plugin's own RpcRegistry and services in the shared registry.
InitPlugin(t) ==
  /\ pc[t] = "opened"
  /\ contexts' = contexts \cup {inst[t]}
  /\ \E S \in SUBSET Services : Publish(inst[t], S) /\ offers' = [offers EXCEPT ![inst[t]] = S]
  /\ pc' = [pc EXCEPT ![t] = "initialized"]
  /\ UNCHANGED <<maps, rpc, life, name, inst, calls>>

\* init fails after it registered some of its services: context and loader
\* are dropped, what it put in the shared registry stays.
InitPluginFails(t) ==
  /\ pc[t] = "opened"
  /\ \E S \in SUBSET Services : Publish(inst[t], S)
  /\ life' = [life EXCEPT ![inst[t]] = "closed"]
  /\ EndLoad(t)
  /\ UNCHANGED <<maps, rpc, offers, contexts, calls>>

RegisterRpcLate(t) ==
  /\ pc[t] = "initialized"
  /\ pc' = [pc EXCEPT ![t] = "registered"]
  /\ UNCHANGED <<maps, rpc, services, offers, life, contexts, name, inst, calls>>

\* GlobalRpcRegistry::register_plugin appends; nothing ever removes.
RegisterRpc(t) ==
  /\ pc[t] = "initialized"
  /\ rpc' = Append(rpc, inst[t])
  /\ pc' = [pc EXCEPT ![t] = "registered"]
  /\ UNCHANGED <<maps, services, offers, life, contexts, name, inst, calls>>

\* A loader taken out of the map is handed to the epoch collector, its
\* PluginResources are dropped at once.
Retire(i) ==
  life' = [life EXCEPT ![i] = "retired"]

InsertLeaky(t) ==
  /\ pc[t] = "registered"
  /\ loaded' = [loaded EXCEPT ![name[t]] = inst[t]]
  /\ resources' = [resources EXCEPT ![name[t]] = inst[t]]
  /\ contexts' = contexts \ {resources[name[t]]}
  /\ EndLoad(t)
  /\ UNCHANGED <<rpc, services, offers, life, calls>>

\* Both inserts under both write locks; a replaced entry is dropped.
Insert(t) ==
  /\ pc[t] = "registered"
  /\ loaded' = [loaded EXCEPT ![name[t]] = inst[t]]
  /\ resources' = [resources EXCEPT ![name[t]] = inst[t]]
  /\ IF loaded[name[t]] = None THEN UNCHANGED life ELSE Retire(loaded[name[t]])
  /\ contexts' = contexts \ {resources[name[t]]}
  /\ EndLoad(t)
  /\ UNCHANGED <<rpc, services, offers, calls>>

\* unload_plugin (and each step of shutdown_all).
Unload(n) ==
  /\ loaded[n] # None
  /\ loaded' = [loaded EXCEPT ![n] = None]
  /\ Retire(loaded[n])
  /\ resources' = [resources EXCEPT ![n] = None]
  /\ contexts' = contexts \ {resources[n]}
  /\ UNCHANGED <<rpc, services, offers, load, calls>>

\* crossbeam-epoch runs the deferred drop of the loader: dlclose.
Collect(i) ==
  /\ life[i] = "retired"
  /\ life' = [life EXCEPT ![i] = "closed"]
  /\ UNCHANGED <<maps, rpc, services, offers, contexts, load, calls>>

-----------------------------------------------------------------------------
(* GlobalRpcRegistry::call, from the HTTP handler or from a plugin.        *)

\* The list is cloned under the mutex; the calls run without it.
CallBegin(c, s) ==
  /\ calling[c] = None
  /\ calling' = [calling EXCEPT ![c] = s]
  /\ todo' = [todo EXCEPT ![c] = rpc]
  /\ gone' = [gone EXCEPT ![c] = {i \in Instances : life[i] \in {"retired", "closed"}}]
  /\ UNCHANGED <<maps, rpc, services, offers, life, contexts, load, at>>

CallEnd(c) ==
  /\ calling' = [calling EXCEPT ![c] = None]
  /\ todo' = [todo EXCEPT ![c] = <<>>]
  /\ gone' = [gone EXCEPT ![c] = {}]

\* RpcRegistry::call clones the handler of the next registry that has one.
CallTry(c) ==
  /\ calling[c] # None /\ at[c] = None /\ todo[c] # <<>>
  /\ IF calling[c] \in offers[Head(todo[c])]
     THEN at' = [at EXCEPT ![c] = Head(todo[c])]
     ELSE UNCHANGED at
  /\ todo' = [todo EXCEPT ![c] = Tail(@)]
  /\ UNCHANGED <<maps, rpc, services, offers, life, contexts, load, calling, gone>>

\* No registry is left: Err(ServiceUnavailable).
CallNotFound(c) ==
  /\ calling[c] # None /\ at[c] = None /\ todo[c] = <<>>
  /\ CallEnd(c)
  /\ UNCHANGED <<maps, rpc, services, offers, life, contexts, load, at>>

\* The handler answers, with a result or with an error.
CallAnswered(c) ==
  /\ at[c] # None
  /\ at' = [at EXCEPT ![c] = None]
  /\ CallEnd(c)
  /\ UNCHANGED <<maps, rpc, services, offers, life, contexts, load>>

CallUnavailableRetries(c) ==
  /\ at[c] # None
  /\ at' = [at EXCEPT ![c] = None]
  /\ todo' = [todo EXCEPT ![c] = <<at[c]>> \o @]
  /\ UNCHANGED <<maps, rpc, services, offers, life, contexts, load, calling, gone>>

\* A handler that itself answers ServiceUnavailable reads as "not here".
CallUnavailable(c) ==
  /\ at[c] # None
  /\ at' = [at EXCEPT ![c] = None]
  /\ UNCHANGED <<maps, rpc, services, offers, life, contexts, load, calling, todo, gone>>

CallStep(c) == CallTry(c) \/ CallNotFound(c) \/ CallAnswered(c) \/ CallUnavailable(c)

Next ==
  \/ \E t \in Tasks, n \in Names, i \in Instances : Open(t, n, i)
  \/ \E t \in Tasks : \/ Reject(t) \/ InitPlugin(t) \/ InitPluginFails(t)
                      \/ RegisterRpc(t) \/ Insert(t)
  \/ \E n \in Names : Unload(n)
  \/ \E i \in Instances : Collect(i)
  \/ \E c \in Callers, s \in Services : CallBegin(c, s)
  \/ \E c \in Callers : CallStep(c)

Spec == Init /\ [][Next]_vars

\* A caller's thread runs on and handlers return; nobody has to load, unload
\* or collect.
FairSpec == Spec /\ \A c \in Callers : WF_vars(CallStep(c))

-----------------------------------------------------------------------------
(* Properties.                                                             *)

Loading(S) == {inst[t] : t \in {u \in Tasks : pc[u] \in S}}

\* Whatever loads and unloads race, also of one name: an open library is in
\* the map under one name or in the hands of the task that loads it (nothing
\* else would ever close it), and the allocated contexts are exactly those of
\* the map's plugins and of the loads past init: none leaks, and no loaded
\* plugin runs on a freed context.
Accounted ==
  /\ {i \in Instances : life[i] = "open"} =
        ({loaded[n] : n \in Names} \ {None}) \cup Loading({"opened", "initialized", "registered"})
  /\ contexts = ({resources[n] : n \in Names} \ {None}) \cup Loading({"initialized", "registered"})
  /\ resources = loaded
  /\ \A m, n \in Names : loaded[m] = loaded[n] /\ loaded[m] # None => m = n

\* A plugin is in the RPC registry before it is listed as loaded, so a caller
\* that sees it loaded can call it.
LoadedIsCallable ==
  \A n \in Names : loaded[n] # None => \E k \in DOMAIN rpc : rpc[k] = loaded[n]

\* A call ends, although plugins are registered and unregistered meanwhile
\* and a handler may pass the request on by answering ServiceUnavailable.
CallsEnd == \A c \in Callers : calling[c] # None ~> calling[c] = None

\* PLUGIN_CONTRACT.md, unload sequence: "Engine waits for in-flight requests
\* to complete" before it unloads the binary.
InFlightSafe ==
  \A c \in Callers :
    at[c] # None /\ at[c] \notin gone[c] => life[at[c]] # "closed"

\* PLUGIN_CONTRACT.md, unload sequence: "Engine stops sending new requests":
\* a call that begins after a plugin was unloaded or replaced does not run it.
NoStaleDispatch == \A c \in Callers : at[c] # None => at[c] \notin gone[c]

\* manager.rs, unload_plugin "properly cleans up all resources allocated during
\* plugin initialization": no service pointer is left to a plugin that was
\* taken out of the map.
ServicesWithdrawn ==
  \A s \in Services : services[s] # None => life[services[s]] # "retired"
=============================================================================
