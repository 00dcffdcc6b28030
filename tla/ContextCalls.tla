---------------------------- MODULE ContextCalls ----------------------------
(***************************************************************************)
(* What a plugin can call through its PluginContextV2                      *)
(* (plugin_manager/manager.rs): the strings and lists it is given and      *)
(* gives back, the configuration that is loaded for it, the spans of the   *)
(* tracer behind it (abi/src/tracing_mod/span.rs) and what the document of *)
(* its routes says.  The event bus and the router are in HostServices,     *)
(* calls between plugins in PluginHost.                                    *)
(***************************************************************************)
EXTENDS Integers, Sequences, SequencesExt, FiniteSets

CONSTANTS Plugins, Names,
          Routes,       \* [method, path, plugin], a path is a sequence of [word, param], a word of letters
          Contents,     \* of configuration files: [key -> value], or Broken
          SchemaOf,     \* plugin -> <<the contents its schema takes>>, or <<>>
          Keys,
          Values,       \* a plugin may set
          MaxList,      \* MAX_SERVICE_LIST_SIZE
          MaxBlocks, MaxSpans, MaxCalls  \* bounds; calls counts those of Settings and Spans

VARIABLES services,  \* names in the registry all plugins share
          methods,   \* plugin -> names in its own RPC registry
          heap,      \* blocks in use: id -> <<>> for a string, the ids of its strings for a list
          given,     \* plugin -> blocks it has to give back
          refused,   \* history: lists that were too long to be given back
          config,    \* key -> text, where set
          files,     \* plugin -> [data, home, version]
          loading,   \* loads under way, each with the number of its call: what was read, at
                     \* which version of the file, the verdict and whether it is on the same
                     \* version, the keys left to copy, those copied that nobody has written since
          loaded,    \* <<the last load that ended>>, or <<>>
          next_handle, active_spans, spans,
          starting,  \* calls of start_span under way
          started,   \* history: handle -> name
          calls

memory_vars == <<services, methods, heap, given, refused>>
config_vars == <<config, files, loading, loaded>>
span_vars   == <<next_handle, active_spans, starting, spans, started>>
vars == <<memory_vars, config_vars, span_vars, calls>>

Put(f, k, x) == [j \in DOMAIN f \cup {k} |-> IF j = k THEN x ELSE f[j]]
Without(f, ks) == [j \in DOMAIN f \ ks |-> f[j]]
Call == calls < MaxCalls /\ calls' = calls + 1

Missing == [missing |-> TRUE]
Broken == [broken |-> TRUE]
NoFile == [data |-> Missing, home |-> Missing, version |-> 0]

Init == /\ services = {} /\ methods = [p \in Plugins |-> {}] /\ heap = <<>> /\ given = [p \in Plugins |-> {}] /\ refused = {}
        /\ config = <<>> /\ files = [p \in Plugins |-> NoFile] /\ loading = {} /\ loaded = <<>>
        /\ next_handle = 1 /\ active_spans = <<>> /\ starting = {} /\ spans = <<>> /\ started = <<>>
        /\ calls = 0

-----------------------------------------------------------------------------
(* Strings and lists.                                                      *)

Block == 1..MaxBlocks
Free(n) == CHOOSE ids \in SUBSET (Block \ DOMAIN heap) : Cardinality(ids) = n
Room(n) == Cardinality(Block \ DOMAIN heap) >= n

\* CString::into_raw: the plugin has to give it back.
GiveString(p) ==
  /\ Room(1)
  /\ \E id \in Free(1) : heap' = Put(heap, id, <<>>) /\ given' = [given EXCEPT ![p] = @ \cup {id}]

\* An array with a null at its end, and a string for each name.
GiveList(p, names) ==
  LET block == Free(Cardinality(names) + 1)
      list == CHOOSE id \in block : TRUE
  IN  /\ Room(Cardinality(names) + 1)
      /\ heap' = [i \in DOMAIN heap \cup block |->
                    IF i = list THEN SetToSeq(block \ {list}) ELSE IF i \in block THEN <<>> ELSE heap[i]]
      /\ given' = [given EXCEPT ![p] = @ \cup {list}]

\* A text with a null inside cannot be handed out.
Nul == [word |-> "nul"]
config_v2_get(p, k) == /\ Call /\ k \in DOMAIN config
                       /\ IF config[k] = Nul THEN UNCHANGED <<heap, given>> ELSE GiveString(p)
                       /\ UNCHANGED <<services, methods, refused, config_vars, span_vars>>
http_router_v2_get_routes(p) == /\ GiveString(p)
                                /\ UNCHANGED <<services, methods, refused, config_vars, span_vars, calls>>

registry_v2_list_services(p) == /\ services # {} /\ GiveList(p, services)
                                /\ UNCHANGED <<services, methods, refused, config_vars, span_vars, calls>>
\* Only what the plugin registered itself.
rpc_v2_list_services(p) == /\ methods[p] # {} /\ GiveList(p, methods[p])
                           /\ UNCHANGED <<services, methods, refused, config_vars, span_vars, calls>>

\* All three functions for a string are the same.
free_string(p, id) ==
  /\ id \in given[p] /\ heap[id] = <<>>
  /\ heap' = Without(heap, {id}) /\ given' = [given EXCEPT ![p] = @ \ {id}]
  /\ UNCHANGED <<services, methods, refused, config_vars, span_vars, calls>>

\* The plugin counts the strings up to the null.  More than the limit are
\* refused as a whole; the array is taken to have one place more.
CountOf(id) == Len(heap[id])
free_service_list(p, id) ==
  /\ id \in given[p] /\ heap[id] # <<>> /\ id \notin refused
  /\ IF CountOf(id) > MaxList THEN refused' = refused \cup {id} /\ UNCHANGED <<heap, given>>
     ELSE /\ heap' = Without(heap, {id} \cup {heap[id][i] : i \in 1..CountOf(id)})
          /\ given' = [given EXCEPT ![p] = @ \ {id}] /\ UNCHANGED refused
  /\ UNCHANGED <<services, methods, config_vars, span_vars, calls>>

registry_v2_register(n) == /\ services' = services \cup {n}
                           /\ UNCHANGED <<methods, heap, given, refused, config_vars, span_vars, calls>>
registry_v2_unregister(n) == /\ n \in services /\ services' = services \ {n}
                             /\ UNCHANGED <<methods, heap, given, refused, config_vars, span_vars, calls>>
\* Into the registry of the plugin itself.
rpc_v2_register_handler(p, n) == /\ methods' = [methods EXCEPT ![p] = @ \cup {n}]
                                 /\ UNCHANGED <<services, heap, given, refused, config_vars, span_vars, calls>>

\* What the handler allocated is copied and given back by the host at once; the
\* caller gets one string, the result or the error, or none for a result with a
\* null inside.
rpc_v2_call(p) == /\ GiveString(p) \/ UNCHANGED <<heap, given>>
                  /\ UNCHANGED <<services, methods, refused, config_vars, span_vars, calls>>

Memory == \/ \E p \in Plugins : \/ http_router_v2_get_routes(p) \/ rpc_v2_call(p)
                                \/ registry_v2_list_services(p) \/ rpc_v2_list_services(p)
                                \/ \E id \in given[p] : free_string(p, id) \/ free_service_list(p, id)
                                \/ \E n \in Names : rpc_v2_register_handler(p, n)
          \/ \E n \in Names : registry_v2_register(n) \/ registry_v2_unregister(n)

-----------------------------------------------------------------------------
(* Configuration.  A text is a word, an integer, a decimal (in halves) or   *)
(* JSON, and is a record of that one field.                                *)

Is(t, form) == form \in DOMAIN t
get_bool(t) == t \in {[word |-> "true"], [int |-> 1]}
get_int(t) == IF Is(t, "int") THEN t.int ELSE 0
get_float(t) == CASE Is(t, "int") -> 2 * t.int [] Is(t, "decimal") -> t.decimal [] OTHER -> 0
Read(k) == IF k \in DOMAIN config THEN config[k] ELSE [word |-> ""]

\* toml_to_json, and JSON to text: a float without a fraction keeps its point,
\* one that is no number becomes nothing.
TextOf(v) == CASE v.t = "str" -> v.text [] v.t = "int" -> [int |-> v.n] [] v.t = "float" -> [decimal |-> v.x2]
               [] v.t = "bool" -> [word |-> IF v.b THEN "true" ELSE "false"]
               [] v.t = "nan" -> [word |-> ""] [] v.t = "table" -> [json |-> v]

Overwritten(l, k) == [l EXCEPT !.mine = @ \ {k}]
SetKey(k, t) == /\ config' = Put(config, k, t)
                /\ loaded' = [i \in DOMAIN loaded |-> Overwritten(loaded[i], k)]
config_v2_set(k, t) ==
  /\ Call /\ SetKey(k, t) /\ loading' = {Overwritten(l, k) : l \in loading}
  /\ UNCHANGED <<files, memory_vars, span_vars>>

\* The first of two places that has a file; a file that is broken is no reason
\* to look further.
load_plugin_config_from_toml(p) ==
  IF files[p].data # Missing THEN files[p].data ELSE IF files[p].home # Missing THEN files[p].home ELSE <<>>

load_and_validate_config(p) ==
  /\ Call /\ load_plugin_config_from_toml(p) # Broken
  /\ loading' = loading \cup {[id |-> calls, plugin |-> p, read |-> load_plugin_config_from_toml(p), at |-> files[p].version,
                               valid |-> "unknown", same |-> TRUE, left |-> DOMAIN load_plugin_config_from_toml(p),
                               mine |-> {}]}
  /\ UNCHANGED <<config, files, loaded, memory_vars, span_vars>>

\* The file is read again; a plugin without a schema takes anything.
Verdict(p) == SchemaOf[p] = <<>> \/ load_plugin_config_from_toml(p) \in SchemaOf[p][1]
validate_plugin_config(l) ==
  /\ l \in loading /\ l.valid = "unknown" /\ (SchemaOf[l.plugin] = <<>> \/ load_plugin_config_from_toml(l.plugin) # Broken)
  /\ loading' = (loading \ {l}) \cup
       {[l EXCEPT !.valid = IF Verdict(l.plugin) THEN "yes" ELSE "no", !.same = l.at = files[l.plugin].version]}
  /\ UNCHANGED <<config, files, loaded, memory_vars, span_vars, calls>>
\* The plugin is gone, its schema does not compile, or the file is broken by now:
\* the load ends with nothing copied.
ValidationFails(l) ==
  /\ l \in loading /\ l.valid = "unknown" /\ loading' = loading \ {l}
  /\ UNCHANGED <<config, files, loaded, memory_vars, span_vars, calls>>

\* Valid or not, key by key, into what all plugins share.
PopulateKey(l, k) ==
  /\ l \in loading /\ l.valid # "unknown" /\ k \in l.left /\ SetKey(k, TextOf(l.read[k]))
  /\ loading' = {Overwritten(m, k) : m \in loading \ {l}} \cup {[l EXCEPT !.left = @ \ {k}, !.mine = @ \cup {k}]}
  /\ UNCHANGED <<files, memory_vars, span_vars, calls>>
Populated(l) ==
  /\ l \in loading /\ l.valid # "unknown" /\ l.left = {}
  /\ loading' = loading \ {l} /\ loaded' = <<l>>
  /\ UNCHANGED <<config, files, memory_vars, span_vars, calls>>

WriteConfig(p, place, content) ==
  /\ Call /\ files' = [files EXCEPT ![p][place] = content, ![p].version = @ + 1]
  /\ UNCHANGED <<config, loading, loaded, memory_vars, span_vars>>

Settings == \/ \E p \in Plugins : load_and_validate_config(p) \/ \E c \in Contents : WriteConfig(p, "data", c) \/ WriteConfig(p, "home", c)
            \/ \E l \in loading : validate_plugin_config(l) \/ ValidationFails(l) \/ Populated(l) \/ \E k \in l.left : PopulateKey(l, k)
            \/ \E k \in Keys : (\E v \in Values : config_v2_set(k, v)) \/ \E p \in Plugins : config_v2_get(p, k)

-----------------------------------------------------------------------------
(* Spans.  The callbacks of the context start none; the backend does.        *)

tracer_v2_start_span(name) == 1

\* The handle is drawn, the span made and registered, and then kept, under three
\* locks.
start_span(n) ==
  /\ next_handle <= MaxSpans /\ next_handle' = next_handle + 1
  /\ starting' = starting \cup {[handle |-> next_handle, name |-> n, span |-> 0]}
  /\ UNCHANGED <<active_spans, spans, started, memory_vars, config_vars, calls>>
\* SpanBuilder::start: nothing sets a parent.
Build(s) ==
  /\ s \in starting /\ s.span = 0
  /\ spans' = Append(spans, [name |-> s.name, parent |-> 0, ended |-> FALSE, events |-> 0])
  /\ starting' = (starting \ {s}) \cup {[s EXCEPT !.span = Len(spans) + 1]}
  /\ UNCHANGED <<next_handle, active_spans, started, memory_vars, config_vars, calls>>
Keep(s) ==
  /\ s \in starting /\ s.span # 0
  /\ active_spans' = Put(active_spans, s.handle, s.span) /\ starting' = starting \ {s}
  /\ started' = Put(started, s.handle, s.name)
  /\ UNCHANGED <<next_handle, spans, memory_vars, config_vars, calls>>

\* The span is marked and stays with the manager.
end_span(h) ==
  /\ h \in DOMAIN active_spans
  /\ spans' = [spans EXCEPT ![active_spans[h]].ended = TRUE] /\ active_spans' = Without(active_spans, {h})
  /\ UNCHANGED <<next_handle, starting, started, memory_vars, config_vars, calls>>
add_event(h) ==
  /\ Call /\ h \in DOMAIN active_spans
  /\ spans' = [spans EXCEPT ![active_spans[h]].events = @ + 1]
  /\ UNCHANGED <<next_handle, active_spans, starting, started, memory_vars, config_vars>>
manager_active_spans == {i \in DOMAIN spans : ~spans[i].ended}

\* version-trace-span-flags: a child has the trace of its parent, what is parsed
\* has no parent, and any flags but 01 mean not sampled.
root(trace, span) == [trace |-> trace, span |-> span, parent |-> 0, sampled |-> TRUE]
child(c, span) == [trace |-> c.trace, span |-> span, parent |-> c.span, sampled |-> c.sampled]
to_traceparent(c) == <<"00", c.trace, c.span, IF c.sampled THEN "01" ELSE "00">>
from_traceparent(t) == [trace |-> t[2], span |-> t[3], parent |-> 0, sampled |-> t[4] = "01"]

Spans == \/ \E n \in Names : start_span(n)
         \/ \E s \in starting : Build(s) \/ Keep(s)
         \/ \E h \in DOMAIN active_spans : end_span(h) \/ add_event(h)

-----------------------------------------------------------------------------
(* The document of the routes, and what calls answer.                      *)

\* Braces go and separators become underscores, which words may hold as well;
\* the method is not part of it.
operationId(r) == <<r.plugin, "_">> \o FlattenSeq([i \in DOMAIN r.path |-> <<"_">> \o r.path[i].word])
parameters(r) == SelectSeq(r.path, LAMBDA w : w.param)
\* By path, then by method; a later route of the same method takes its place.
get_openapi_spec_json(meta) ==
  [path \in {meta[i].path : i \in DOMAIN meta} |->
     LET of(m) == {i \in DOMAIN meta : meta[i].path = path /\ meta[i].method = m}
         last(is) == CHOOSE i \in is : \A j \in is : j <= i
     IN  [m \in {meta[i].method : i \in {i \in DOMAIN meta : meta[i].path = path}} |->
            [id |-> operationId(meta[last(of(m))]), parameters |-> parameters(meta[last(of(m))])]]]

\* full: the context has its services.  An empty argument is a null pointer.
Guarded(full, arg, result) == IF ~full THEN "ServiceUnavailable" ELSE IF arg = "" THEN "InvalidRequest" ELSE result
\* Nobody need be subscribed for an event to be published.
eventbus_v2_publish(full, event) == Guarded(full, event, "Success")
eventbus_v2_subscribe(full, type) == Guarded(full, type, "Success")
eventbus_v2_unsubscribe(full, type, found) == Guarded(full, type, IF found THEN "Success" ELSE "ServiceUnavailable")
http_router_v2_register_route(full, path, new) ==
  IF ~full \/ path = "" THEN "InvalidRequest" ELSE IF new THEN "Success" ELSE "Error"
http_router_v2_unregister_route(full, path, found) ==
  IF ~full \/ path = "" THEN "InvalidRequest" ELSE IF found THEN "Success" ELSE "ServiceUnavailable"
logger_v2_log(message) == Guarded(TRUE, message, "Success")
\* A type asked for must be the one registered, if there is one.
registry_v2_get(registered, asked) == asked = "" \/ registered \in {"", asked}

Next == Memory \/ Settings \/ Spans
Spec == Init /\ [][Next]_vars

-----------------------------------------------------------------------------
\* Every block the host handed out belongs to exactly one plugin, by itself or in
\* exactly one list, and giving a list back frees all of it; only a list longer
\* than the limit is refused, and then stays whole (manager.rs:1380, 1673).
MemoryReturned ==
  /\ \A id \in DOMAIN heap :
       Cardinality({p \in Plugins : id \in given[p]}) + Cardinality({l \in DOMAIN heap : id \in ToSet(heap[l])}) = 1
  /\ \A p \in Plugins : given[p] \subseteq DOMAIN heap
  /\ \A id \in refused : id \in DOMAIN heap /\ CountOf(id) > MaxList
  /\ \A id \in DOMAIN heap : ToSet(heap[id]) \subseteq DOMAIN heap /\ IsInjective(heap[id])

\* After a load every key of the file holds the value the file had in the type
\* it had, unless another load or the plugin wrote it since; a verdict of valid
\* on the version that was read is right for what was copied (manager.rs:2170).
ConfigPopulated ==
  \A i \in DOMAIN loaded :
    LET l == loaded[i]
    IN  /\ l.left = {} /\ l.mine \subseteq DOMAIN l.read
        /\ l.valid = "yes" /\ l.same /\ SchemaOf[l.plugin] # <<>> => l.read \in SchemaOf[l.plugin][1]
        /\ \A k \in l.mine :
             LET v == l.read[k] IN
               CASE v.t = "bool" -> get_bool(Read(k)) = v.b
                 [] v.t = "int" -> get_int(Read(k)) = v.n /\ get_float(Read(k)) = 2 * v.n
                 [] v.t = "float" -> get_float(Read(k)) = v.x2
                 [] OTHER -> Read(k) = TextOf(v)
        /\ \A k \in DOMAIN l.read \ l.mine :
             \/ Read(k) \in Values
             \/ \E c \in Contents \ {Missing, Broken} : k \in DOMAIN c /\ Read(k) = TextOf(c[k])

\* A handle stands for the span that was started with it, until it is ended;
\* the manager keeps every span, and counts one as active exactly while a handle
\* or a call of start_span holds it (manager.rs:316, span.rs:361).
SpansExact ==
  /\ DOMAIN active_spans \subseteq DOMAIN started /\ 0 \notin DOMAIN started
  /\ \A h \in DOMAIN active_spans : spans[active_spans[h]].name = started[h] /\ ~spans[active_spans[h]].ended
  /\ \A h, g \in DOMAIN active_spans : active_spans[h] = active_spans[g] => h = g
  /\ manager_active_spans = {active_spans[h] : h \in DOMAIN active_spans} \cup {s.span : s \in {s \in starting : s.span # 0}}
  /\ Cardinality(DOMAIN started) + Cardinality({s \in starting : s.span # 0}) = Len(spans)

\* What is written as a traceparent is read as the same trace, span and sampling,
\* and so is its child (span.rs:127).
TraceparentKept ==
  \A trace, a, b \in Names :
    LET c == from_traceparent(to_traceparent(root(trace, a)))
        d == from_traceparent(to_traceparent(child(c, b)))
    IN  c = root(trace, a) /\ d.trace = trace /\ d.span = b /\ d.sampled
        /\ child(c, b).parent = a /\ d.parent = 0

\* The document has one operation for every method of every path, that of the
\* last route registered for it, with its path parameters in order
\* (manager.rs:575).
RoutesDocumented ==
  \A meta \in [1..2 -> Routes] :
    LET doc == get_openapi_spec_json(meta)
        again == meta[1].method = meta[2].method /\ meta[1].path = meta[2].path
    IN  /\ DOMAIN doc = {meta[1].path, meta[2].path}
        /\ \A i \in (IF again THEN {2} ELSE 1..2) :
             LET op == doc[meta[i].path][meta[i].method]
             IN  op.id = operationId(meta[i]) /\ op.parameters = parameters(meta[i])

\* No call answers Success when it did nothing, nor anything else when it did
\* something (manager.rs:1419, 1841).
AnswersTrue ==
  /\ \A full, found \in BOOLEAN, arg \in {"", "x"} :
       \A answer \in {eventbus_v2_unsubscribe(full, arg, found), http_router_v2_register_route(full, arg, found),
                      http_router_v2_unregister_route(full, arg, found)} :
         answer = "Success" <=> full /\ arg # "" /\ found
  /\ \A full \in BOOLEAN, arg \in {"", "x"} :
       \A answer \in {eventbus_v2_publish(full, arg), eventbus_v2_subscribe(full, arg)} :
         answer = "Success" <=> full /\ arg # ""
  /\ \A m \in {"", "x"} : logger_v2_log(m) = "Success" <=> m # ""
  /\ \A t \in {"", "a", "b"} : registry_v2_get(t, t) /\ ~registry_v2_get("a", "b")
  /\ \A n \in Names : tracer_v2_start_span(n) # 0
=============================================================================
