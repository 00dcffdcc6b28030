---------------------------- MODULE PluginMetrics ----------------------------
(***************************************************************************)
(* Metrics of plugins (plugin_manager/metrics): the timers around calls    *)
(* and the metrics each call leaves (plugin_integration.rs), the           *)
(* performance kept per plugin (mod.rs, types.rs), the storage of metrics  *)
(* and its queries (storage.rs) and the collector (collector.rs).  A name  *)
(* is the sequence of its words, labels are a set of pairs.  A metric has  *)
(* the time it was made at, which is before it waits for the storage.      *)
(***************************************************************************)
EXTENDS Integers, Sequences, SequencesExt, FiniteSets, FiniteSetsExt

CONSTANTS Plugins, Operations,
          Customs,       \* metrics that plugins record themselves, [name, kind]
          SampleRate,    \* in hundredths
          Retention,     \* seconds a metric is kept
          MaxCached,     \* max_cache_size
          MaxKept,       \* resource samples a plugin keeps
          SummaryLimit,  \* metrics a summary asks for
          Queries,       \* [plugin, name, start, end, labels], each option a set of at most one
          Limits,        \* of queries
          MaxNow, MaxCalls, MaxEvents  \* bounds: seconds, calls, other operations

VARIABLES plugin_metrics,  \* plugin -> performance, where registered
          timers,     \* [plugin, op] -> start, where a call was timed
          running,    \* calls under way: [plugin, op, id]
          ending,     \* the call whose end holds the timers' lock, or none
          made,       \* batches of metrics on their way to the storage, [id, metrics]
          store,      \* name -> metrics, where one was stored
          cache,      \* [name, count], the least recently used first
          now, calls, events,
          timed,      \* history: plugin -> calls that found their timer
          uncounted,  \* history: plugin -> calls that found none
          base,       \* history: plugin -> calls that had ended when it was registered
          raced,      \* history: plugins (un)registered between a copy and its write
          shared,     \* history: two calls of one operation of a plugin at once
          lost,       \* history: a metric was not sampled or was dropped for its age
          stored_at   \* history: name -> when one was last stored

vars == <<plugin_metrics, timers, running, ending, made, store, cache, now, calls, events,
          timed, uncounted, base, raced, shared, lost, stored_at>>
counts == <<timed, uncounted, base, raced, shared>>
stored_vars == <<store, cache, lost, stored_at>>

Put(f, k, x) == [j \in DOMAIN f \cup {k} |-> IF j = k THEN x ELSE f[j]]
Without(f, k) == [j \in DOMAIN f \ {k} |-> f[j]]

\* min starts as the largest number there is.
Fresh == [total |-> 0, ok |-> 0, failed |-> 0, latency |-> 0, low |-> 1000000, high |-> 0]

Init == /\ plugin_metrics = <<>> /\ timers = <<>> /\ running = {} /\ ending = <<>> /\ made = {}
        /\ store = <<>> /\ cache = <<>> /\ now = 0 /\ calls = 0 /\ events = 0
        /\ timed = [p \in Plugins |-> 0] /\ uncounted = [p \in Plugins |-> 0] /\ base = [p \in Plugins |-> 0]
        /\ raced = {} /\ shared = FALSE /\ lost = FALSE /\ stored_at = <<>>

-----------------------------------------------------------------------------
(* The storage.                                                            *)

Metric(n, kind, v, labels) == [name |-> n, kind |-> kind, value |-> v, at |-> now, labels |-> labels]
Of(p) == {<<"plugin", p>>}

\* Only the metrics of the name that is stored are cleaned up, and the cache
\* never.
Kept(ms) == SelectSeq(ms, LAMBDA m : m.at > now - Retention)
MetricsOf(s, n) == IF n \in DOMAIN s THEN s[n] ELSE <<>>
Stored(s, m) == Put(s, m.name, Kept(Append(MetricsOf(s, m.name), m)))

\* An entry is used by being written; the cache is full at its size.
update_cache(c, m) ==
  LET others == SelectSeq(c, LAMBDA e : e.name # m.name)
      old == SelectSeq(c, LAMBDA e : e.name = m.name)
      full == old = <<>> /\ Len(c) = MaxCached
  IN  Append(IF full THEN Tail(others) ELSE others,
             [name |-> m.name, count |-> IF old = <<>> THEN 1 ELSE old[1].count + 1])

store_batch(ms) ==
  /\ store' = FoldLeft(Stored, store, ms)
  /\ cache' = FoldLeft(update_cache, cache, ms)
  /\ stored_at' = FoldLeft(LAMBDA f, m : Put(f, m.name, now), stored_at, ms)
  /\ lost' = (lost \/ \E i \in DOMAIN ms : \/ ms[i].at <= now - Retention
                                           \/ Kept(MetricsOf(store, ms[i].name)) # MetricsOf(store, ms[i].name))

\* A rate below 1 leaves any of them out.
record_metric(m) ==
  \/ store_batch(<<m>>)
  \/ SampleRate < 100 /\ lost' = TRUE /\ UNCHANGED <<store, cache, stored_at>>

matches_query(m, q) ==
  /\ \A p \in q.plugin : <<"plugin", p>> \in m.labels
  /\ \A t \in q.start : m.at >= t
  /\ \A t \in q.end : m.at <= t
  /\ q.labels \subseteq m.labels

\* A limit cuts off before the sorting, and names come in any order.
Listed(order, q) ==
  FlattenSeq([i \in DOMAIN order |->
    IF \A n \in q.name : n = order[i] THEN SelectSeq(store[order[i]], LAMBDA m : matches_query(m, q)) ELSE <<>>])
query(order, q, limit) ==
  LET all == Listed(order, q)
  IN  SortSeq(SubSeq(all, 1, IF Len(all) < limit THEN Len(all) ELSE limit), LAMBDA a, b : a.at > b.at)
get_latest(n) == IF MetricsOf(store, n) = <<>> THEN {} ELSE {Last(store[n])}

-----------------------------------------------------------------------------
(* What is kept of a plugin, and its summary.                              *)

record_call(perf, ms, success) ==
  [total |-> perf.total + 1, latency |-> perf.latency + ms,
   ok |-> perf.ok + (IF success THEN 1 ELSE 0), failed |-> perf.failed + (IF success THEN 0 ELSE 1),
   low |-> IF ms < perf.low THEN ms ELSE perf.low,
   high |-> IF ms > perf.high THEN ms ELSE perf.high]

\* In hundredths: errors, and an average below 100 ms or 1 s.
health_score(perf) ==
  IF perf.total = 0 THEN 100
  ELSE LET speed == IF perf.latency < 100 * perf.total THEN 10 ELSE IF perf.latency < 1000 * perf.total THEN 7 ELSE 4
       IN  ((100 - ((100 * perf.failed) \div perf.total)) * speed) \div 10

\* A sample is put last, and what is last is cut off.
update_resource_metrics(kept, sample) ==
  LET all == Append(kept, sample) IN SubSeq(all, 1, IF Len(all) > MaxKept THEN MaxKept ELSE Len(all))

\* A metric counts for the first of these words that its name holds, if it is
\* of the right kind.
Class(n) == CASE "total_calls" \in Range(n) -> "total_calls"
              [] "total_calls" \notin Range(n) /\ "successful_calls" \in Range(n) -> "successful_calls"
              [] Range(n) \cap {"total_calls", "successful_calls"} = {} /\ "failed_calls" \in Range(n) -> "failed_calls"
              [] OTHER -> IF "latency_ms" \in Range(n) THEN "latency_ms" ELSE "none"
Values(ms, class) ==
  LET of == SelectSeq(ms, LAMBDA m : Class(m.name) = class /\ m.kind = (IF class = "latency_ms" THEN "gauge" ELSE "counter"))
  IN  [i \in DOMAIN of |-> of[i].value]
Total(vs) == FoldLeft(LAMBDA s, v : s + v, 0, vs)
\* Percentiles of sorted latencies, by position.
Percentile(sorted, n) == IF sorted = <<>> THEN 0 ELSE sorted[((Len(sorted) * n) \div 100) + 1]

ByPlugin(p) == [plugin |-> {p}, name |-> {}, start |-> {}, end |-> {}, labels |-> {}]
get_plugin_summary(order, p) ==
  LET ms == query(order, ByPlugin(p), SummaryLimit)
      latencies == SortSeq(Values(ms, "latency_ms"), <)
      total == Total(Values(ms, "total_calls"))
      failed == Total(Values(ms, "failed_calls"))
  IN  [total |-> total, ok |-> Total(Values(ms, "successful_calls")), failed |-> failed, latencies |-> Len(latencies),
       p50 |-> Percentile(latencies, 50), p95 |-> Percentile(latencies, 95), p99 |-> Percentile(latencies, 99),
       health |-> IF total = 0 THEN 100 ELSE 100 - ((100 * failed) \div total)]

-----------------------------------------------------------------------------
(* Calls.                                                                  *)

\* A second start of the operation takes the place of the first.
record_call_start(p, op) ==
  /\ ending = <<>> /\ calls < MaxCalls
  /\ timers' = Put(timers, [plugin |-> p, op |-> op], now)
  /\ running' = running \cup {[plugin |-> p, op |-> op, id |-> calls]}
  /\ calls' = calls + 1
  /\ shared' = (shared \/ \E c \in running : c.plugin = p /\ c.op = op)
  /\ UNCHANGED <<plugin_metrics, ending, made, stored_vars, now, events, timed, uncounted, base, raced>>

\* The timers stay locked until all is recorded.
record_call_end(c, success) ==
  /\ ending = <<>> /\ c \in running /\ running' = running \ {c}
  /\ LET key == [plugin |-> c.plugin, op |-> c.op]
         ms == 100 * (now - timers[key])
     IN  IF key \in DOMAIN timers
         THEN /\ ending' = <<[plugin |-> c.plugin, success |-> success, ms |-> ms, step |-> "latency", perf |-> Fresh,
                              metric |-> Metric(<<"plugin", c.op, "latency_ms">>, "gauge", ms,
                                                Of(c.plugin) \cup {<<"success", success>>})]>>
              /\ timers' = Without(timers, key)
              /\ timed' = [timed EXCEPT ![c.plugin] = @ + 1] /\ UNCHANGED uncounted
         ELSE uncounted' = [uncounted EXCEPT ![c.plugin] = @ + 1] /\ UNCHANGED <<timers, ending, timed>>
  /\ UNCHANGED <<plugin_metrics, made, stored_vars, now, calls, events, base, raced, shared>>

At(step) == ending # <<>> /\ ending[1].step = step
E == ending[1]
Counter(name) == Metric(<<name>>, "counter", 1, Of(E.plugin))
\* One metric is stored and the next one made.
RecordNext(step, metric) ==
  /\ record_metric(E.metric)
  /\ ending' = <<[E EXCEPT !.step = step, !.metric = metric]>>
  /\ UNCHANGED <<plugin_metrics, timers, running, made, now, calls, events, counts>>
Record == \/ At("latency") /\ RecordNext("total", Counter("total_calls"))
          \/ At("total") /\ RecordNext("outcome", Counter(IF E.success THEN "successful_calls" ELSE "failed_calls"))
          \/ At("outcome") /\ RecordNext("read", E.metric)

\* What was kept of the plugin is copied, changed, and put back, also if the
\* plugin was unregistered meanwhile.
ReadPerformance ==
  /\ At("read")
  /\ ending' = IF E.plugin \notin DOMAIN plugin_metrics THEN <<>>
               ELSE <<[E EXCEPT !.step = "write", !.perf = record_call(plugin_metrics[E.plugin], E.ms, E.success)]>>
  /\ UNCHANGED <<plugin_metrics, timers, running, made, stored_vars, now, calls, events, counts>>
update_plugin_performance ==
  /\ At("write") /\ ending' = <<>>
  /\ plugin_metrics' = Put(plugin_metrics, E.plugin, E.perf)
  /\ UNCHANGED <<timers, running, made, stored_vars, now, calls, events, counts>>

-----------------------------------------------------------------------------
(* Everything else that records or registers.                              *)

Event == events < MaxEvents /\ events' = events + 1
Ending(p) == IF ending # <<>> /\ ending[1].plugin = p THEN 1 ELSE 0
Race(p) == raced' = IF At("write") /\ E.plugin = p THEN raced \cup {p} ELSE raced

register_plugin(p) ==
  /\ Event /\ plugin_metrics' = Put(plugin_metrics, p, Fresh) /\ Race(p)
  /\ base' = [base EXCEPT ![p] = timed[p] - Ending(p)]
  /\ UNCHANGED <<timers, running, ending, made, stored_vars, now, calls, timed, uncounted, shared>>
unregister_plugin(p) ==
  /\ Event /\ p \in DOMAIN plugin_metrics
  /\ plugin_metrics' = Without(plugin_metrics, p) /\ Race(p)
  /\ UNCHANGED <<timers, running, ending, made, stored_vars, now, calls, timed, uncounted, base, shared>>

Make(ms) == /\ Event /\ made' = made \cup {[id |-> events, metrics |-> ms]}
            /\ UNCHANGED <<plugin_metrics, timers, running, ending, stored_vars, now, calls, counts>>
\* increment_counter, set_gauge, record_histogram, and record_custom_metric,
\* whose copy of what is kept of the plugin is dropped unwritten.
record_custom_metric(p, c) == Make(<<Metric(c.name, c.kind, 1, Of(p))>>)
\* Sampled or not, the processor is measured, as 0 if not.
collect_all ==
  LET names == <<"system_cpu_usage_percent", "system_memory_mb", "system_thread_count", "process_file_handles">>
  IN  Make([i \in 1..4 |-> Metric(<<names[i]>>, "gauge", 1, {<<"source", "metrics_collector">>})])

\* What the collector made is stored together, a metric of a plugin if sampled.
StoreMade(b) == /\ made' = made \ {b}
                /\ IF Len(b.metrics) = 1 THEN record_metric(b.metrics[1]) ELSE store_batch(b.metrics)
                /\ UNCHANGED <<plugin_metrics, timers, running, ending, now, calls, events, counts>>
clear == /\ Event /\ store' = <<>> /\ cache' = <<>> /\ stored_at' = <<>> /\ lost' = TRUE
         /\ UNCHANGED <<plugin_metrics, timers, running, ending, made, now, calls, counts>>

Tick == /\ now < MaxNow /\ now' = now + 1
        /\ UNCHANGED <<plugin_metrics, timers, running, ending, made, stored_vars, calls, events, counts>>

Next == \/ \E p \in Plugins : \/ \E op \in Operations : record_call_start(p, op)
                              \/ register_plugin(p) \/ unregister_plugin(p)
                              \/ \E c \in Customs : record_custom_metric(p, c)
        \/ \E c \in running, b \in BOOLEAN : record_call_end(c, b)
        \/ \E b \in made : StoreMade(b)
        \/ Record \/ ReadPerformance \/ update_plugin_performance \/ collect_all \/ clear \/ Tick

Spec == Init /\ [][Next]_vars

-----------------------------------------------------------------------------
\* One of the orders that names may come in.
Order == FoldSet(LAMBDA n, s : Append(s, n), <<>>, DOMAIN store)
\* The plugin itself recorded under a name that counts for its calls.
Interferes(p) == \E n \in {c.name : c \in Customs} \cap DOMAIN store : Class(n) # "none" /\ \E m \in Range(store[n]) : Of(p) \subseteq m.labels
Whole(p) == Len(Listed(Order, ByPlugin(p))) <= SummaryLimit /\ ~Interferes(p)

\* Every call that found its timer is counted once, as a success or as a
\* failure, in what is kept of the plugin since it was registered, and in the
\* storage, and the two agree between calls: unless sampling or age took a
\* metric, the summary is cut off, the plugin records under the same names, or
\* it was registered while its figures were being written; and a timer that is
\* left has its call under way (record_call_end, plugin_integration.rs:31;
\* update_plugin_performance, plugin_integration.rs:66).
CallsCounted ==
  \A p \in Plugins :
    LET s == get_plugin_summary(Order, p)
    IN  /\ ~shared => uncounted[p] = 0
        /\ \A k \in DOMAIN timers : \E c \in running : c.plugin = k.plugin /\ c.op = k.op
        /\ ~Interferes(p) => s.total <= timed[p] /\ s.ok + s.failed <= timed[p] /\ s.latencies <= timed[p]
        /\ s.p50 <= s.p95 /\ s.p95 <= s.p99
        /\ ~lost /\ Whole(p) =>
             /\ timed[p] - Ending(p) <= s.ok + s.failed /\ s.ok + s.failed <= s.total
             /\ s.total <= s.latencies /\ s.health \in 0..100
        /\ p \in DOMAIN plugin_metrics =>
             LET perf == plugin_metrics[p]
             IN  /\ perf.total = perf.ok + perf.failed /\ health_score(perf) \in 0..100
                 /\ perf.total > 0 => perf.low * perf.total <= perf.latency /\ perf.latency <= perf.high * perf.total
                 /\ p \notin raced => perf.total = timed[p] - base[p] - Ending(p)
                 /\ ~lost /\ Whole(p) /\ p \notin raced /\ base[p] = 0 /\ ending = <<>> =>
                      perf.total = s.total /\ perf.ok = s.ok /\ perf.failed = s.failed

\* When a metric was stored none of its name was older than the retention; a
\* query lists every metric that matches, the newest first, one with a limit as
\* many as there are below it; the cache keeps its size and the name stored last,
\* and while it holds a name not fewer metrics than the storage, unless it was
\* full (store, storage.rs:31; query, storage.rs:60; update_cache,
\* storage.rs:117).
StorageOrdered ==
  /\ \A n \in DOMAIN store : \A m \in Range(store[n]) : m.at > stored_at[n] - Retention
  /\ \A q \in Queries, limit \in Limits :
       LET all == query(Order, q, 1000)
           some == query(Order, q, limit)
       IN  /\ Range(all) = {m \in UNION {Range(store[n]) : n \in DOMAIN store} :
                              matches_query(m, q) /\ \A n \in q.name : n = m.name}
           /\ \A i \in 1..(Len(all) - 1) : all[i].at >= all[i + 1].at
           /\ Range(some) \subseteq Range(all) /\ Len(some) = IF Len(all) < limit THEN Len(all) ELSE limit
  /\ Len(cache) <= MaxCached
  /\ cache # <<>> => \A n \in DOMAIN stored_at : stored_at[n] <= stored_at[Last(cache).name]
  /\ Len(cache) < MaxCached => \A n \in DOMAIN store : \E e \in Range(cache) : e.name = n /\ e.count >= Len(store[n])

\* Of the samples of a plugin the first are kept (types.rs:207).
SamplesKept == \A n \in 0..(MaxKept + 1) :
  FoldLeft(update_resource_metrics, <<>>, [i \in 1..n |-> i]) = [i \in 1..(IF n < MaxKept THEN n ELSE MaxKept) |-> i]
=============================================================================
