---------------------------- MODULE ReloadWatch -----------------------------
(***************************************************************************)
(* The file changes of HotReloadService (plugin_manager/hot_reload.rs).    *)
(* Every change is handled by a task of its own: on_file_changed looks at  *)
(* running, finds the plugin, records the change, and then reloads every   *)
(* plugin whose last change is debounce_ms (Quiet) old.  Other tasks run   *)
(* between any two of its locks.                                           *)
(*                                                                         *)
(* reload_plugin itself is an operation of PluginLifecycle.                *)
(***************************************************************************)
EXTENDS Integers, FiniteSets, Sequences

CONSTANTS Tasks, Plugins, Quiet, MaxNow, None

VARIABLES running, watched,
          pending, \* plugin -> last_seen, None when nothing is pending
          task,    \* what each handler is doing
          now,
          owed     \* history: plugins with a recorded change that no reload has followed

vars == <<running, watched, pending, task, now, owed>>

Idle == [at |-> "idle"]

Init == /\ running = FALSE /\ watched = {}
        /\ pending = [p \in Plugins |-> None]
        /\ task = [t \in Tasks |-> Idle]
        /\ now = 0 /\ owed = {}

watch_plugin(p) == watched' = watched \cup {p} /\ UNCHANGED <<running, pending, task, now, owed>>

unwatch_plugin(p) == watched' = watched \ {p} /\ UNCHANGED <<running, pending, task, now, owed>>

start == /\ ~running /\ running' = TRUE
         /\ UNCHANGED <<watched, pending, task, now, owed>>

\* stop holds the three locks together.
stop == /\ running' = FALSE
        /\ pending' = [p \in Plugins |-> None]
        /\ owed' = {}
        /\ UNCHANGED <<watched, task, now>>

\* on_file_changed: ignored when the service does not run ...
on_file_changed(t) == /\ task[t] = Idle /\ running
                      /\ task' = [task EXCEPT ![t] = [at |-> "find"]]
                      /\ UNCHANGED <<running, watched, pending, now, owed>>

\* ... or when the file is neither watched nor in the directory of a watched one.
FindPlugin(t) == /\ task[t].at = "find"
                 /\ \/ watched = {} /\ task' = [task EXCEPT ![t] = Idle]
                    \/ \E p \in watched : task' = [task EXCEPT ![t] = [at |-> "record", plugin |-> p]]
                 /\ UNCHANGED <<running, watched, pending, now, owed>>

record_pending_change(t) ==
  /\ task[t].at = "record"
  /\ pending' = [pending EXCEPT ![task[t].plugin] = now]
  /\ task' = [task EXCEPT ![t] = [at |-> "clock"]]
  /\ owed' = owed \cup {task[t].plugin}
  /\ UNCHANGED <<running, watched, now>>

\* process_debounced_changes reads the clock before it has the lock.
ReadClock(t) == /\ task[t].at = "clock"
                /\ task' = [task EXCEPT ![t] = [at |-> "process", now |-> now]]
                /\ UNCHANGED <<running, watched, pending, now, owed>>

\* Instant::duration_since is zero when the change is later than the reading.
Ready(t) == {p \in Plugins : pending[p] # None /\ task[t].now - pending[p] >= Quiet}

DrainAll(t) ==
  /\ task[t].at = "process"
  /\ pending' = [p \in Plugins |-> None]
  /\ task' = [task EXCEPT ![t] = [at |-> "reload", queue |-> Ready(t)]]
  /\ UNCHANGED <<running, watched, now, owed>>

process_debounced_changes(t) ==
  /\ task[t].at = "process"
  /\ pending' = [p \in Plugins |-> IF p \in Ready(t) THEN None ELSE pending[p]]
  /\ task' = [task EXCEPT ![t] = [at |-> "reload", queue |-> Ready(t)]]
  /\ UNCHANGED <<running, watched, now, owed>>

\* reload_plugin; its error is logged and the next plugin is taken.
Reload(t) == /\ task[t].at = "reload"
             /\ \/ /\ task[t].queue = {}
                   /\ task' = [task EXCEPT ![t] = Idle]
                   /\ UNCHANGED owed
                \/ \E p \in task[t].queue :
                     /\ task' = [task EXCEPT ![t].queue = @ \ {p}]
                     /\ owed' = IF pending[p] = None THEN owed \ {p} ELSE owed
             /\ UNCHANGED <<running, watched, pending, now>>

Tick == now < MaxNow /\ now' = now + 1 /\ UNCHANGED <<running, watched, pending, task, owed>>

Next == \/ start \/ stop \/ Tick
        \/ \E p \in Plugins : watch_plugin(p) \/ unwatch_plugin(p)
        \/ \E t \in Tasks :
             \/ on_file_changed(t) \/ FindPlugin(t) \/ record_pending_change(t) \/ ReadClock(t)
             \/ process_debounced_changes(t) \/ Reload(t)

Spec == Init /\ [][Next]_vars

-----------------------------------------------------------------------------
\* A recorded change is waiting in the map or in the queue of a handler until
\* a reload of its plugin follows it; overlapping handlers lose none, only
\* stop does.  A waiting change may wait for ever: nothing but another change
\* makes a handler look at it (process_debounced_changes).
ChangeNotLost ==
  \A p \in owed : pending[p] # None
                  \/ \E t \in Tasks : task[t].at = "reload" /\ p \in task[t].queue

-----------------------------------------------------------------------------
(***************************************************************************)
(* ConfigHotReload (plugin_manager/config/hot_reload.rs) for the file of   *)
(* one plugin, whose content is the number of the write.                   *)
(*                                                                         *)
(* notify calls handle_watch_event on its own thread, where tokio::spawn   *)
(* panics for want of a runtime: the first event of an enabled service     *)
(* ends that thread, and nothing ever runs validate_and_reload.  What      *)
(* changes the map is reload_plugin_config, and callers overlap.           *)
(***************************************************************************)

CONSTANTS MaxWrites, Unparsable

VARIABLES disk,    \* content of the file, 0 before the first write
          config,  \* content in the map, 0 when there is none
          reader,  \* what each caller of reload_plugin_config is doing
          enabled, \* reload_config.enabled
          watcher, \* notify's thread: alive or dead
          before,  \* history: content of the file when the reloads under way began with nobody reloading
          shown    \* history: the content that every reload finished so far has followed

config_vars == <<disk, config, reader, enabled, watcher, before, shown>>

ConfigInit == /\ disk = 0 /\ config = 0
              /\ reader = [t \in Tasks |-> Idle]
              /\ enabled \in BOOLEAN /\ watcher = "alive"
              /\ before = 0 /\ shown = 0

WriteFile == /\ disk < MaxWrites /\ disk' = disk + 1
             /\ UNCHANGED <<config, reader, enabled, watcher, before, shown>>

handle_watch_event == /\ disk # 0 /\ watcher = "alive"
                      /\ enabled
                      /\ watcher' = "dead"
                      /\ UNCHANGED <<disk, config, reader, enabled, before, shown>>

\* reload_plugin_config begins when the file exists ...
reload_plugin_config(t) ==
  /\ reader[t] = Idle /\ disk # 0
  /\ reader' = [reader EXCEPT ![t] = [at |-> "read"]]
  /\ before' = IF \A u \in Tasks : reader[u] = Idle THEN disk ELSE before
  /\ UNCHANGED <<disk, config, enabled, watcher, shown>>

\* ... reads it, and returns an error when it does not parse ...
Read(t) == /\ reader[t].at = "read"
           /\ reader' = [reader EXCEPT ![t] = IF disk \in Unparsable THEN Idle ELSE [at |-> "insert", value |-> disk]]
           /\ UNCHANGED <<disk, config, enabled, watcher, before, shown>>

\* ... and puts the content it has read into the map.
Insert(t) == /\ reader[t].at = "insert"
             /\ config' = reader[t].value
             /\ shown' = before
             /\ reader' = [reader EXCEPT ![t] = Idle]
             /\ UNCHANGED <<disk, enabled, watcher, before>>

ConfigNext == \/ WriteFile \/ handle_watch_event
              \/ \E t \in Tasks : reload_plugin_config(t) \/ Read(t) \/ Insert(t)

ConfigSpec == ConfigInit /\ [][ConfigNext]_config_vars

-----------------------------------------------------------------------------
\* Overlapping reloads may put an older content over a newer one, but none from
\* before they all began: once a reload has succeeded, the map is never older
\* than the file was when somebody began to reload and nobody else was at it
\* (reload_plugin_config).
ConfigCurrent == config >= shown
=============================================================================
