--------------------------- MODULE PluginLifecycle ---------------------------
(***************************************************************************)
(* The PluginLifecycleManager of src/plugin_manager/lifecycle.rs, the hot  *)
(* reload sequence of src/plugin_manager/hot_reload.rs that drives it, and *)
(* the shutdown of src/main.rs that runs next to both.                     *)
(*                                                                         *)
(* Every operation is an async function that takes the locks it needs      *)
(* section by section and drops them in between, so callers ("tasks")      *)
(* interleave at section boundaries: one action is one section.  The       *)
(* PluginManager is reduced to the names it has loaded; PluginHost looks   *)
(* inside it.  PluginState.dependencies is empty in every constructor of   *)
(* lifecycle.rs, so the dependency checks never fire and are left out.     *)
(***************************************************************************)
EXTENDS Naturals, FiniteSets

CONSTANTS Plugins,    \* plugin ids
          Versions,   \* versions an artifact may have
          Unknown,    \* version of a plugin loaded at startup: "unknown"
          Temp,       \* the "download-<seconds>" id of install_from_url
          Tasks,      \* concurrent callers of the lifecycle manager
          Wired,      \* set_plugin_manager was called (main.rs does)
          Exclusive   \* callers serialise the operations on one plugin

ASSUME LifecycleAssumption ==
  /\ Unknown \notin Versions
  /\ Temp \notin Plugins
  /\ Wired \in BOOLEAN /\ Exclusive \in BOOLEAN

Keys    == Plugins \cup {Temp}
AnyVer  == Versions \cup {Unknown}
Statuses == {"Downloading", "Installed", "Activating", "Active", "Deactivating",
             "Deactivated", "Uninstalling", "Error", "absent"}
Ops    == {"none", "install", "activate", "deactivate", "uninstall", "reload", "rollback"}
Labels == {"idle", "i_fetch", "i_extract", "i_register",
           "a_check", "a_mark", "a_find", "a_load", "a_active", "a_error",
           "d_check", "d_mark", "d_unload", "d_done",
           "u_check", "u_mark", "u_files", "u_registry", "u_entry", "r_serialize"}

VARIABLES
  status,    \* plugins map: status of the entry, "absent" without an entry
  version,   \* plugins map: version of the entry (and so its install_path)
  disk,      \* install directories that hold a plugin binary
  registry,  \* LocalRegistry: name:version keys
  loaded,    \* names in PluginManager::loaded_plugins_v2
  op, pc,    \* each task's operation and the section it runs next
  target,    \* the plugin it works on
  ver,       \* the version (install_path) it captured
  host,      \* run_server: "running", "unloading" or "exited"
  remaining  \* shutdown_all: names still to unload

entry == <<status, version>>
files == <<disk, registry>>
task  == <<op, pc, target, ver>>
server == <<host, remaining>>
vars  == <<entry, files, loaded, task, server>>

Busy(t) == pc[t] # "idle"

TypeOK ==
  /\ status \in [Keys -> Statuses]
  /\ version \in [Keys -> AnyVer]
  /\ disk \subseteq Keys \X AnyVer
  /\ registry \subseteq Keys \X AnyVer
  /\ loaded \subseteq Plugins
  /\ op \in [Tasks -> Ops]
  /\ pc \in [Tasks -> Labels]
  /\ target \in [Tasks -> Keys]
  /\ ver \in [Tasks -> AnyVer]
  /\ \A t \in Tasks : Busy(t) <=> op[t] # "none"
  /\ \A t \in Tasks : target[t] = Temp <=> pc[t] \in {"idle", "i_fetch"}
  /\ host \in {"running", "unloading", "exited"}
  /\ remaining \subseteq Plugins

\* run_server loads plugins at startup and registers each as Active with the
\* path <plugins dir>/<name>, whether or not that directory exists.
Init ==
  /\ loaded \in SUBSET Plugins
  /\ status = [k \in Keys |-> IF k \in loaded THEN "Active" ELSE "absent"]
  /\ version = [k \in Keys |-> Unknown]
  /\ disk \in SUBSET {<<p, Unknown>> : p \in loaded}
  /\ registry = {}
  /\ op = [t \in Tasks |-> "none"] /\ pc = [t \in Tasks |-> "idle"]
  /\ target = [t \in Tasks |-> Temp] /\ ver = [t \in Tasks |-> Unknown]
  /\ host = "running" /\ remaining = {}

-----------------------------------------------------------------------------
(* Steps of a task.                                                        *)

Goto(t, l) == pc' = [pc EXCEPT ![t] = l]

\* if let Some(state) = plugins.get_mut(id) { state.status = s }
SetStatus(k, s) ==
  status' = [status EXCEPT ![k] = IF @ = "absent" THEN "absent" ELSE s]

\* The operation returns to its caller.
Finish(t) ==
  /\ Goto(t, "idle")
  /\ target' = [target EXCEPT ![t] = Temp]
  /\ ver' = [ver EXCEPT ![t] = Unknown]
  /\ op' = [op EXCEPT ![t] = "none"]

Free(t, p) ==
  /\ host # "exited"
  /\ Exclusive => \A u \in Tasks \ {t} : Busy(u) => target[u] # p

Begin(t, o, l, p, v) ==
  /\ ~Busy(t) /\ Free(t, p)
  /\ op' = [op EXCEPT ![t] = o]
  /\ Goto(t, l)
  /\ target' = [target EXCEPT ![t] = p]
  /\ ver' = [ver EXCEPT ![t] = v]

StartInstall(t, p, v) ==
  /\ Begin(t, "install", "i_extract", p, v)
  /\ UNCHANGED <<entry, files, loaded, server>>

\* install_from_url leaves a Downloading entry that nothing removes.
StartDownload(t) ==
  /\ ~Busy(t) /\ host # "exited"
  /\ op' = [op EXCEPT ![t] = "install"]
  /\ Goto(t, "i_fetch")
  /\ status' = [status EXCEPT ![Temp] = "Downloading"]
  /\ UNCHANGED <<version, files, loaded, target, ver, server>>

Fetched(t, p, v) ==
  /\ pc[t] = "i_fetch" /\ Free(t, p)
  /\ Goto(t, "i_extract")
  /\ target' = [target EXCEPT ![t] = p]
  /\ ver' = [ver EXCEPT ![t] = v]
  /\ UNCHANGED <<entry, files, loaded, op, server>>

FetchFails(t) ==
  /\ pc[t] = "i_fetch"
  /\ Finish(t)
  /\ UNCHANGED <<entry, files, loaded, server>>

Extract(t) ==
  /\ pc[t] = "i_extract"
  /\ disk' = disk \cup {<<target[t], ver[t]>>}
  /\ Goto(t, "i_register")
  /\ UNCHANGED <<entry, registry, loaded, op, target, ver, server>>

\* Verification or extraction fails; what was unpacked so far stays.
ExtractFails(t) ==
  /\ pc[t] = "i_extract"
  /\ disk' \in {disk, disk \cup {<<target[t], ver[t]>>}}
  /\ Finish(t)
  /\ UNCHANGED <<entry, registry, loaded, server>>

RegisterInstalledKeepsStatus(t) ==
  /\ pc[t] = "i_register"
  /\ registry' = registry \cup {<<target[t], ver[t]>>}
  /\ status' = [status EXCEPT ![target[t]] = IF @ = "absent" THEN "Deactivated" ELSE @]
  /\ version' = [version EXCEPT ![target[t]] = ver[t]]
  /\ Finish(t)
  /\ UNCHANGED <<disk, loaded, server>>

\* The entry is replaced whatever it was, an Active one included.
RegisterInstalled(t) ==
  /\ pc[t] = "i_register"
  /\ registry' = registry \cup {<<target[t], ver[t]>>}
  /\ status' = [status EXCEPT ![target[t]] = "Installed"]
  /\ version' = [version EXCEPT ![target[t]] = ver[t]]
  /\ Finish(t)
  /\ UNCHANGED <<disk, loaded, server>>

StartActivate(t, p) ==
  /\ Begin(t, "activate", "a_check", p, Unknown)
  /\ UNCHANGED <<entry, files, loaded, server>>

EndActivateRetries(t, ok) ==
  IF op[t] \in {"reload", "rollback"} /\ ~ok
  THEN Goto(t, "a_check") /\ op' = [op EXCEPT ![t] = "rollback"] /\ UNCHANGED <<target, ver>>
  ELSE Finish(t)

\* activate returns: a failed reload goes on with rollback_plugin, which
\* calls activate once more.
EndActivate(t, ok) ==
  IF op[t] = "reload" /\ ~ok
  THEN Goto(t, "a_check") /\ op' = [op EXCEPT ![t] = "rollback"] /\ UNCHANGED <<target, ver>>
  ELSE Finish(t)

ActivateCheck(t) ==
  /\ pc[t] = "a_check"
  /\ LET p == target[t] IN
       IF status[p] \in {"absent", "Active"}
       THEN EndActivate(t, status[p] = "Active")
       ELSE Goto(t, "a_mark") /\ ver' = [ver EXCEPT ![t] = version[p]] /\ UNCHANGED <<op, target>>
  /\ UNCHANGED <<entry, files, loaded, server>>

ActivateMark(t) ==
  /\ pc[t] = "a_mark"
  /\ SetStatus(target[t], "Activating")
  /\ Goto(t, "a_find")
  /\ UNCHANGED <<version, files, loaded, op, target, ver, server>>

\* find_plugin_binary(..)? - on an error the status stays Activating.
FindBinary(t) ==
  /\ pc[t] = "a_find"
  /\ IF <<target[t], ver[t]>> \in disk
     THEN Goto(t, "a_load") /\ UNCHANGED <<op, target, ver>>
     ELSE EndActivate(t, FALSE)
  /\ UNCHANGED <<entry, files, loaded, server>>

\* load_plugin_instance_v2 (or, unwired, load_pipeline.load) succeeds.
Load(t) ==
  /\ pc[t] = "a_load"
  /\ <<target[t], ver[t]>> \in disk
  /\ loaded' = IF Wired THEN loaded \cup {target[t]} ELSE loaded
  /\ Goto(t, "a_active")
  /\ UNCHANGED <<entry, files, op, target, ver, server>>

LoadFails(t) ==
  /\ pc[t] = "a_load"
  /\ Goto(t, "a_error")
  /\ UNCHANGED <<entry, files, loaded, op, target, ver, server>>

ActivateDone(t) ==
  /\ pc[t] = "a_active"
  /\ SetStatus(target[t], "Active")
  /\ EndActivate(t, TRUE)
  /\ UNCHANGED <<version, files, loaded, server>>

ActivateError(t) ==
  /\ pc[t] = "a_error"
  /\ SetStatus(target[t], "Error")
  /\ EndActivate(t, FALSE)
  /\ UNCHANGED <<version, files, loaded, server>>

StartDeactivate(t, p) ==
  /\ Begin(t, "deactivate", "d_check", p, Unknown)
  /\ UNCHANGED <<entry, files, loaded, server>>

\* deactivate returns into uninstall, into reload_plugin or to its caller.
EndDeactivate(t) ==
  CASE op[t] = "uninstall" -> Goto(t, "u_mark")  /\ UNCHANGED <<op, target, ver>>
    [] op[t] = "reload"    -> Goto(t, "a_check") /\ UNCHANGED <<op, target, ver>>
    [] OTHER               -> Finish(t)

DeactivateCheck(t) ==
  /\ pc[t] = "d_check"
  /\ CASE status[target[t]] = "absent" -> Finish(t)
       [] status[target[t]] = "Active" -> Goto(t, "d_mark") /\ UNCHANGED <<op, target, ver>>
       [] OTHER -> EndDeactivate(t)
  /\ UNCHANGED <<entry, files, loaded, server>>

DeactivateMarkDropped(t) ==
  /\ pc[t] = "d_mark"
  /\ Goto(t, "d_unload")
  /\ UNCHANGED <<entry, files, loaded, op, target, ver, server>>

DeactivateMark(t) ==
  /\ pc[t] = "d_mark"
  /\ SetStatus(target[t], "Deactivating")
  /\ Goto(t, "d_unload")
  /\ UNCHANGED <<version, files, loaded, op, target, ver, server>>

\* pm.unload_plugin; "not found" is only logged.
Unload(t) ==
  /\ pc[t] = "d_unload"
  /\ loaded' = IF Wired THEN loaded \ {target[t]} ELSE loaded
  /\ Goto(t, "d_done")
  /\ UNCHANGED <<entry, files, op, target, ver, server>>

DeactivateDone(t) ==
  /\ pc[t] = "d_done"
  /\ SetStatus(target[t], "Deactivated")
  /\ EndDeactivate(t)
  /\ UNCHANGED <<version, files, loaded, server>>

StartUninstall(t, p) ==
  /\ Begin(t, "uninstall", "u_check", p, Unknown)
  /\ UNCHANGED <<entry, files, loaded, server>>

UninstallCheck(t) ==
  /\ pc[t] = "u_check"
  /\ Goto(t, IF status[target[t]] = "Active" THEN "d_check" ELSE "u_mark")
  /\ UNCHANGED <<entry, files, loaded, op, target, ver, server>>

UninstallMarkLate(t) ==
  /\ pc[t] = "u_mark"
  /\ IF status[target[t]] = "absent"
     THEN Finish(t)
     ELSE Goto(t, "u_files") /\ ver' = [ver EXCEPT ![t] = version[target[t]]] /\ UNCHANGED <<op, target>>
  /\ UNCHANGED <<entry, files, loaded, server>>

UninstallMark(t) ==
  /\ pc[t] = "u_mark"
  /\ IF status[target[t]] = "absent"
     THEN Finish(t)
     ELSE Goto(t, "u_files") /\ ver' = [ver EXCEPT ![t] = version[target[t]]] /\ UNCHANGED <<op, target>>
  /\ SetStatus(target[t], "Uninstalling")
  /\ UNCHANGED <<version, files, loaded, server>>

RemoveFiles(t) ==
  /\ pc[t] = "u_files"
  /\ disk' = disk \ {<<target[t], ver[t]>>}
  /\ Goto(t, "u_registry")
  /\ UNCHANGED <<entry, registry, loaded, op, target, ver, server>>

\* remove_dir_all fails half way: uninstall returns with the entry left.
RemoveFilesFails(t) ==
  /\ pc[t] = "u_files" /\ <<target[t], ver[t]>> \in disk
  /\ disk' \in {disk, disk \ {<<target[t], ver[t]>>}}
  /\ Finish(t)
  /\ UNCHANGED <<entry, registry, loaded, server>>

RemoveFromRegistry(t) ==
  /\ pc[t] = "u_registry"
  /\ registry' = registry \ {<<target[t], ver[t]>>}
  /\ Goto(t, "u_entry")
  /\ UNCHANGED <<entry, disk, loaded, op, target, ver, server>>

RemoveEntry(t) ==
  /\ pc[t] = "u_entry"
  /\ status' = [status EXCEPT ![target[t]] = "absent"]
  /\ version' = [version EXCEPT ![target[t]] = Unknown]
  /\ Finish(t)
  /\ UNCHANGED <<files, loaded, server>>

\* reload_plugin on an Active plugin (otherwise it returns at once).
StartReload(t, p) ==
  /\ status[p] = "Active"
  /\ Begin(t, "reload", "r_serialize", p, Unknown)
  /\ UNCHANGED <<entry, files, loaded, server>>

\* serialize_plugin_state looks the entry up again.
SerializeState(t) ==
  /\ pc[t] = "r_serialize"
  /\ IF status[target[t]] = "absent"
     THEN Finish(t)
     ELSE Goto(t, "d_check") /\ UNCHANGED <<op, target, ver>>
  /\ UNCHANGED <<entry, files, loaded, server>>

-----------------------------------------------------------------------------
(* The server's shutdown: shutdown_all takes a snapshot of the names, then *)
(* unloads them one by one; hot reload is not stopped meanwhile.           *)

BeginShutdown ==
  /\ host = "running"
  /\ host' = "unloading" /\ remaining' = loaded
  /\ UNCHANGED <<entry, files, loaded, task>>

ShutdownUnload(p) ==
  /\ host = "unloading" /\ p \in remaining
  /\ remaining' = remaining \ {p}
  /\ loaded' = loaded \ {p}
  /\ UNCHANGED <<entry, files, task, host>>

Exit ==
  /\ host = "unloading" /\ remaining = {}
  /\ host' = "exited"
  /\ UNCHANGED <<entry, files, loaded, task, remaining>>

-----------------------------------------------------------------------------
Start(t) ==
  \/ StartDownload(t)
  \/ \E p \in Plugins :
       \/ \E v \in Versions : StartInstall(t, p, v)
       \/ StartActivate(t, p) \/ StartDeactivate(t, p)
       \/ StartUninstall(t, p) \/ StartReload(t, p)

Step(t) ==
  /\ host # "exited"
  /\ \/ \E p \in Plugins, v \in Versions : Fetched(t, p, v)
     \/ FetchFails(t)
     \/ Extract(t) \/ ExtractFails(t) \/ RegisterInstalled(t)
     \/ ActivateCheck(t) \/ ActivateMark(t) \/ FindBinary(t)
     \/ Load(t) \/ LoadFails(t) \/ ActivateDone(t) \/ ActivateError(t)
     \/ DeactivateCheck(t) \/ DeactivateMark(t) \/ Unload(t) \/ DeactivateDone(t)
     \/ UninstallCheck(t) \/ UninstallMark(t) \/ RemoveFiles(t) \/ RemoveFilesFails(t)
     \/ RemoveFromRegistry(t) \/ RemoveEntry(t)
     \/ SerializeState(t)

Shutdown == BeginShutdown \/ (\E p \in Plugins : ShutdownUnload(p)) \/ Exit

Next == (\E t \in Tasks : Start(t) \/ Step(t)) \/ Shutdown

Spec == Init /\ [][Next]_vars

\* The runtime polls every task that is ready; no operation is ever obliged
\* to start and the server is not obliged to stop.
FairSpec == Spec /\ \A t \in Tasks : WF_vars(Step(t))

-----------------------------------------------------------------------------
(* Properties.                                                             *)

\* PluginStatus::Active is "Plugin is active and running" (lifecycle.rs:54):
\* a plugin shown as Active is loaded, in the middle of operations too.
\* (shutdown_all does not touch the entries, hence only while running.)
ActiveIsLoaded ==
  host = "running" /\ Wired => \A p \in Plugins : status[p] = "Active" => p \in loaded

\* A settled entry of an installed plugin is backed by its registry key and
\* its directory, so activate can find the binary and uninstall the key.
EntryBacked ==
  \A p \in Plugins :
    status[p] \in {"Installed", "Active", "Deactivated"} /\ version[p] # Unknown
      => <<p, version[p]>> \in registry /\ <<p, version[p]>> \in disk

\* However callers race, an entry that uninstall removed comes back only by
\* an installation: the status writes of activate and deactivate look the
\* entry up again (get_mut) before they write.
NoResurrection ==
  [][\A k \in Keys : status[k] = "absent" /\ status'[k] # "absent"
                       => status'[k] \in {"Installed", "Downloading"}]_vars

\* Every operation that was started returns: a reload tries one rollback,
\* never more.
OperationsEnd == \A t \in Tasks : Busy(t) ~> (~Busy(t) \/ host = "exited")

\* PluginStatus::Activating is "Plugin is being activated" (lifecycle.rs:52):
\* somebody is activating it.
TransientHasOwner ==
  \A p \in Plugins : status[p] = "Activating" =>
    \E t \in Tasks : target[t] = p /\ pc[t] \in {"a_check", "a_mark", "a_find", "a_load", "a_active", "a_error"}

\* hot_reload.rs:10 promises "Graceful rollback on failure": when a failed
\* reload returns after its rollback the plugin is loaded again.
RollbackRestores ==
  [][\A t \in Tasks : op[t] = "rollback" /\ op'[t] = "none" => target[t] \in loaded']_vars

\* uninstall deactivates an active plugin first (lifecycle.rs:805): a plugin
\* without an entry and without an operation under way is not loaded.
NoOrphan ==
  host = "running" =>
    \A p \in loaded : status[p] # "absent" \/ \E t \in Tasks : target[t] = p

\* shutdown_all "Unloads every loaded plugin" (manager.rs:2035): none is left
\* when the server exits.
ShutdownClean == host = "exited" => loaded = {}
=============================================================================
