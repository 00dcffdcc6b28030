------------------------ MODULE PluginLifecycleProofs ------------------------
(* Theorems about PluginLifecycle, for every set of plugins, versions and  *)
(* concurrent callers.                                                     *)
EXTENDS PluginLifecycle, TLAPS

\* Type correctness of the plugins map, the tasks and the server's state.
THEOREM TypeCorrect == Spec => []TypeOK
<1> USE LifecycleAssumption
<1>1. Init => TypeOK
  BY DEF Init, TypeOK, Busy, Keys, AnyVer, Statuses, Ops, Labels
<1>2. TypeOK /\ [Next]_vars => TypeOK'
  <2> SUFFICES ASSUME TypeOK, [Next]_vars PROVE TypeOK'
    OBVIOUS
  <2> USE DEF TypeOK, Busy, Keys, AnyVer, Statuses, Ops, Labels, entry, files, task, server
  <2>1. ASSUME NEW t \in Tasks, Start(t) PROVE TypeOK'
    BY <2>1 DEF Start, StartInstall, StartDownload, StartActivate, StartDeactivate,
                StartUninstall, StartReload, Begin, Goto
  <2>2. ASSUME NEW t \in Tasks, Step(t) PROVE TypeOK'
    <3>1. ASSUME NEW p \in Plugins, NEW v \in Versions, Fetched(t, p, v) PROVE TypeOK'
      BY <3>1 DEF Fetched, Goto
    <3>2. CASE FetchFails(t) \/ Extract(t) \/ ExtractFails(t) \/ RegisterInstalled(t)
      BY <3>2 DEF FetchFails, Extract, ExtractFails, RegisterInstalled, Finish, Goto
    <3>3. CASE ActivateCheck(t)
      BY <3>3 DEF ActivateCheck, EndActivate, Finish, Goto
    <3>4. CASE ActivateMark(t) \/ FindBinary(t)
      BY <3>4 DEF ActivateMark, FindBinary, EndActivate, SetStatus, Finish, Goto
    <3>5. CASE Load(t) \/ LoadFails(t)
      BY <3>5 DEF Load, LoadFails, Goto
    <3>6. CASE ActivateDone(t) \/ ActivateError(t)
      BY <3>6 DEF ActivateDone, ActivateError, EndActivate, SetStatus, Finish, Goto
    <3>7. CASE DeactivateCheck(t)
      BY <3>7 DEF DeactivateCheck, EndDeactivate, Finish, Goto
    <3>8. CASE DeactivateMark(t) \/ Unload(t)
      BY <3>8 DEF DeactivateMark, Unload, SetStatus, Goto
    <3>9. CASE DeactivateDone(t)
      BY <3>9 DEF DeactivateDone, EndDeactivate, SetStatus, Finish, Goto
    <3>10. CASE UninstallCheck(t) \/ UninstallMark(t)
      BY <3>10 DEF UninstallCheck, UninstallMark, SetStatus, Finish, Goto
    <3>11. CASE RemoveFiles(t) \/ RemoveFilesFails(t) \/ RemoveFromRegistry(t) \/ RemoveEntry(t)
      BY <3>11 DEF RemoveFiles, RemoveFilesFails, RemoveFromRegistry, RemoveEntry, Finish, Goto
    <3>12. CASE SerializeState(t)
      BY <3>12 DEF SerializeState, Finish, Goto
    <3> QED
      BY <2>2, <3>1, <3>2, <3>3, <3>4, <3>5, <3>6, <3>7, <3>8, <3>9, <3>10, <3>11, <3>12 DEF Step
  <2>3. CASE Shutdown
    BY <2>3 DEF Shutdown, BeginShutdown, ShutdownUnload, Exit
  <2>4. CASE UNCHANGED vars
    BY <2>4 DEF vars
  <2> QED
    BY <2>1, <2>2, <2>3, <2>4 DEF Next
<1> QED
  BY <1>1, <1>2, PTL DEF Spec
-----------------------------------------------------------------------------
(* Serialised callers.                                                     *)

\* No two operations under way share a plugin.
Disjoint ==
  \A t, u \in Tasks :
    t # u /\ Busy(t) /\ Busy(u) /\ target[t] = target[u] => target[t] = Temp

\* ActiveIsLoaded is not inductive: a task about to write Active must have its
\* plugin loaded, and a task about to unload must have left Active before.
LoadInv ==
  /\ Disjoint
  /\ host = "running" =>
       /\ \A p \in Plugins : status[p] = "Active" => p \in loaded
       /\ \A t \in Tasks : pc[t] = "a_active" => target[t] \in loaded
  /\ \A t \in Tasks : pc[t] = "d_unload" => status[target[t]] # "Active"

LEMMA LoadInvStep ==
  ASSUME Exclusive, Wired, TypeOK, TypeOK', LoadInv, [Next]_vars
  PROVE  LoadInv'
<1> USE LifecycleAssumption
<1> USE DEF TypeOK, LoadInv, Disjoint, Busy, Keys, entry, files, task, server
<1>1. ASSUME NEW t \in Tasks, Start(t) PROVE LoadInv'
  BY <1>1 DEF Start, StartInstall, StartDownload, StartActivate, StartDeactivate,
              StartUninstall, StartReload, Begin, Free, Goto
<1>2. ASSUME NEW t \in Tasks, Step(t) PROVE LoadInv'
  <2>1. ASSUME NEW p \in Plugins, NEW v \in Versions, Fetched(t, p, v) PROVE LoadInv'
    BY <2>1 DEF Fetched, Free, Goto
  <2>2. CASE FetchFails(t) \/ Extract(t) \/ ExtractFails(t)
    BY <2>2 DEF FetchFails, Extract, ExtractFails, Finish, Goto
  <2>3. CASE RegisterInstalled(t)
    BY <2>3 DEF RegisterInstalled, Finish, Goto
  <2>4. CASE ActivateCheck(t)
    BY <2>4 DEF ActivateCheck, EndActivate, Finish, Goto
  <2>5. CASE ActivateMark(t) \/ FindBinary(t)
    BY <2>5 DEF ActivateMark, FindBinary, EndActivate, SetStatus, Finish, Goto
  <2>6. CASE Load(t) \/ LoadFails(t)
    BY <2>6 DEF Load, LoadFails, Goto
  <2>7. CASE ActivateDone(t) \/ ActivateError(t)
    BY <2>7 DEF ActivateDone, ActivateError, EndActivate, SetStatus, Finish, Goto
  <2>8. CASE DeactivateCheck(t)
    BY <2>8 DEF DeactivateCheck, EndDeactivate, Finish, Goto
  <2>9. CASE DeactivateMark(t) \/ Unload(t)
    BY <2>9 DEF DeactivateMark, Unload, SetStatus, Goto
  <2>10. CASE DeactivateDone(t)
    BY <2>10 DEF DeactivateDone, EndDeactivate, SetStatus, Finish, Goto
  <2>11. CASE UninstallCheck(t) \/ UninstallMark(t)
    BY <2>11 DEF UninstallCheck, UninstallMark, SetStatus, Finish, Goto
  <2>12. CASE RemoveFiles(t) \/ RemoveFilesFails(t) \/ RemoveFromRegistry(t)
    BY <2>12 DEF RemoveFiles, RemoveFilesFails, RemoveFromRegistry, Finish, Goto
  <2>13. CASE RemoveEntry(t)
    BY <2>13 DEF RemoveEntry, Finish, Goto
  <2>14. CASE SerializeState(t)
    BY <2>14 DEF SerializeState, Finish, Goto
  <2> QED
    BY <1>2, <2>1, <2>2, <2>3, <2>4, <2>5, <2>6, <2>7, <2>8, <2>9, <2>10, <2>11, <2>12, <2>13,
       <2>14 DEF Step
<1>3. CASE Shutdown
  BY <1>3 DEF Shutdown, BeginShutdown, ShutdownUnload, Exit
<1>4. CASE UNCHANGED vars
  BY <1>4 DEF vars
<1> QED
  BY <1>1, <1>2, <1>3, <1>4 DEF Next

\* When callers serialise the operations on a plugin, a plugin shown as Active
\* is loaded at every moment the server runs, in the middle of a reload, an
\* uninstall or an installation too.
THEOREM ActiveImpliesLoaded == Exclusive => (Spec => []ActiveIsLoaded)
<1> SUFFICES ASSUME Exclusive PROVE Spec => []ActiveIsLoaded
  OBVIOUS
<1>1. CASE ~Wired
  <2>1. ActiveIsLoaded
    BY <1>1 DEF ActiveIsLoaded
  <2> QED
    BY <2>1, PTL
<1>2. CASE Wired
  <2>1. Init => LoadInv
    BY LifecycleAssumption DEF Init, LoadInv, Disjoint, Busy, Keys
  <2>2. TypeOK /\ TypeOK' /\ LoadInv /\ [Next]_vars => LoadInv'
    BY <1>2, LoadInvStep
  <2>3. LoadInv => ActiveIsLoaded
    BY DEF LoadInv, ActiveIsLoaded
  <2> QED
    BY <2>1, <2>2, <2>3, TypeCorrect, PTL DEF Spec
<1> QED
  BY <1>1, <1>2
\* EntryBacked needs what the tasks under way know: the version an activation
\* or an uninstallation captured is still the entry's, an installation has
\* unpacked what it will register, an uninstallation that deletes files has
\* left the settled statuses, and a deactivation started from a backed entry.
KeyKept ==
  \A p \in Plugins :
    status[p] # "absent" /\ version[p] # Unknown
      => <<p, version[p]>> \in registry \/ \E t \in Tasks : target[t] = p /\ pc[t] = "u_entry"
DirKept ==
  \A p \in Plugins :
    status[p] \in {"Installed", "Active", "Deactivated"} /\ version[p] # Unknown
      => <<p, version[p]>> \in disk
TaskKnows(t) ==
  /\ pc[t] \in {"u_files", "u_registry", "u_entry"}
       => status[target[t]] = "Uninstalling" /\ ver[t] = version[target[t]]
  /\ pc[t] \in {"a_mark", "a_find", "a_load", "a_active"} => ver[t] = version[target[t]]
  /\ pc[t] \in {"a_active", "i_register"} => <<target[t], ver[t]>> \in disk
  /\ pc[t] \in {"d_mark", "d_unload", "d_done"} /\ version[target[t]] # Unknown
       => <<target[t], version[target[t]]>> \in disk
BackedInv == Disjoint /\ KeyKept /\ DirKept /\ \A t \in Tasks : TaskKnows(t)

LEMMA BackedInvStep ==
  ASSUME Exclusive, TypeOK, TypeOK', BackedInv, [Next]_vars
  PROVE  BackedInv'
<1> USE LifecycleAssumption
<1> USE DEF TypeOK, BackedInv, KeyKept, DirKept, TaskKnows, Disjoint, Busy, Keys, entry, files, task, server
<1>1. ASSUME NEW t \in Tasks, Start(t) PROVE BackedInv'
  BY <1>1, SMTT(30) DEF Start, StartInstall, StartDownload, StartActivate, StartDeactivate,
              StartUninstall, StartReload, Begin, Free, Goto
<1>2. ASSUME NEW t \in Tasks, Step(t) PROVE BackedInv'
  <2>1. ASSUME NEW p \in Plugins, NEW v \in Versions, Fetched(t, p, v) PROVE BackedInv'
    BY <2>1 DEF Fetched, Free, Goto
  <2>2. CASE FetchFails(t) \/ Extract(t) \/ ExtractFails(t)
    BY <2>2, SMTT(30) DEF FetchFails, Extract, ExtractFails, Finish, Goto
  <2>3. CASE RegisterInstalled(t)
    <3>1. Disjoint' /\ KeyKept'
      BY <2>3 DEF RegisterInstalled, Finish, Goto
    <3>2. DirKept'
      BY <2>3, ZenonT(60) DEF RegisterInstalled, Finish, Goto
    <3>3. ASSUME NEW u \in Tasks PROVE TaskKnows(u)'
      BY <2>3 DEF RegisterInstalled, Finish, Goto
    <3> QED
      BY <3>1, <3>2, <3>3
  <2>4. CASE ActivateCheck(t)
    BY <2>4 DEF ActivateCheck, EndActivate, Finish, Goto
  <2>5. CASE ActivateMark(t)
    BY <2>5 DEF ActivateMark, SetStatus, Goto
  <2>6. CASE FindBinary(t)
    BY <2>6 DEF FindBinary, EndActivate, Finish, Goto
  <2>7. CASE Load(t) \/ LoadFails(t)
    BY <2>7 DEF Load, LoadFails, Goto
  <2>8. CASE ActivateDone(t) \/ ActivateError(t)
    <3>1. UNCHANGED <<version, disk, registry>>
      BY <2>8 DEF ActivateDone, ActivateError
    <3>2. \A p \in Plugins : status'[p] # "absent" => status[p] # "absent"
      <4>1. CASE ActivateDone(t)
        BY <4>1 DEF ActivateDone, SetStatus
      <4>2. CASE ActivateError(t)
        BY <4>2 DEF ActivateError, SetStatus
      <4> QED
        BY <2>8, <4>1, <4>2
    <3>3. Disjoint'
      BY <2>8 DEF ActivateDone, ActivateError, EndActivate, Finish, Goto
    <3>4. KeyKept'
      <4>1. \A u \in Tasks : pc'[u] = "u_entry" => pc[u] = "u_entry" /\ target'[u] = target[u]
        BY <2>8 DEF ActivateDone, ActivateError, EndActivate, Finish, Goto
      <4>2. \A u \in Tasks : pc[u] = "u_entry" => pc'[u] = "u_entry" /\ target'[u] = target[u]
        BY <2>8 DEF ActivateDone, ActivateError, EndActivate, Finish, Goto
      <4> QED
        BY <3>1, <3>2, <4>1, <4>2
    <3>5. Disjoint' /\ KeyKept'
      BY <3>3, <3>4
    <3>6. DirKept'
      <4> SUFFICES ASSUME NEW p \in Plugins,
                          status'[p] \in {"Installed", "Active", "Deactivated"}, version'[p] # Unknown
                   PROVE  <<p, version'[p]>> \in disk'
        OBVIOUS
      <4>1. CASE p = target[t]
        <5>1. CASE ActivateDone(t)
          <6>1. <<target[t], ver[t]>> \in disk /\ ver[t] = version[target[t]]
            BY <5>1 DEF ActivateDone
          <6>2. disk' = disk /\ version' = version
            BY <5>1 DEF ActivateDone
          <6> QED
            BY <4>1, <6>1, <6>2
        <5>2. CASE ActivateError(t)
          BY <4>1, <5>2 DEF ActivateError, SetStatus
        <5> QED
          BY <2>8, <5>1, <5>2
      <4>2. CASE p # target[t]
        <5>1. status'[p] = status[p] /\ version' = version /\ disk' = disk
          BY <2>8, <4>2 DEF ActivateDone, ActivateError, EndActivate, SetStatus, Finish, Goto
        <5> QED
          BY <5>1
      <4> QED
        BY <4>1, <4>2
    <3>7. ASSUME NEW u \in Tasks PROVE TaskKnows(u)'
      BY <2>8 DEF ActivateDone, ActivateError, EndActivate, SetStatus, Finish, Goto
    <3> QED
      BY <3>5, <3>6, <3>7
  <2>9. CASE DeactivateCheck(t)
    BY <2>9, SMTT(30) DEF DeactivateCheck, EndDeactivate, Finish, Goto
  <2>10. CASE DeactivateMark(t) \/ Unload(t)
    BY <2>10 DEF DeactivateMark, Unload, SetStatus, Goto
  <2>11. CASE DeactivateDone(t)
    <3>1. Disjoint' /\ KeyKept'
      BY <2>11 DEF DeactivateDone, EndDeactivate, SetStatus, Finish, Goto
    <3>2. DirKept'
      <4> SUFFICES ASSUME NEW p \in Plugins,
                          status'[p] \in {"Installed", "Active", "Deactivated"}, version'[p] # Unknown
                   PROVE  <<p, version'[p]>> \in disk'
        OBVIOUS
      <4>1. CASE p = target[t]
        BY <2>11, <4>1 DEF DeactivateDone, EndDeactivate, SetStatus, Finish, Goto
      <4>2. CASE p # target[t]
        <5>1. status'[p] = status[p] /\ version' = version /\ disk' = disk
          BY <2>11, <4>2 DEF DeactivateDone, EndDeactivate, SetStatus, Finish, Goto
        <5> QED
          BY <5>1
      <4> QED
        BY <4>1, <4>2
    <3>3. ASSUME NEW u \in Tasks PROVE TaskKnows(u)'
      BY <2>11 DEF DeactivateDone, EndDeactivate, SetStatus, Finish, Goto
    <3> QED
      BY <3>1, <3>2, <3>3
  <2>12. CASE UninstallCheck(t)
    BY <2>12 DEF UninstallCheck, Goto
  <2>13. CASE UninstallMark(t)
    BY <2>13, SMTT(30) DEF UninstallMark, SetStatus, Finish, Goto
  <2>14. CASE RemoveFiles(t) \/ RemoveFilesFails(t)
    BY <2>14, SMTT(30) DEF RemoveFiles, RemoveFilesFails, Finish, Goto
  <2>15. CASE RemoveFromRegistry(t)
    BY <2>15 DEF RemoveFromRegistry, Goto
  <2>16. CASE RemoveEntry(t)
    BY <2>16 DEF RemoveEntry, Finish, Goto
  <2>17. CASE SerializeState(t)
    BY <2>17 DEF SerializeState, Finish, Goto
  <2> QED
    BY <1>2, <2>1, <2>2, <2>3, <2>4, <2>5, <2>6, <2>7, <2>8, <2>9, <2>10, <2>11, <2>12, <2>13,
       <2>14, <2>15, <2>16, <2>17 DEF Step
<1>3. CASE Shutdown
  BY <1>3 DEF Shutdown, BeginShutdown, ShutdownUnload, Exit
<1>4. CASE UNCHANGED vars
  BY <1>4 DEF vars
<1> QED
  BY <1>1, <1>2, <1>3, <1>4 DEF Next

\* When callers serialise the operations on a plugin, a settled entry with a
\* known version has its registry key and its directory.
THEOREM EntriesBacked == Exclusive => (Spec => []EntryBacked)
<1> SUFFICES ASSUME Exclusive PROVE Spec => []EntryBacked
  OBVIOUS
<1>1. Init => BackedInv
  BY LifecycleAssumption
  DEF Init, BackedInv, KeyKept, DirKept, TaskKnows, Disjoint, Busy, Keys
<1>2. TypeOK /\ TypeOK' /\ BackedInv /\ [Next]_vars => BackedInv'
  BY BackedInvStep
<1>3. BackedInv => EntryBacked
  BY DEF BackedInv, KeyKept, DirKept, TaskKnows, EntryBacked
<1> QED
  BY <1>1, <1>2, <1>3, TypeCorrect, PTL DEF Spec

\* However callers race, a removed entry comes back only by an installation.
THEOREM EntriesNotResurrected == Spec => NoResurrection
<1> USE LifecycleAssumption
<1> DEFINE A == \A k \in Keys : status[k] = "absent" /\ status'[k] # "absent"
                                  => status'[k] \in {"Installed", "Downloading"}
<1>1. TypeOK /\ [Next]_vars => [A]_vars
  <2> SUFFICES ASSUME TypeOK, [Next]_vars PROVE [A]_vars
    OBVIOUS
  <2> USE DEF TypeOK, Keys, entry, files, task, server
  <2>1. ASSUME NEW t \in Tasks, Start(t) PROVE A
    BY <2>1 DEF Start, StartInstall, StartDownload, StartActivate, StartDeactivate,
                StartUninstall, StartReload
  <2>2. ASSUME NEW t \in Tasks, Step(t) PROVE A
    BY <2>2 DEF Step, Fetched, FetchFails, Extract, ExtractFails, RegisterInstalled,
                ActivateCheck, ActivateMark, FindBinary, Load, LoadFails, ActivateDone,
                ActivateError, DeactivateCheck, DeactivateMark, Unload, DeactivateDone,
                UninstallCheck, UninstallMark, RemoveFiles, RemoveFilesFails,
                RemoveFromRegistry, RemoveEntry, SerializeState, SetStatus
  <2>3. CASE Shutdown
    BY <2>3 DEF Shutdown, BeginShutdown, ShutdownUnload, Exit
  <2>4. CASE UNCHANGED vars
    BY <2>4
  <2> QED
    BY <2>1, <2>2, <2>3, <2>4 DEF Next
<1> QED
  BY <1>1, TypeCorrect, PTL DEF Spec, NoResurrection
=============================================================================
