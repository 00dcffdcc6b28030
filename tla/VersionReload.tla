---------------------------- MODULE VersionReload ----------------------------
(***************************************************************************)
(* Reloading a plugin when the version in its file changes                 *)
(* (plugin_manager/version_reload.rs): what was registered of the file,    *)
(* the check against it, and a caller that reloads what the check returns  *)
(* and then brings the registered facts up to date.                        *)
(* A version is [parts, tag]: the numbers before the first dash, <<>> when *)
(* they are no numbers, and what follows the dash.                         *)
(***************************************************************************)
EXTENDS Integers, Sequences, FiniteSets

CONSTANTS Versions,
          MaxTicks,  \* bound: file times
          MaxWrites, \* bound: changes of the file
          MaxChecks  \* bound: checks with a result, or that failed

VARIABLES file,     \* [version, mtime, inode], or Gone
          info,     \* what is registered: [version, mtime, inode], or Gone
          running,  \* the version that is loaded
          result,   \* of the last check, until it was acted on: [new, reload, reason], or none
          step,     \* of the reload: "idle", "reload", "version" or "mtime"
          clock, inodes, writes, checks,
          within,   \* history: the file was changed between a check and the last update after it
          sametime  \* history: the file was changed twice at one file time, or replaced

vars == <<file, info, running, result, step, clock, inodes, writes, checks, within, sametime>>

Gone == [mtime |-> -1]
NoVersion == [parts |-> <<>>, tag |-> "none"]
Facts(version, mtime, inode) == [version |-> version, mtime |-> mtime, inode |-> inode]

Init == /\ \E v \in Versions : file = Facts(v, 0, 1) /\ running = v
        /\ info = Gone /\ result = <<>> /\ step = "idle"
        /\ clock = 0 /\ inodes = 1 /\ writes = 0 /\ checks = 0 /\ within = FALSE /\ sametime = FALSE

-----------------------------------------------------------------------------
\* Two numbers at least; a third that is missing is 0.
Parses(v) == Len(v.parts) >= 2
parse_semver(v) == <<v.parts[1], v.parts[2], IF Len(v.parts) > 2 THEN v.parts[3] ELSE 0>>
Less(v, w) == \E i \in 1..3 : v[i] < w[i] /\ \A j \in 1..(i - 1) : v[j] = w[j]

should_reload(current, new) ==
  IF new.tag = "dev" THEN [reload |-> TRUE, reason |-> "DevBuild"]
  ELSE IF Parses(current) /\ Parses(new)
    THEN CASE Less(parse_semver(current), parse_semver(new)) -> [reload |-> TRUE, reason |-> "VersionIncreased"]
           [] Less(parse_semver(new), parse_semver(current)) -> [reload |-> TRUE, reason |-> "VersionChanged"]
           [] OTHER -> [reload |-> FALSE, reason |-> "VersionChanged"]
  ELSE [reload |-> current # new, reason |-> "VersionChanged"]

\* A file that is not there has neither time nor inode.
FileFacts == IF file = Gone THEN [mtime |-> 0, inode |-> 0] ELSE [mtime |-> file.mtime, inode |-> file.inode]

register_plugin ==
  /\ info = Gone /\ step = "idle"
  /\ info' = Facts(running, FileFacts.mtime, FileFacts.inode)
  /\ within' = (file = Gone \/ file.version # running) /\ sametime' = FALSE
  /\ UNCHANGED <<file, running, result, step, clock, inodes, writes, checks>>

unregister_plugin == /\ info # Gone /\ info' = Gone
                     /\ UNCHANGED <<file, running, result, step, clock, inodes, writes, checks, within, sametime>>

\* Only a file that is newer is looked at; a replaced file is only reported;
\* equal texts need no comparison.  This is the check that can load the file.
Newer == file # Gone /\ file.mtime > info.mtime
check_single_plugin ==
  IF ~Newer THEN <<>>
  ELSE IF file.inode # info.inode THEN <<[new |-> info.version, reload |-> FALSE, reason |-> "FileModified"]>>
  ELSE IF file.version = info.version THEN <<>>
  ELSE LET s == should_reload(info.version, file.version)
       IN  <<[new |-> file.version, reload |-> s.reload, reason |-> s.reason]>>

check_versions ==
  /\ info # Gone /\ step = "idle" /\ checks < MaxChecks
  /\ result' = check_single_plugin
  /\ checks' = IF result' = <<>> THEN checks ELSE checks + 1
  /\ step' = IF result' # <<>> /\ result'[1].reload THEN "reload" ELSE "idle"
  /\ UNCHANGED <<file, info, running, clock, inodes, writes, within, sametime>>

\* The file cannot be loaded, or has no info: an error that is only logged.
CheckFails ==
  /\ info # Gone /\ step = "idle" /\ checks < MaxChecks
  /\ Newer /\ file.inode = info.inode
  /\ result' = <<>> /\ checks' = checks + 1
  /\ UNCHANGED <<file, info, running, step, clock, inodes, writes, within, sametime>>

\* The caller loads what the file is by then.
Reload == /\ step = "reload" /\ file # Gone
          /\ running' = file.version /\ step' = "version"
          /\ UNCHANGED <<file, info, result, clock, inodes, writes, checks, within, sametime>>
ReloadFails == /\ step = "reload" /\ step' = "idle" /\ result' = <<>>
               /\ UNCHANGED <<file, info, running, clock, inodes, writes, checks, within, sametime>>

update_version ==
  /\ step = "version" /\ step' = "mtime"
  /\ info' = IF info = Gone THEN info ELSE [info EXCEPT !.version = result[1].new]
  /\ UNCHANGED <<file, running, result, clock, inodes, writes, checks, within, sametime>>

\* The inode stays the one that was registered.
update_modified_time ==
  /\ step = "mtime" /\ step' = "idle" /\ result' = <<>>
  /\ info' = IF info = Gone \/ file = Gone THEN info ELSE [info EXCEPT !.mtime = file.mtime]
  /\ UNCHANGED <<file, running, clock, inodes, writes, checks, within, sametime>>

-----------------------------------------------------------------------------
Changed == /\ writes < MaxWrites /\ writes' = writes + 1
           /\ within' = (within \/ step # "idle")
           /\ UNCHANGED <<info, running, result, step, clock, checks>>
WriteInPlace(v) == /\ file # Gone /\ Changed
                   /\ file' = [file EXCEPT !.version = v, !.mtime = clock]
                   /\ sametime' = (sametime \/ file.mtime = clock)
                   /\ UNCHANGED inodes
Replace(v) == /\ Changed /\ inodes' = inodes + 1
              /\ file' = Facts(v, clock, inodes + 1)
              /\ sametime' = TRUE
Remove == /\ file # Gone /\ Changed /\ file' = Gone
          /\ UNCHANGED <<inodes, sametime>>
Tick == /\ clock < MaxTicks /\ clock' = clock + 1
        /\ UNCHANGED <<file, info, running, result, step, inodes, writes, checks, within, sametime>>

Next == \/ register_plugin \/ unregister_plugin \/ check_versions \/ CheckFails \/ Reload \/ ReloadFails
        \/ update_version \/ update_modified_time
        \/ (\E v \in Versions : WriteInPlace(v) \/ Replace(v)) \/ Remove \/ Tick

Spec == Init /\ [][Next]_vars

-----------------------------------------------------------------------------
\* When a check that can load the file asks for nothing, the version that runs is
\* the one in the file or compares equal to it, as long as the file is only
\* written in place, at file times of its own and never between a check and the
\* end of the reload it asked for; so a check that could not load it, and said
\* nothing, leaves the change to the next one.  A reload is asked for exactly when texts differ and either the
\* new one is a development build, or the two do not compare equal
\* (check_single_plugin, version_reload.rs:180; update_modified_time,
\* version_reload.rs:320).
Alike(v, w) == v = w \/ (Parses(v) /\ Parses(w) /\ parse_semver(v) = parse_semver(w) /\ w.tag # "dev")
VersionsCurrent ==
  /\ (info # Gone /\ file # Gone /\ step = "idle" /\ ~within /\ ~sametime) =>
        /\ info.version = running
        /\ check_single_plugin = <<>> \/ ~check_single_plugin[1].reload => Alike(running, file.version)
  /\ \A v, w \in Versions : v # w => (should_reload(v, w).reload <=> ~Alike(v, w))
  /\ result # <<>> /\ result[1].reason = "FileModified" => ~result[1].reload
=============================================================================
