---------------------------- MODULE PackageFiles ----------------------------
(***************************************************************************)
(* Extraction of a plugin archive, entry by entry                          *)
(* (plugin-packager/src/extractor.rs).  An archive is a sequence of        *)
(* entries [path, kind, size, manifest, target]; a path is a sequence of   *)
(* components below the destination, or from the root when the first is    *)
(* RootDir, and sizes are those the headers announce.  The file system is  *)
(* a set of nodes at real paths; links are followed as the system does.    *)
(***************************************************************************)
EXTENDS Integers, Sequences, SequencesExt, FiniteSets, FiniteSetsExt

CONSTANTS Archives,  \* the archives extracted
          Configs,   \* [max_entries, max_file, max_total, max_path, symlinks, absolute, overwrite]
          Outside,   \* the directories outside the destination
          MaxCalls   \* bound: calls of extract

VARIABLES entries,  \* what the archive still holds
          config,
          at,       \* "idle", "entries", "ok" or "refused"
          result,   \* [root, files, dirs, bytes, count, manifest] of this call
          dest,     \* the nodes: [path, kind, size, call, manifest, target]
          calls,
          started   \* what was there when the call began, a history

vars == <<entries, config, at, result, dest, calls, started>>

CurDir == "."
ParentDir == ".."
RootDir == "/"
Manifest == "plugin.toml"
NoManifest == 0   \* no name and version
Unreadable == -1  \* not text
NoPath == <<"">>
NoResult == [root |-> <<>>, files |-> 0, dirs |-> 0, bytes |-> 0, count |-> 0, manifest |-> NoManifest]

Node(p, kind, size, manifest, target) ==
  [path |-> p, kind |-> kind, size |-> size, call |-> calls, manifest |-> manifest, target |-> target]
Directory(p) == Node(p, "dir", 0, NoManifest, <<>>)

Init == /\ entries = <<>> /\ config \in Configs /\ at = "idle"
        /\ result = NoResult /\ calls = 0
        /\ dest = {Directory(p) : p \in Outside} /\ started = dest

\* The destination is there from now on; what it holds stays.
extract(archive) ==
  /\ at # "entries" /\ calls < MaxCalls
  /\ entries' = archive /\ at' = "entries" /\ result' = NoResult
  /\ calls' = calls + 1 /\ started' = dest
  /\ UNCHANGED <<config, dest>>

validate_path(p) == /\ Len(p) <= config.max_path
                    /\ ParentDir \notin Range(p)
                    /\ RootDir \in Range(p) => config.absolute

-----------------------------------------------------------------------------
\* The real path that p leads to, its own link followed too; the system gives
\* up on links that lead in a circle.
RECURSIVE Walk(_, _, _)
Walk(fs, p, hops) ==
  IF p \in {<<>>, <<RootDir>>, NoPath} THEN p
  ELSE LET parent == Walk(fs, Front(p), hops)
           q == IF Last(p) = CurDir THEN parent ELSE Append(parent, Last(p))
           links == {d \in fs : d.path = q /\ d.kind = "symlink"}
       IN  CASE parent = NoPath -> NoPath
             [] parent # NoPath /\ links = {} -> q
             [] OTHER -> IF hops = 0 THEN NoPath ELSE Walk(fs, (CHOOSE d \in links : TRUE).target, hops - 1)
Real(fs, p) == Walk(fs, p, Cardinality(fs))

At(fs, p) == {d \in fs : d.path = Real(fs, p)}
IsDir(fs, p) == Real(fs, p) \in {<<>>, <<RootDir>>} \/ \E d \in At(fs, p) : d.kind = "dir"
Exists(fs, p) == IsDir(fs, p) \/ At(fs, p) # {}

\* The node of p itself, only the links of its parents followed.
Place(fs, p) == Append(Real(fs, Front(p)), Last(p))
Own(fs, p) == {d \in fs : d.path = Place(fs, p)}

\* create_dir_all makes the directories that are missing; it fails at a file
\* and at a link that leads nowhere.
Creatable(p) == \A i \in 1..Len(p) : LET q == SubSeq(p, 1, i) IN IsDir(dest, q) \/ Own(dest, q) = {}
Created(fs, p) ==
  LET there == Max({i \in 0..Len(p) : IsDir(fs, SubSeq(p, 1, i))})
  IN  fs \cup {Directory(Real(fs, SubSeq(p, 1, there)) \o SubSeq(p, there + 1, i)) : i \in (there + 1)..Len(p)}

-----------------------------------------------------------------------------
Stop(after) == /\ at' = "refused" /\ dest' = after
               /\ UNCHANGED <<entries, config, result, calls, started>>
Refuse == Stop(dest)

\* The entry was accepted and dest is now after: a manifest is read back from
\* where it is, and the total is checked once the file was written.
Accept(e, after, files, ds, bytes) ==
  LET read == IF Last(e.path) = Manifest THEN At(after, e.path) ELSE {}
      found == {d.manifest : d \in read} \ {NoManifest}
      r == [root |-> IF result.root = <<>> THEN SubSeq(e.path, 1, 1) ELSE result.root,
            files |-> result.files + files, dirs |-> result.dirs + ds,
            bytes |-> result.bytes + bytes, count |-> result.count + 1,
            manifest |-> IF found = {} THEN result.manifest ELSE CHOOSE m \in found : TRUE]
  IN  IF \E d \in read : d.kind # "file" \/ d.manifest = Unreadable
      THEN Stop(after)
      ELSE /\ dest' = after /\ result' = r
           /\ entries' = Tail(entries)
           /\ at' = IF r.bytes > config.max_total THEN "refused" ELSE "entries"
           /\ UNCHANGED <<config, calls, started>>

Admitted(e) == /\ result.count < config.max_entries
               /\ validate_path(e.path)
               /\ e.size <= config.max_file

RefuseEntry(e) == ~Admitted(e) /\ Refuse

extract_directory(e) ==
  /\ Admitted(e) /\ e.kind = "dir"
  /\ IF IsDir(dest, e.path) THEN Accept(e, dest, 0, 1, 0)
     ELSE IF Creatable(e.path) THEN Accept(e, Created(dest, e.path), 0, 1, 0)
     ELSE Refuse

Replaced(fs, node) == {d \in fs : d.path # node.path} \cup {node}

\* File::create writes where the links lead; an archive that breaks off inside
\* the file leaves the part that was read.
WriteFile(e) ==
  LET fs == Created(dest, Front(e.path))
      real == Real(fs, e.path)
  IN  IF ~Creatable(Front(e.path)) THEN Refuse
      ELSE IF real = NoPath \/ IsDir(fs, real) \/ ~IsDir(fs, Front(real)) THEN Stop(fs)
      ELSE \/ Accept(e, Replaced(fs, Node(real, "file", e.size, e.manifest, <<>>)), 1, 0, e.size)
           \/ \E part \in 0..(e.size - 1) : Stop(Replaced(fs, Node(real, "file", part, NoManifest, <<>>)))

FileOver(e) == Admitted(e) /\ e.kind = "file" /\ WriteFile(e)

extract_file(e) ==
  /\ Admitted(e) /\ e.kind = "file"
  /\ IF Exists(dest, e.path) /\ ~config.overwrite THEN Refuse ELSE WriteFile(e)

\* A link in the way is removed only when it leads somewhere, a directory
\* never; the target is kept as it is written, relative to the link.
extract_symlink(e) ==
  LET there == Exists(dest, e.path)
      fs == Created(IF there THEN dest \ Own(dest, e.path) ELSE dest, Front(e.path))
      parent == Real(fs, Front(e.path))
      target == IF Head(e.target) = RootDir THEN e.target ELSE parent \o e.target
  IN  /\ Admitted(e) /\ e.kind = "symlink"
      /\ IF \/ ~config.symlinks
            \/ there /\ (~config.overwrite \/ \E d \in Own(dest, e.path) : d.kind = "dir")
            \/ ~Creatable(Front(e.path))
         THEN Refuse
         ELSE IF Own(fs, e.path) # {} THEN Stop(fs)
         ELSE Accept(e, fs \cup {Node(Place(fs, e.path), "symlink", 0, NoManifest, target)}, 0, 0, 0)

\* Hard links and devices are passed over.
SkipEntry(e) == Admitted(e) /\ e.kind = "other" /\ Accept(e, dest, 0, 0, 0)

Entry == /\ at = "entries" /\ entries # <<>>
         /\ LET e == Head(entries)
            IN  RefuseEntry(e) \/ extract_directory(e) \/ extract_file(e) \/ extract_symlink(e) \/ SkipEntry(e)

Finish == /\ at = "entries" /\ entries = <<>>
          /\ at' = IF result.root # <<>> /\ Exists(dest, result.root \o <<Manifest>>) THEN "ok" ELSE "refused"
          /\ UNCHANGED <<entries, config, result, dest, calls, started>>

Next == (\E a \in Archives : extract(a)) \/ Entry \/ Finish

Spec == Init /\ [][Next]_vars

-----------------------------------------------------------------------------
Written == {d \in dest : d.call = calls}
IsOutside(d) == d.path # <<>> /\ d.path[1] = RootDir

\* Unless links or absolute paths are allowed nothing is written outside the
\* destination; a call writes no more than one file beyond its total; without
\* overwrite nothing that was there is touched, whatever links lead to it; and a
\* call that succeeds leaves a manifest at the root of the plugin and, without
\* overwrite, reports one that is there (extract, extractor.rs:131).
ExtractionSound ==
  LET files == {d \in Written : d.kind = "file"}
  IN  /\ ~config.symlinks /\ ~config.absolute => \A d \in Written : calls > 0 => ~IsOutside(d)
      /\ MapThenSumSet(LAMBDA d : d.size, files) <= result.bytes + config.max_file
      /\ result.bytes <= config.max_total + config.max_file
      /\ ~config.overwrite => started \subseteq dest
      /\ at = "ok" => /\ Exists(dest, result.root \o <<Manifest>>)
                      /\ result.bytes <= config.max_total
                      /\ ~config.overwrite /\ result.manifest # NoManifest =>
                           \E d \in dest : d.manifest = result.manifest

-----------------------------------------------------------------------------
(***************************************************************************)
(* Backups of an installed plugin around an upgrade                        *)
(* (plugin-packager/src/upgrade.rs).  A directory is the set of its files, *)
(* each with the release that wrote it, and of the entry Self; one that    *)
(* does not exist is {}.  A backup's path is made of the version and the   *)
(* second it was begun in; a record is stamped when the copy is complete.  *)
(***************************************************************************)

CONSTANTS Files,       \* file names
          Releases,    \* the versions that backups are made of
          MaxBackups,  \* bound: backup records
          MaxCopies,   \* bound: backups begun in the same path
          MaxUpgrades, \* bound: upgrades
          MaxPartial,  \* bound: copies and removals that fail halfway
          MaxSecond    \* bound: the clock

VARIABLES installed,  \* the plugin's directory
          disk,       \* the backup directories: path -> directory
          records,    \* the records: [path, version, created_at, valid]
          written,    \* how often each path was copied to, a history
          originals,  \* what was installed when each record was made, a history
          spared,     \* the records that a failing prune left behind, a history
          copying,    \* the path that backup_plugin is copying to, or NoBackup
          restoring,  \* the record a restoration removed the plugin for, or 0
          second, upgrades, partial

dirs == <<installed, disk, records, written, originals, spared, copying, restoring>>
backup_vars == <<dirs, second, upgrades, partial>>

Self == <<".", 0>>
NoBackup == <<0, -1>>
Paths == Releases \X (0..MaxSecond)
Copied(from, to) == from \cup {f \in to : \A g \in from : g[1] # f[1]}
\* What a copy or a removal that may fail leaves of a directory that it enters.
PartsOf(dir) == {d \in SUBSET dir : Self \in d}
\* The manager's calls take it exclusively: one at a time.
Idle == copying = NoBackup /\ restoring = 0

BackupInit == /\ installed = {Self} \cup {<<f, 0>> : f \in Files}
              /\ disk = [p \in Paths |-> {}] /\ written = [p \in Paths |-> 0]
              /\ records = <<>> /\ originals = <<>> /\ spared = {}
              /\ copying = NoBackup /\ restoring = 0
              /\ second = 0 /\ upgrades = 0 /\ partial = 0

\* Work is complete, or one of the few that fail.
Completes(done) == /\ partial' = partial + (IF done THEN 0 ELSE 1)
                   /\ partial' <= MaxPartial

\* backup_plugin takes the timestamp of the path and creates the directory,
BeginBackup(v) ==
  LET p == <<v, second>>
  IN  /\ Idle /\ installed # {} /\ Len(records) < MaxBackups /\ written[p] < MaxCopies
      /\ copying' = p
      /\ disk' = [disk EXCEPT ![p] = @ \cup {Self}]
      /\ written' = [written EXCEPT ![p] = @ + 1]
      /\ UNCHANGED <<installed, records, originals, spared, restoring, second, upgrades, partial>>

\* and copies file by file: it may fail after any of them, and only a complete
\* copy is recorded, with the time it was completed.
backup_plugin(copied) ==
  /\ copying # NoBackup
  /\ disk' = [disk EXCEPT ![copying] = Copied(copied, @)]
  /\ IF copied = installed
     THEN /\ records' = Append(records, [path |-> copying, version |-> copying[1],
                                         created_at |-> second, valid |-> TRUE])
          /\ originals' = Append(originals, installed)
     ELSE UNCHANGED <<records, originals>>
  /\ copying' = NoBackup
  /\ Completes(copied = installed) /\ UNCHANGED <<installed, written, spared, restoring, second, upgrades>>

\* restore_plugin removes the installation before it copies the backup; a
\* removal that fails leaves a part of it.
RemoveCurrent(i) ==
  /\ Idle /\ disk[records[i].path] # {}
  /\ \/ /\ installed' = {} /\ restoring' = i /\ UNCHANGED partial
     \/ /\ \E left \in PartsOf(installed) : installed' = left
        /\ Completes(FALSE) /\ UNCHANGED restoring
  /\ UNCHANGED <<disk, records, written, originals, spared, copying, second, upgrades>>

\* The copy, or as much of it as succeeds.
CopyBack == /\ restoring # 0
            /\ \E copied \in PartsOf(disk[records[restoring].path]) :
                 /\ installed' = copied
                 /\ Completes(copied = disk[records[restoring].path])
            /\ restoring' = 0
            /\ UNCHANGED <<disk, records, written, originals, spared, copying, second, upgrades>>

\* The valid records from the newest to the oldest second; the sort is stable.
Newer(i, j) == \/ records[i].created_at > records[j].created_at
               \/ records[i].created_at = records[j].created_at /\ i < j
Valid == {i \in DOMAIN records : records[i].valid}
Rank(i, among) == Cardinality({j \in among : Newer(j, i)})

\* The records beyond the first keep are removed from the newest on; at the
\* first that cannot be removed the call fails, with a part of it gone and the
\* record still listed.
prune_backups(keep, n) ==
  LET old == {i \in Valid : Rank(i, Valid) >= keep}
      gone == {i \in old : Rank(i, old) < n}
      failing == {i \in old : Rank(i, old) = n}
  IN  /\ Idle /\ old # {} /\ n <= Cardinality(old)
      /\ records' = [i \in DOMAIN records |-> IF i \in gone THEN [records[i] EXCEPT !.valid = FALSE]
                                              ELSE records[i]]
      /\ \E left \in UNION {SUBSET disk[records[i].path] : i \in failing} \cup {{}} :
           disk' = [p \in Paths |-> IF \E i \in gone : records[i].path = p THEN {}
                                    ELSE IF \E i \in failing : records[i].path = p THEN left
                                    ELSE disk[p]]
      /\ \A i \in failing : disk[records[i].path] # {}
      /\ spared' = spared \cup (old \ gone)
      /\ Completes(failing = {})
      /\ UNCHANGED <<installed, written, originals, copying, restoring, second, upgrades>>

\* An upgrade replaces some of the files, also of a plugin that is not there.
Upgrade(changed) == /\ Idle /\ upgrades < MaxUpgrades /\ upgrades' = upgrades + 1
                    /\ installed' = Copied({Self} \cup {<<f, upgrades + 1>> : f \in changed}, installed)
                    /\ UNCHANGED <<disk, records, written, originals, spared, copying, restoring, second, partial>>

Tick == /\ second < MaxSecond /\ second' = second + 1
        /\ UNCHANGED <<dirs, upgrades, partial>>

BackupNext ==
  \/ \E v \in Releases : BeginBackup(v)
  \/ \E c \in PartsOf(installed) : backup_plugin(c)
  \/ \E i \in Valid : RemoveCurrent(i)
  \/ CopyBack
  \/ \E k, n \in 0..MaxBackups : prune_backups(k, n)
  \/ \E c \in (SUBSET Files) \ {{}} : Upgrade(c)
  \/ Tick

BackupSpec == BackupInit /\ [][BackupNext]_backup_vars

-----------------------------------------------------------------------------
\* A backup that is listed and whose path was copied to once holds what was
\* installed when it was made, whatever was upgraded, restored or pruned since,
\* and no pruned backup is newer than one that was kept; both but for what a
\* prune that failed left behind (backup_plugin, upgrade.rs:165; prune_backups,
\* upgrade.rs:227).
BackupsFaithful ==
  /\ \A i \in Valid \ spared : written[records[i].path] = 1 => disk[records[i].path] = originals[i]
  /\ \A i \in Valid \ spared, j \in DOMAIN records \ Valid :
       records[j].created_at <= records[i].created_at
=============================================================================
