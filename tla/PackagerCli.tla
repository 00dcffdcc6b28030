----------------------------- MODULE PackagerCli -----------------------------
(***************************************************************************)
(* The packager's commands on files: pack, verify, install, remove and     *)
(* upgrade (plugin-packager/src/main.rs, lib.rs) and the names of          *)
(* artifacts (platform.rs).  A process may stop between any two steps, and *)
(* a file that was being written is then part of one.                      *)
(***************************************************************************)
EXTENDS Integers, Sequences, SequencesExt, FiniteSets

CONSTANTS Sources,    \* what is packed: [name, version, complete], version = <<major, minor>>
          MaxCommands, \* bound: commands begun
          ArtifactNames, Triples  \* parts of file names, for the round trip

VARIABLES artifact,  \* the archive: [src, whole], or None
          sidecar,   \* what the checksum beside it is of
          dirs,      \* plugin directories: root -> "none", "bare", "partial" or "whole"
          registry,  \* the entries of registry.json, or {Corrupt}
          backups,   \* roots of which there is a whole copy
          job,       \* the command under way: [kind, src, dir, backup, left]
          commands,
          replaced,  \* roots that an upgrade with a backup removed, a history
          fresh      \* an install has registered all it found, and nothing changed since

files == <<artifact, sidecar, dirs, registry, backups>>
vars  == <<files, job, commands, replaced, fresh>>

NoSource == [name |-> "", version |-> <<0, 0>>, complete |-> FALSE]
None == [src |-> NoSource, whole |-> FALSE]
Corrupt == [name |-> <<>>, version |-> <<0, 0>>]
Idle == [kind |-> "idle", src |-> NoSource, dir |-> <<>>, backup |-> FALSE, left |-> {}]

\* The root directory of an archive is named after its manifest.
Root(s) == <<s.name, s.version>>
Roots == {Root(s) : s \in Sources}
HasManifest(r) == dirs[r] \in {"partial", "whole"}
\* An entry's name is that of a plugin, or of a directory.
Entry(r) == [name |-> <<r[1]>>, version |-> r[2]]

Init == /\ artifact = None /\ sidecar = None
        /\ dirs = [r \in Roots |-> "none"] /\ registry = {} /\ backups = {}
        /\ job = Idle /\ commands = 0 /\ replaced = {} /\ fresh = FALSE

Begin(j) == /\ job = Idle /\ commands < MaxCommands
            /\ job' = j /\ commands' = commands + 1 /\ fresh' = FALSE
Go(j) == job' = j /\ UNCHANGED <<commands, replaced, fresh>>

-----------------------------------------------------------------------------
\* pack_dir truncates the artifact and appends file after file.
pack_dir(s) == /\ Begin([Idle EXCEPT !.kind = "pack", !.src = s])
               /\ artifact' = [src |-> s, whole |-> FALSE]
               /\ UNCHANGED <<sidecar, dirs, registry, backups, replaced>>

FinishArchive == /\ job.kind = "pack"
                 /\ artifact' = [artifact EXCEPT !.whole = TRUE]
                 /\ Go([job EXCEPT !.kind = "hash"])
                 /\ UNCHANGED <<sidecar, dirs, registry, backups>>

\* The checksum is that of the finished file.
WriteSidecar == /\ job.kind = "hash" /\ sidecar' = artifact
                /\ Go(Idle)
                /\ UNCHANGED <<artifact, dirs, registry, backups>>

\* The checksum, and then the layout and the manifest of the archive.
VerifyUnchecked == artifact # None /\ artifact.src.complete

verify_artifact == artifact # None /\ sidecar = artifact /\ artifact.whole /\ artifact.src.complete

-----------------------------------------------------------------------------
\* install_plugin unpacks over what is there.
install_plugin == /\ verify_artifact
                  /\ Begin([Idle EXCEPT !.kind = "unpack", !.src = artifact.src])
                  /\ UNCHANGED <<files, replaced>>

Unpack(state) ==
  /\ job.kind \in {"unpack", "extract"} /\ state \in {"bare", "partial", "whole"}
  /\ dirs' = [dirs EXCEPT ![Root(job.src)] =
                IF state = "bare" /\ HasManifest(Root(job.src)) THEN "partial" ELSE state]
  /\ IF state # "whole" THEN Go(Idle)
     ELSE Go([job EXCEPT !.kind = IF job.kind = "unpack" THEN "register" ELSE "update",
                         !.left = {r \in Roots : dirs'[r] \in {"partial", "whole"}}])
  /\ UNCHANGED <<artifact, sidecar, registry, backups>>

\* A file that does not load counts as empty.
Loaded == IF registry = {Corrupt} THEN {} ELSE registry

\* Every directory with a manifest is registered, one file write each.
Register(r) == /\ job.kind = "register" /\ r \in job.left
               /\ registry' = Loaded \cup {Entry(r)}
               /\ Go([job EXCEPT !.left = @ \ {r}])
               /\ UNCHANGED <<artifact, sidecar, dirs, backups>>

Installed == /\ job.kind = "register" /\ job.left = {}
             /\ job' = Idle /\ fresh' = TRUE
             /\ UNCHANGED <<files, commands, replaced>>

\* The entry stays.
remove_plugin(r) == /\ dirs[r] # "none"
                    /\ job = Idle /\ commands < MaxCommands /\ commands' = commands + 1
                    /\ dirs' = [dirs EXCEPT ![r] = "none"] /\ fresh' = FALSE
                    /\ UNCHANGED <<artifact, sidecar, registry, backups, job, replaced>>

\* Two numbers stand for the three; pack_dir takes no pre-release.
is_newer_than(v, w) == v[1] > w[1] \/ (v[1] = w[1] /\ v[2] > w[2])
is_breaking_change(v, w) == v[1] # w[1]

\* The plugin is named by its directory; the archive may be of another plugin.
UpgradeUnguarded(r, backup, allow_breaking) ==
  /\ HasManifest(r) /\ verify_artifact
  /\ Begin([kind |-> "remove", src |-> artifact.src, dir |-> r, backup |-> backup, left |-> {}])
  /\ UNCHANGED <<files, replaced>>

upgrade_plugin(r, backup, allow_breaking) ==
  /\ HasManifest(r) /\ verify_artifact
  /\ is_newer_than(artifact.src.version, r[2])
  /\ is_breaking_change(artifact.src.version, r[2]) => allow_breaking
  /\ Begin([kind |-> IF backup THEN "backup" ELSE "remove", src |-> artifact.src, dir |-> r,
            backup |-> backup, left |-> {}])
  /\ UNCHANGED <<files, replaced>>

BackUp == /\ job.kind = "backup"
          /\ backups' = backups \cup {job.dir}
          /\ Go([job EXCEPT !.kind = "remove"])
          /\ UNCHANGED <<artifact, sidecar, dirs, registry>>

RemoveOld == /\ job.kind = "remove"
             /\ dirs' = [dirs EXCEPT ![job.dir] = "none"]
             /\ replaced' = IF job.backup THEN replaced \cup {job.dir} ELSE replaced
             /\ job' = [job EXCEPT !.kind = "extract"]
             /\ UNCHANGED <<artifact, sidecar, registry, backups, commands, fresh>>

\* The new entry bears the name of the directory; the old one stays.
Update == /\ job.kind = "update"
          /\ registry' = Loaded \cup {[name |-> job.dir, version |-> job.src.version]}
          /\ Go(Idle)
          /\ UNCHANGED <<artifact, sidecar, dirs, backups>>

\* The process ends, in the middle of a write of the registry or not.
Stop(corrupts) == /\ job # Idle /\ Go(Idle)
                  /\ corrupts => job.kind \in {"register", "update"}
                  /\ registry' = IF corrupts THEN {Corrupt} ELSE registry
                  /\ UNCHANGED <<artifact, sidecar, dirs, backups>>

Next ==
  \/ \E s \in Sources : pack_dir(s)
  \/ FinishArchive \/ WriteSidecar
  \/ install_plugin
  \/ \E state \in {"bare", "partial", "whole"} : Unpack(state)
  \/ \E r \in Roots : Register(r) \/ remove_plugin(r)
  \/ Installed
  \/ \E r \in Roots, b, f \in BOOLEAN : upgrade_plugin(r, b, f)
  \/ BackUp \/ RemoveOld \/ Update
  \/ \E c \in BOOLEAN : Stop(c)

Spec == Init /\ [][Next]_vars

-----------------------------------------------------------------------------
\* A file name is the sequence of its parts between dashes:
\* [text, versioned, numeric, platform].
to_filename(m) == m.name \o m.version \o m.triple

from_target_triple(parts) == {p.platform : p \in Range(parts)} \ {""}

\* The version is the first part that looks like one.
Versioned(parts) == {i \in DOMAIN parts : parts[i].versioned}
parses(parts) ==
  /\ Len(parts) >= 4 /\ Versioned(parts) # {}
  /\ LET i == CHOOSE i \in Versioned(parts) : \A j \in Versioned(parts) : i <= j
     IN  i > 1 /\ parts[i].numeric /\ from_target_triple(SubSeq(parts, i + 1, Len(parts))) # {}
parse(parts) ==
  LET i == CHOOSE i \in Versioned(parts) : \A j \in Versioned(parts) : i <= j
  IN  [name |-> SubSeq(parts, 1, i - 1), version |-> <<parts[i]>>,
       triple |-> SubSeq(parts, i + 1, Len(parts))]

-----------------------------------------------------------------------------
\* Only a finished archive verifies, whenever its packing was stopped; what an
\* upgrade removed is in a backup if one was asked for, even if the new version
\* never arrived; after an install every plugin directory is registered, even
\* if the registry was lost before (verify_artifact, lib.rs:437; upgrade_plugin,
\* main.rs:999; install_plugin, main.rs:775); the name made for an artifact is
\* read back as it was exactly if no part of the plugin's name looks like a
\* version (ArtifactMetadata::parse, platform.rs:120).
CommandsSound ==
  /\ verify_artifact => artifact.whole /\ sidecar.src = artifact.src
  /\ replaced \subseteq backups
  /\ fresh => \A r \in Roots : HasManifest(r) => Entry(r) \in registry
  /\ artifact = None => \A n \in ArtifactNames, t \in Triples :
       LET m == [name |-> n, version |-> <<[text |-> "v1", versioned |-> TRUE, numeric |-> TRUE, platform |-> ""]>>,
                 triple |-> t]
       IN  from_target_triple(t) # {} =>
             (parses(to_filename(m)) /\ parse(to_filename(m)) = m <=> Versioned(n) = {})
=============================================================================
