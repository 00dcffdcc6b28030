----------------------------- MODULE MCPackages -----------------------------
(***************************************************************************)
(* Small instances of the loading order and of what is known of packages:  *)
(* versions and their resolution, the packager's registry, dependency      *)
(* tree, archives, backups and reviews.  They share no state: subject says *)
(* which of them a behaviour is about, the others stand still.             *)
(***************************************************************************)
EXTENDS LoadOrder, TLC

CONSTANTS p1, p2, p3

VARIABLES subject,
  plugins, edges, nodes,
  installed, disk, records, written, originals, spared, copying, restoring, second, upgrades, partial,
  entries, config, at, result, dest, calls, started,
  available, requirements, strategy, include_prerelease,
  known, approved_licenses, dependencies, permissions, keys, trusted, bound,
  components, optional, abi, support,
  artifact, sidecar, dirs, registry, backups, job, commands, replaced, fresh,
  checks, manifest, metadata

MCDiscovered == <<p1, p2, p3>>

tree_vars    == <<edges, nodes>>
backup_vars  == <<installed, disk, records, written, originals, spared, copying, restoring, second, upgrades, partial>>
archive_vars == <<entries, config, at, result, dest, calls, started>>
version_vars == <<available, requirements, strategy, include_prerelease>>
review_vars  == <<known, approved_licenses, dependencies, permissions, keys, trusted, bound>>
compat_vars  == <<components, optional, abi, support>>
cli_vars     == <<artifact, sidecar, dirs, registry, backups, job, commands, replaced, fresh>>
health_vars  == <<checks, manifest, metadata>>
file_vars    == <<backup_vars, archive_vars, cli_vars>>
fact_vars    == <<plugins, tree_vars, version_vars, review_vars, compat_vars, health_vars>>
package_vars == <<subject, vars, file_vars, fact_vars>>

-----------------------------------------------------------------------------
Requirement(op, ver) == [op |-> op, ver |-> ver]
Needs(name, op, ver) == [name |-> name, req |-> Requirement(op, ver)]

\* Three names, of which "a" may come to depend on itself through "b".
R == INSTANCE PackageRegistry WITH
       Parts <- {p1, p2, p3}, Top <- p1, MaxEdges <- 3,
       Packages <- {"a", "b", "c"}, MaxPackages <- 3,
       Releases <- {<<1, 2, 0>>, <<1, 2>>, <<2, 0, 0>>},
       Requirements <- {Requirement("~", <<1, 2, 0>>), Requirement("^", <<1, 2, 1>>)},
       DependencyLists <- {<<>>, <<Needs("b", "^", <<1>>)>>, <<Needs("a", ">=", <<1>>)>>,
                           <<Needs("b", "", <<1, 2>>), Needs("c", "x", <<1>>)>>,
                           <<Needs("c", ">", <<1, 2>>)>>}

FileEntry(p, kind, size, m) == [path |-> p, kind |-> kind, size |-> size, manifest |-> m, target |-> <<>>]
LinkEntry(p, target) == [FileEntry(p, "symlink", 0, 0) EXCEPT !.target = target]
Toml == FileEntry(<<"p", "plugin.toml">>, "file", 1, 1)
Inner == FileEntry(<<"p", "lib", "plugin.toml">>, "file", 1, 2)
Lib == FileEntry(<<"p", "lib">>, "file", 2, 0)
\* Links to the outside, into the plugin and to nothing.
EntrySet == {Toml, Inner, Lib, FileEntry(<<"p">>, "dir", 0, 0), FileEntry(<<"p", "..">>, "file", 1, 0),
             LinkEntry(<<"p", "l">>, <<"/", "o">>), LinkEntry(<<"p", "lib">>, <<"plugin.toml">>),
             FileEntry(<<"p", "l", "f">>, "file", 1, 0), FileEntry(<<"p", "d">>, "other", 0, 0),
             FileEntry(<<"/", "o">>, "dir", 0, 0), FileEntry(<<"/", "o", "x">>, "file", 1, 0),
             FileEntry(<<"p", "plugin.toml">>, "file", 1, -1), FileEntry(<<"p", "big">>, "file", 3, 0)}
X == INSTANCE PackageFiles WITH
       Files <- {"lib", "toml"}, Releases <- {1}, MaxBackups <- 2, MaxCopies <- 2, MaxSecond <- 1,
       MaxUpgrades <- 2, MaxPartial <- 1,
       Archives <- BoundedSeq(EntrySet, 2) \cup {<<Toml, Lib, Inner>>}, MaxCalls <- 2, Outside <- {<<"/", "o">>},
       Configs <- {[max_entries |-> 2, max_file |-> 2, max_total |-> 2, max_path |-> 3,
                    symlinks |-> y, absolute |-> z, overwrite |-> y /\ ~z] : y, z \in BOOLEAN}

Version(core, pre, build) == [core |-> core, pre |-> pre, build |-> build]
Text(op, parts, pre) == [op |-> op, parts |-> parts, pre |-> pre]
V == INSTANCE VersionResolver WITH
       Plugins <- {"app", "lib"}, MaxListed <- 2, MaxEdges <- 2, edges <- requirements,
       Owned <- [p \in {"app", "lib"} |-> Version(<<1, 0, 0>>, <<>>, 0)],
       Offered <- {Version(<<1, 2, 0>>, <<>>, 0), Version(<<1, 2, 0>>, <<>>, 1),
                   Version(<<1, 3, 0>>, <<<<1, 1>>, <<0, 2>>>>, 0), Version(<<0, 2, 1>>, <<>>, 0)},
       Texts <- {<<Text("", <<-1>>, <<>>)>>, <<Text("", <<1, 2, 0>>, <<>>)>>, <<Text("~", <<1, 2>>, <<>>)>>,
                 <<Text(">=", <<1, 3, 0>>, <<<<1, 1>>>>), Text("<", <<2, 0, 0>>, <<>>)>>,
                 <<Text("~", <<1, 2, 0>>, <<>>)>>}

P == INSTANCE PackageReview WITH
       Versions <- {1, 2}, Licenses <- {"MIT", "GPL-3.0"}, KeyIds <- {"k1", "k2"}, Materials <- {1, 2},
       MaxFacts <- 2, MaxRequests <- 4

C == INSTANCE PackageCompat WITH
       Word <- 16, MaxChecks <- 4,
       Composite <- "top", Parts <- {"top", "x", "y"}, Features <- {"f", "g"}, Platforms <- {"linux", "unix"},
       PartDeps <- [n \in {"top", "x", "y"} |-> IF n = "top" THEN <<"x", "y">> ELSE <<"y", "top">>],
       AbiVersions <- {[major |-> 1, minor |-> 0], [major |-> 1, minor |-> 1], [major |-> 2, minor |-> 0]},
       MaxParts <- 2, MaxEntries <- 1

\* A plugin that is upgraded from 1.0 to 1.1 and 2.0, and another one.
Source(name, version) == [name |-> name, version |-> version, complete |-> TRUE]
NamePart(text) == [text |-> text, versioned |-> text \in {"v1", "v2"}, numeric |-> text = "v1",
               platform |-> IF text = "linux" THEN text ELSE ""]
NameParts(texts) == [i \in DOMAIN texts |-> NamePart(texts[i])]
L == INSTANCE PackagerCli WITH
       Sources <- {Source("p", <<1, 0>>), Source("p", <<2, 0>>),
                   [Source("q", <<1, 1>>) EXCEPT !.complete = FALSE], Source("q", <<1, 1>>)},
       MaxCommands <- 5,
       ArtifactNames <- {NameParts(<<"p">>), NameParts(<<"my", "p">>), NameParts(<<"p", "v2">>), NameParts(<<"v1", "p">>)},
       Triples <- {NameParts(<<"x86", "linux">>), NameParts(<<"x86", "pc">>)}

-----------------------------------------------------------------------------
\* Only the chosen subject starts in more than one way.
PackagesInit ==
  /\ subject \in {"order", "registry", "tree", "backups", "archive", "versions",
                  "scan", "sandbox", "keys", "compose", "choose", "matrix",
                  "cli", "health", "manifest", "metadata"}
  /\ Init /\ (subject # "order" => deps = [n \in Nodes |-> <<>>])
  /\ X!Init /\ (subject # "archive" => ~config.symlinks /\ ~config.absolute)
  /\ V!Init /\ (subject # "versions" => strategy = "Newest" /\ ~include_prerelease)
  /\ R!Init /\ R!TreeInit /\ X!BackupInit /\ P!Init /\ C!Init /\ L!Init /\ C!HealthInit

About(s, others) == subject = s /\ UNCHANGED <<subject, others>>
Review(s) == About(s, <<vars, file_vars, plugins, tree_vars, version_vars, compat_vars, health_vars>>)
Compat(s) == About(s, <<vars, file_vars, plugins, tree_vars, version_vars, review_vars, health_vars>>)
Health(s) == About(s, <<vars, file_vars, plugins, tree_vars, version_vars, review_vars, compat_vars>>)
Order == About("order", <<file_vars, fact_vars>>) /\ Next

PackagesNext ==
  \/ Order
  \/ About("registry", <<vars, file_vars, tree_vars, version_vars, review_vars, compat_vars, health_vars>>) /\ R!Next
  \/ About("tree", <<vars, file_vars, plugins, version_vars, review_vars, compat_vars, health_vars>>) /\ R!TreeNext
  \/ About("versions", <<vars, file_vars, plugins, tree_vars, review_vars, compat_vars, health_vars>>) /\ V!Next
  \/ About("backups", <<vars, archive_vars, cli_vars, fact_vars>>) /\ X!BackupNext
  \/ About("archive", <<vars, backup_vars, cli_vars, fact_vars>>) /\ X!Next
  \/ Review("scan") /\ P!Scan
  \/ Review("sandbox") /\ P!Sandbox
  \/ Review("keys") /\ P!Keys
  \/ Compat("compose") /\ C!Compose
  \/ Compat("choose") /\ C!Choose
  \/ Compat("matrix") /\ C!Matrix
  \/ About("cli", <<vars, backup_vars, archive_vars, fact_vars>>) /\ L!Next
  \/ Health("health") /\ C!Inspect
  \/ Health("manifest") /\ C!Manifests
  \/ Health("metadata") /\ C!Metadata

\* Startup is one task that never waits for another.
PackagesSpec == PackagesInit /\ [][PackagesNext]_package_vars /\ WF_vars(Order)

-----------------------------------------------------------------------------
\* LoadOrder: startup ends, whatever the graph, with every discovered plugin
\* tried once (main.rs:373).
EachTried == subject = "order" => AllTried

\* PackageRegistry, VersionResolver and PackageCompat: searches find
\* what their definitions say and resolutions satisfy what they resolve;
\* PackageReview and PackageCompat: the parts of a review agree, and trust in
\* a key stays with what was trusted (registry.rs:290, dep_tree.rs:173,
\* resolver.rs:265, composition.rs:252, security.rs:325, signature.rs:117).
ResolutionsExact ==
  /\ subject = "registry" => R!InstallSound /\ R!RangesExact
  /\ subject = "tree" => R!TreeExact
  /\ subject = "versions" => V!RangesExact /\ V!ResolutionSound
  /\ subject \in {"compose", "choose", "matrix"} => C!CompatAgrees
  /\ subject \in {"scan", "sandbox", "keys"} => P!VerdictsAgree /\ P!TrustFixed
  /\ subject \in {"health", "manifest", "metadata"} => C!HealthAgrees

\* PackageFiles: nothing is written where it may not be, and a
\* backup is what was installed (extractor.rs:122, upgrade.rs:164).
FilesSafe == /\ subject = "archive" => X!ExtractionSound
             /\ subject = "backups" => X!BackupsFaithful
             /\ subject = "cli" => L!CommandsSound
=============================================================================
