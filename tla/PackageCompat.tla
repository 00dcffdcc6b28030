---------------------------- MODULE PackageCompat ----------------------------
(***************************************************************************)
(* Composite packages (plugin-packager/src/composition.rs), optional       *)
(* dependencies (optional_deps.rs) and the compatibility matrix            *)
(* (compat_matrix.rs): facts are added one by one, and the answers are     *)
(* computed from them.                                                     *)
(***************************************************************************)
EXTENDS Integers, Sequences, SequencesExt, FiniteSets, FiniteSetsExt

CONSTANTS Composite,   \* the composite's own name
          Parts,       \* names of components, Composite among them
          PartDeps,    \* the dependency graph: name -> sequence of names
          Features, Platforms,
          AbiVersions, \* [major, minor]
          MaxParts,    \* bound: components and dependencies
          MaxEntries   \* bound: entries of the matrix

VARIABLES components,  \* [name, version, required]
          optional,    \* [optional, default_enabled, platforms, features]
          abi, support \* abi: version -> [version -> level], or NoEntry; support: platform -> level

vars == <<components, optional, abi, support>>

Levels == 0..3   \* Incompatible, Deprecated, Compatible, Recommended
Incompatible == 0
Compatible == 2
NoEntry == <<>>

Init == /\ components = <<>> /\ optional = <<>>
        /\ abi = [v \in AbiVersions |-> NoEntry] /\ support = [p \in Platforms |-> -1]

add_component(c) == /\ Len(components) < MaxParts
                    /\ components' = Append(components, c)
                    /\ UNCHANGED <<optional, abi, support>>

\* Merging appends the components of the other composite.
merge_composites(other) == /\ Len(components) + Len(other) <= MaxParts
                           /\ components' = components \o other
                           /\ UNCHANGED <<optional, abi, support>>

Named(cs, n) == SelectSeq(cs, LAMBDA c : c.name = n)

RECURSIVE Process(_, _, _)

\* The last component of a name decides its version; only components are followed.
Process(stack, visited, resolved) ==
  IF stack = <<>> THEN resolved
  ELSE LET n == Last(stack)
           m == Named(components, n)
           new == SelectSeq(PartDeps[n], LAMBDA d : d \notin visited \cup {n})
       IN  IF n \in visited THEN Process(Front(stack), visited, resolved)
           ELSE Process(Front(stack) \o (IF m = <<>> THEN <<>> ELSE new), visited \cup {n},
                        IF m = <<>> THEN resolved
                        ELSE {r \in resolved : r.name # n} \cup {[name |-> n, version |-> Last(m).version]})

resolve_transitive_dependencies == Process(<<Composite>>, {}, {})

\* The first version stands, whatever the strategy of the composite.
detect_version_conflicts(cs) ==
  {[name |-> n, versions |-> [i \in DOMAIN Named(cs, n) |-> Named(cs, n)[i].version],
    resolved |-> Named(cs, n)[1].version] : n \in {n \in Parts : Len(Named(cs, n)) > 1}}

validate_composite == [valid |-> components # <<>>,
                       warnings |-> Cardinality({w \in {"conflicts", "required"} :
                         IF w = "conflicts" THEN detect_version_conflicts(components) # {}
                         ELSE ~\E c \in Range(components) : c.required})]

-----------------------------------------------------------------------------
AddOptional(d) == /\ Len(optional) < MaxParts
                  /\ optional' = Append(optional, d)
                  /\ UNCHANGED <<components, abi, support>>

\* On a unix build, a platform that is given as unix has every dependency.
is_platform_applicable(d, p) == "all" \in d.platforms \/ p = "unix" \/ p \in d.platforms

\* A required dependency is enabled by its features alone.
is_enabled(d, features) == (d.optional /\ d.default_enabled) \/ d.features \cap features # {}

evaluate_conditions(features, p) ==
  SelectSeq(optional, LAMBDA d : is_platform_applicable(d, p) /\ is_enabled(d, features))
filter_by_platform(p) == SelectSeq(optional, LAMBDA d : is_platform_applicable(d, p))
get_for_feature(f) == SelectSeq(optional, LAMBDA d : f \in d.features)
Optional(ds) == Len(SelectSeq(ds, LAMBDA d : d.optional))
calculate_optional_count(features) ==
  [enabled |-> Optional(evaluate_conditions(features, "all")), total |-> Optional(optional)]

\* Gates are [name, enabled, dependencies].
resolve_features(gates) == {[name |-> g.name, dependencies |-> g.dependencies] : g \in {g \in gates : g.enabled}}

\* Conditions of several parts are not taken apart: And looks for the platform,
\* Or is always true.
evaluate(type, expression, features, p) ==
  CASE type = "feature"  -> expression \subseteq features /\ expression # {}
    [] type = "platform" -> p \in expression \/ "all" \in expression
    [] type = "and"      -> p \in expression
    [] type = "or"       -> TRUE
    [] type = "not"      -> ~(expression \subseteq features)

-----------------------------------------------------------------------------
add_abi_compatibility(v, levels) ==
  /\ abi[v] = NoEntry /\ Cardinality({w \in AbiVersions : abi[w] # NoEntry}) < MaxEntries
  /\ abi' = [abi EXCEPT ![v] = levels]
  /\ UNCHANGED <<components, optional, support>>

add_platform_support(p, level) == /\ support' = [support EXCEPT ![p] = level]
                                  /\ UNCHANGED <<components, optional, abi>>

is_compatible_with(v, w) == v.major = w.major
is_backward_compatible(v, old) == v.major = old.major /\ v.minor >= old.minor

CheckIgnoresEntry(v, w) == IF is_compatible_with(v, w) THEN Compatible ELSE Incompatible

\* An entry decides alone: what it does not list is incompatible.
check_abi_compatibility(v, w) ==
  IF abi[v] # NoEntry THEN IF w \in DOMAIN abi[v] THEN abi[v][w] ELSE Incompatible
  ELSE IF is_compatible_with(v, w) THEN Compatible ELSE Incompatible

check_platform_support(p) == IF support[p] = -1 THEN Compatible ELSE support[p]
supported_platforms == {p \in Platforms : support[p] > Incompatible}

\* Deprecated versions are in neither list.
analyze_abi_version(v) ==
  [compatible   |-> {w \in DOMAIN abi[v] : abi[v][w] >= Compatible},
   incompatible |-> {w \in DOMAIN abi[v] : abi[v][w] = Incompatible},
   platforms    |-> supported_platforms]

generate_report == [abi |-> Cardinality({v \in AbiVersions : abi[v] # NoEntry}),
                    platforms |-> Cardinality(supported_platforms)]

-----------------------------------------------------------------------------
Component == [name : Parts, version : {1, 2}, required : BOOLEAN]
Compose == \/ \E c \in Component : add_component(c)
           \/ \E c, d \in Component : c.required /\ ~d.required /\ merge_composites(<<c, d>>)
OptionalDependency == [optional : BOOLEAN, default_enabled : BOOLEAN, platforms : {{"all"}, {"linux"}},
                       features : SUBSET Features]
Choose == \E d \in OptionalDependency : AddOptional(d)
Matrix == \/ \E v \in AbiVersions, ws \in SUBSET AbiVersions : \E levels \in [ws -> Levels] :
               add_abi_compatibility(v, levels)
          \/ \E p \in Platforms, l \in Levels : add_platform_support(p, l)
Next == Compose \/ Choose \/ Matrix

Spec == Init /\ [][Next]_vars

\* The components followed from the composite, the reference for the work list.
Followed ==
  LET next(S) == S \cup UNION {Range(PartDeps[n]) : n \in {n \in S : Named(components, n) # <<>>}}
      within[k \in 0..Cardinality(Parts)] == IF k = 0 THEN {Composite} ELSE next(within[k - 1])
  IN  {n \in within[Cardinality(Parts)] : Named(components, n) # <<>>}

\* A composite resolves the components it can reach, in the version of its only
\* component where it has one, and a merge loses no conflict
\* (composition.rs:252, :294); more features never drop a dependency, and a
\* dependency is chosen on a platform only if it is for it (optional_deps.rs:262);
\* the analysis of an ABI version says what a check of each pair says, and two
\* answers about platforms agree (compat_matrix.rs:211, :278).
CompatAgrees ==
  /\ LET r == resolve_transitive_dependencies
         conflicts == detect_version_conflicts(components)
     IN  /\ {x.name : x \in r} = Followed
         /\ \A x \in r : \/ Named(components, x.name)[1].version = x.version
                         \/ \E c \in conflicts : c.name = x.name
         /\ \A k \in 0..Len(components), n \in Parts :
              (\E c \in detect_version_conflicts(SubSeq(components, 1, k)) : c.name = n)
                => \E c \in conflicts : c.name = n
  /\ \A f, g \in SUBSET Features, p \in Platforms :
       /\ f \subseteq g => Range(evaluate_conditions(f, p)) \subseteq Range(evaluate_conditions(g, p))
       /\ Range(evaluate_conditions(f, p)) \subseteq Range(filter_by_platform(p))
       /\ calculate_optional_count(f).enabled <= calculate_optional_count(f).total
  /\ \A v, w \in AbiVersions :
       LET a == analyze_abi_version(v)
           l == check_abi_compatibility(v, w)
       IN  /\ w \in a.compatible => l >= Compatible
           /\ w \in a.incompatible => l = Incompatible
           /\ abi[v] # NoEntry /\ l >= Compatible => w \in a.compatible
           /\ abi[v] = NoEntry /\ abi[w] = NoEntry => l = check_abi_compatibility(w, v)
  /\ \A p \in supported_platforms : check_platform_support(p) > Incompatible

-----------------------------------------------------------------------------
(***************************************************************************)
(* What the packager reads from a manifest (plugin-packager/src/lib.rs,    *)
(* main.rs, publish.rs, metadata.rs), its check for ABI 2.0                *)
(* (abi_compat.rs) and the health score (health_check.rs).                 *)
(***************************************************************************)
CONSTANTS Word,       \* 2^32: the values of a u32
          MaxChecks   \* bound: health checks

VARIABLES checks,    \* the results so far: [passed, severity]
          manifest,  \* [package, has, flat]: the section's fields, if there is one, and the flat ones
          metadata   \* what is asked for: [concurrency, memory, dependencies, abi, maturity]

health_vars == <<checks, manifest, metadata>>

None == -1
Missing == ""
Info == 0
Warning == 1
Error == 2
Critical == 3

Fields == [name : {Missing, "p"}, version : {Missing, "1.0.0"}, abi_version : {Missing, "2"}]
NoPackage == [name |-> Missing, version |-> Missing, abi_version |-> Missing]

HealthInit == /\ checks = <<>>
              /\ manifest = [package |-> NoPackage, has |-> FALSE, flat |-> NoPackage]
              /\ metadata = [concurrency |-> None, memory |-> None, dependencies |-> <<>>, abi |-> "2", maturity |-> "alpha"]

-----------------------------------------------------------------------------
\* A [package] section has all its fields or the text does not parse; with one,
\* the flat fields are not looked at.
Parses == manifest.has => \A f \in DOMAIN manifest.package : manifest.package[f] # Missing
Effective == IF manifest.has THEN manifest.package ELSE manifest.flat
read_manifest == Parses /\ \A f \in DOMAIN Effective : Effective[f] # Missing

\* Field by field: the section's, or else the flat one.
extract(f) == IF manifest.has /\ manifest.package[f] # Missing THEN manifest.package[f] ELSE manifest.flat[f]
\* abi_version is 1 if there is none.
parse_plugin_toml == [abi_version |-> IF extract("abi_version") = Missing THEN "1" ELSE extract("abi_version")]

\* The words are looked for anywhere in the text: version is part of abi_version.
Mentions(f) == manifest.flat[f] # Missing \/ (manifest.has /\ manifest.package[f] # Missing)
validate_manifest == Mentions("name") /\ Mentions("abi_version")

\* The flat form is not read here.
from_manifest == manifest.has /\ Parses

Write(p, has, f) == /\ manifest' = [package |-> p, has |-> has, flat |-> f]
                    /\ UNCHANGED <<checks, metadata>>

-----------------------------------------------------------------------------
\* Options become numbers, and usize becomes u32; 1 stands for the default memory.
OrElse(v, default) == IF v = None THEN default ELSE v
to_abi_compatible ==
  [min_cpu |-> 1, max_cpu |-> OrElse(metadata.concurrency, 4) % Word,
   min_memory |-> OrElse(metadata.memory, 1) % Word,
   max_memory |-> (OrElse(metadata.memory, 1) * 2) % Word]

abi_errors(info) ==
  (IF metadata.maturity = "deprecated" THEN 1 ELSE 0)
  + (IF info.min_cpu > info.max_cpu THEN 1 ELSE 0)
  + (IF info.min_memory > info.max_memory THEN 1 ELSE 0)
  + Len(SelectSeq(metadata.dependencies, LAMBDA d : d.name = Missing))
  + Len(SelectSeq(metadata.dependencies, LAMBDA d : d.range = Missing))
abi_warnings == (IF metadata.abi \in {"1", "3"} THEN 1 ELSE 0) + (IF metadata.maturity = "alpha" THEN 1 ELSE 0)
abi_parses(v) == v \in {"1", "1.0", "2", "2.0", "3", "3.0"}
validate == [compatible |-> abi_errors(to_abi_compatible) = 0, warnings |-> abi_warnings]
is_abi_v2_compatible == metadata.abi \in {"2", "2.0", "3", "3.0"}

Ask(m) == metadata' = m /\ UNCHANGED <<checks, manifest>>

-----------------------------------------------------------------------------
Result(passed, severity) == [passed |-> passed, severity |-> severity]
check_binary_exists(exists) == Result(exists, IF exists THEN Info ELSE Critical)
check_binary_validity(exists, size) ==
  IF ~exists THEN Result(FALSE, Critical) ELSE Result(size > 0, IF size > 0 THEN Info ELSE Error)
check_platform_compatibility(exists, match) ==
  IF ~exists THEN Result(FALSE, Critical) ELSE Result(match, IF match THEN Info ELSE Warning)
check_performance_baseline(within) == Result(within, IF within THEN Info ELSE Warning)
\* Two of the three default symbols are required.
check_required_symbols == Result(TRUE, Info)

Check(r) == /\ Len(checks) < MaxChecks
            /\ checks' = Append(checks, r)
            /\ UNCHANGED <<manifest, metadata>>

Penalty(c) == (CASE c.severity = Critical -> 20 [] c.severity = Error -> 10
                 [] c.severity = Warning -> 5 [] c.severity = Info -> 0)
              + (IF c.passed THEN 0 ELSE 5)
Saturating(a, b) == IF a < b THEN 0 ELSE a - b

ScoreWrapping(cs) ==
  IF cs = <<>> THEN 50
  ELSE LET s == FoldLeft(LAMBDA n, c : (n - Penalty(c)) % Word, 100, cs)
       IN  IF \E i \in DOMAIN cs : cs[i].severity = Critical THEN Min({s, 30}) ELSE s

calculate_health_score(cs) ==
  IF cs = <<>> THEN 50
  ELSE LET s == FoldLeft(LAMBDA n, c : Saturating(n, Penalty(c)), 100, cs)
       IN  IF \E i \in DOMAIN cs : cs[i].severity = Critical THEN Min({s, 30}) ELSE s

from_score(s) == CASE s \in 90..100 -> "Excellent" [] s \in 75..89 -> "Good" [] s \in 60..74 -> "Fair"
                   [] s \in 40..59 -> "Poor" [] OTHER -> "Critical"

generate_recommendations(cs) ==
  [fixes |-> Len(SelectSeq(cs, LAMBDA c : ~c.passed)), status |-> from_score(calculate_health_score(cs))]

-----------------------------------------------------------------------------
Inspect == \/ \E e, m \in BOOLEAN, size \in 0..1 :
                \E r \in {check_binary_exists(e), check_binary_validity(e, size),
                          check_platform_compatibility(e, m), check_performance_baseline(m),
                          check_required_symbols} : Check(r)
Manifests == \E p, f \in Fields, has \in BOOLEAN : Write(p, has, f)
Ranges == {<<>>, <<[name |-> "d", range |-> "1"]>>, <<[name |-> "d", range |-> Missing]>>}
Metadata == \E c \in {None, 0, 1, Word}, m \in {None, 0, 1, Word \div 2 - 1, Word \div 2, Word},
               d \in Ranges, a \in {"1", "2", "9"}, l \in {"alpha", "deprecated"} :
              Ask([concurrency |-> c, memory |-> m, dependencies |-> d, abi |-> a, maturity |-> l])
HealthNext == Inspect \/ Manifests \/ Metadata

HealthSpec == HealthInit /\ [][HealthNext]_health_vars

\* The score does not depend on the order of the checks and no further check
\* raises it, a critical one makes the plugin critical, and a score in the
\* better half means that nothing critical was found (calculate_health_score,
\* health_check.rs:487); what verify_artifact accepts, every other reader of
\* the manifest reads alike, if it reads it (read_manifest, lib.rs:143); a
\* request is compatible unless its processors vanish or its memory does not fit
\* a u32 twice (to_abi_compatible, metadata.rs:289).
HealthAgrees ==
  /\ LET s == calculate_health_score(checks)
     IN  /\ s \in 0..100 /\ from_score(s) = generate_recommendations(checks).status
         /\ \A i, j \in DOMAIN checks :
              calculate_health_score([checks EXCEPT ![i] = checks[j], ![j] = checks[i]]) = s
         /\ Len(checks) > 1 => s <= calculate_health_score(Front(checks))
         /\ (\E c \in Range(checks) : c.severity = Critical) => from_score(s) = "Critical"
         /\ generate_recommendations(checks).fixes > 0 => s < 100
  /\ read_manifest => /\ \A f \in DOMAIN Effective : extract(f) = Effective[f]
                      /\ validate_manifest /\ parse_plugin_toml.abi_version = Effective.abi_version
                      /\ manifest.has => from_manifest
  /\ LET fits == \A d \in Range(metadata.dependencies) : d.name # Missing /\ d.range # Missing
     IN  abi_parses(metadata.abi) =>
           (validate.compatible <=> /\ metadata.concurrency = None \/ metadata.concurrency % Word # 0
                                    /\ metadata.memory = None \/ 2 * (metadata.memory % Word) < Word
                                    /\ metadata.maturity # "deprecated" /\ fits)
=============================================================================
