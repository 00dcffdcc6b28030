--------------------------- MODULE VersionResolver ---------------------------
(***************************************************************************)
(* Semantic versions, version requirements and the resolver of the ABI     *)
(* crate (abi/src/dependencies/version.rs, constraints.rs, resolver.rs).   *)
(* A version is [core, pre, build]: core has three numbers, pre is a       *)
(* sequence of identifiers (<<>> is stable), an identifier <<0, n>> a      *)
(* number and <<1, n>> a word; words are ordered by n.  The graph is       *)
(* acyclic here: LoadOrder is about its cycles and its order.              *)
(***************************************************************************)
EXTENDS Integers, Sequences, SequencesExt, FiniteSets

CONSTANTS Plugins,
          Owned,     \* the version each plugin of the graph comes in
          Offered,   \* the versions that may be registered
          Texts,     \* requirements as written: sequences of [op, parts, pre]
          MaxListed, \* bound: versions registered for a plugin
          MaxEdges   \* bound: requirements

VARIABLES available,  \* the registered versions of each plugin, <<>> if none
          edges,      \* [from, to, req]: parsed requirements
          strategy, include_prerelease

vars == <<available, edges, strategy, include_prerelease>>

-----------------------------------------------------------------------------
Sign(a, b) == IF a < b THEN -1 ELSE IF a > b THEN 1 ELSE 0

\* The first difference decides, and then the length.
Lexical(s, t) ==
  LET n == IF Len(s) < Len(t) THEN Len(s) ELSE Len(t)
      differ == {i \in 1..n : s[i] # t[i]}
      i == CHOOSE k \in differ : \A m \in differ : k <= m
  IN  [at |-> IF differ = {} THEN 0 ELSE i, length |-> Sign(Len(s), Len(t))]

\* A number comes before a word.
identifier_cmp(a, b) == IF a[1] # b[1] THEN Sign(a[1], b[1]) ELSE Sign(a[2], b[2])

prerelease_cmp(p, q) == LET d == Lexical(p, q)
                        IN  IF d.at = 0 THEN d.length ELSE identifier_cmp(p[d.at], q[d.at])

\* A stable version comes after its pre-releases; the build is not compared.
cmp(v, w) == LET d == Lexical(v.core, w.core)
             IN  CASE d.at # 0 -> Sign(v.core[d.at], w.core[d.at])
                   [] v.pre = <<>> \/ w.pre = <<>> ->
                        Sign(IF v.pre = <<>> THEN 1 ELSE 0, IF w.pre = <<>> THEN 1 ELSE 0)
                   [] OTHER -> prerelease_cmp(v.pre, w.pre)

is_stable(v) == v.pre = <<>>

\* Version::parse takes exactly three parts, all of them numbers.
Star == -1
Parses(t) == Len(t.parts) = 3 /\ Star \notin Range(t.parts)
version_parse(t) == [core |-> t.parts, pre |-> t.pre, build |-> 0]

\* A lone * is the wildcard of 0.0.0, and no operator means a caret.
constraint_parse(t) ==
  IF t.op = "" /\ t.parts = <<Star>>
  THEN [op |-> "*", version |-> [core |-> <<0, 0, 0>>, pre |-> <<>>, build |-> 0]]
  ELSE [op |-> IF t.op = "" THEN "^" ELSE t.op, version |-> version_parse(t)]

\* VersionReq::parse: one text that does not parse fails the requirement.
req_parses(ts) == \A i \in DOMAIN ts : Parses(ts[i]) \/ (ts[i].op = "" /\ ts[i].parts = <<Star>>)
req_parse(ts) == IF ts = <<[op |-> "", parts |-> <<Star>>, pre |-> <<>>]>> THEN {}
                 ELSE {constraint_parse(ts[i]) : i \in DOMAIN ts}

matches_caret(c, v) ==
  LET k == c.version.core
  IN  /\ cmp(v, c.version) >= 0
      /\ v.core[1] = k[1]
      /\ k[1] = 0 => v.core[2] = k[2]
      /\ k[1] = 0 /\ k[2] = 0 => v.core[3] = k[3]

matches_tilde(c, v) == cmp(v, c.version) >= 0 /\ SubSeq(v.core, 1, 2) = SubSeq(c.version.core, 1, 2)

matches_wildcard(c, v) ==
  LET k == c.version.core
  IN  CASE k = <<0, 0, 0>>          -> TRUE
        [] k[2] = 0 /\ k[3] = 0     -> v.core[1] = k[1]
        [] k[3] = 0                 -> SubSeq(v.core, 1, 2) = SubSeq(k, 1, 2)
        [] OTHER                    -> cmp(v, c.version) >= 0

constraint_matches(c, v) ==
  CASE c.op = "="  -> v = c.version
    [] c.op = ">"  -> cmp(v, c.version) > 0
    [] c.op = ">=" -> cmp(v, c.version) >= 0
    [] c.op = "<"  -> cmp(v, c.version) < 0
    [] c.op = "<=" -> cmp(v, c.version) <= 0
    [] c.op = "^"  -> matches_caret(c, v)
    [] c.op = "~"  -> matches_tilde(c, v)
    [] c.op = "*"  -> matches_wildcard(c, v)

req_matches(r, v) == \A c \in r : constraint_matches(c, v)

-----------------------------------------------------------------------------
Init == /\ available = [p \in Plugins |-> <<>>] /\ edges = {}
        /\ strategy \in {"Newest", "Oldest", "CloseToTarget"} /\ include_prerelease \in BOOLEAN

add_plugin_versions(p, vs) == /\ available' = [available EXCEPT ![p] = vs]
                              /\ UNCHANGED <<edges, strategy, include_prerelease>>

Depend(p, q, ts) == /\ req_parses(ts) /\ Cardinality(edges) < MaxEdges
                    /\ edges' = edges \cup {[from |-> p, to |-> q, req |-> req_parse(ts)]}
                    /\ UNCHANGED <<available, strategy, include_prerelease>>

Next ==
  \/ \E p \in Plugins, n \in 1..MaxListed : \E vs \in [1..n -> Offered] :
       available[p] = <<>> /\ IsInjective(vs) /\ add_plugin_versions(p, vs)
  \/ \E p, q \in Plugins, ts \in Texts : p # q /\ (\A e \in edges : e.from # q) /\ Depend(p, q, ts)

Spec == Init /\ [][Next]_vars

-----------------------------------------------------------------------------
collect_requirements(p) == {e.req : e \in {e \in edges : e.to = p}}

\* Without registered versions the plugin's own is the only candidate.
CandidatesOf(p) ==
  LET all == IF available[p] = <<>> THEN <<Owned[p]>> ELSE available[p]
  IN  SelectSeq(all, LAMBDA v : include_prerelease \/ is_stable(v))

SatisfyingAny(p) == SelectSeq(CandidatesOf(p), LAMBDA v : \E r \in collect_requirements(p) : req_matches(r, v))

Satisfying(p) == SelectSeq(CandidatesOf(p), LAMBDA v : \A r \in collect_requirements(p) : req_matches(r, v))

\* Iterator::max gives the last of the highest, min the first of the lowest.
select_version(p) ==
  LET s == Satisfying(p)
      best(i, j) == IF strategy = "Oldest" THEN cmp(s[i], s[j]) < 0 \/ (cmp(s[i], s[j]) = 0 /\ i <= j)
                    ELSE cmp(s[i], s[j]) > 0 \/ (cmp(s[i], s[j]) = 0 /\ i >= j)
  IN  s[CHOOSE i \in DOMAIN s : \A j \in DOMAIN s : best(i, j)]

resolve_plugin(p) == [id |-> p, version |-> select_version(p), required_by |-> collect_requirements(p),
                      warned |-> ~is_stable(select_version(p))]

\* The first plugin without a satisfying version fails the resolution.
Resolves == \A p \in Plugins : Satisfying(p) # <<>>
resolve == {resolve_plugin(p) : p \in Plugins}

\* Pre-releases count here whatever the setting, and a plugin's own version does not.
detect_conflicts ==
  {p \in Plugins : /\ collect_requirements(p) # {}
                   /\ ~\E i \in DOMAIN available[p] :
                        \A r \in collect_requirements(p) : req_matches(r, available[p][i])}

can_resolve == detect_conflicts = {}

-----------------------------------------------------------------------------
Bump(k, i) == [j \in 1..3 |-> IF j < i THEN k[j] ELSE IF j = i THEN k[j] + 1 ELSE 0]
Below(v, k) == cmp(v, [core |-> k, pre |-> <<>>, build |-> 0]) < 0

\* The order of versions is one, and the ranges documented for a caret and a
\* tilde are those of stable versions (matches_caret, constraints.rs:140;
\* matches_tilde, constraints.rs:163; Version::cmp, version.rs:317).
RangesExact ==
  \A v, w \in Offered :
    LET k == w.core
        above == cmp(v, w) >= 0
        c(op) == [op |-> op, version |-> w]
    IN  /\ cmp(v, w) = -cmp(w, v)
        /\ cmp(v, w) = 0 <=> v.core = w.core /\ v.pre = w.pre
        /\ \A u \in Offered : cmp(v, w) <= 0 /\ cmp(w, u) <= 0 => cmp(v, u) <= 0
        /\ is_stable(v) =>
             /\ matches_tilde(c("~"), v) <=> above /\ Below(v, Bump(k, 2))
             /\ matches_caret(c("^"), v) <=>
                  above /\ Below(v, Bump(k, IF k[1] > 0 THEN 1 ELSE IF k[2] > 0 THEN 2 ELSE 3))

\* A resolution satisfies every requirement with the newest candidate (the
\* oldest under Oldest), takes no pre-release unless it may, and succeeds
\* whenever can_resolve says so, pre-releases are included and every plugin has
\* registered versions (resolve, resolver.rs:265; can_resolve, resolver.rs:444).
ResolutionSound ==
  /\ Resolves => \A r \in resolve :
       /\ \A q \in r.required_by : req_matches(q, r.version)
       /\ r.warned => include_prerelease
       /\ available[r.id] # <<>> => r.version \in Range(available[r.id])
       /\ \A v \in Range(Satisfying(r.id)) :
            IF strategy = "Oldest" THEN cmp(r.version, v) <= 0 ELSE cmp(v, r.version) <= 0
  /\ (\A p \in Plugins : available[p] # <<>>) =>
       /\ Resolves => can_resolve
       /\ can_resolve /\ include_prerelease => Resolves
=============================================================================
