-------------------------- MODULE PackageRegistry ---------------------------
(***************************************************************************)
(* The packager's local registry, its version requirements and its         *)
(* resolver (plugin-packager/src/registry.rs).  A version is the sequence  *)
(* of the parts between its dots; a part that is no number is Junk.        *)
(***************************************************************************)
EXTENDS Integers, Sequences, SequencesExt, FiniteSets, FiniteSetsExt

CONSTANTS Packages,      \* plugin names
          Releases,      \* versions, several of which may parse alike
          Requirements,  \* requirements, [op, ver]
          DependencyLists,  \* the lists of [name, req] that entries come with
          MaxPackages    \* bound: entries of the registry

VARIABLE plugins  \* the entries: [name, version, dependencies]

Junk == -1

Init == plugins = {}

\* The key is name:version, so a second registration replaces the entry.
register(n, v, deps) ==
  /\ Cardinality(plugins) < MaxPackages
  /\ plugins' = {e \in plugins : e.name # n \/ e.version # v}
                \cup {[name |-> n, version |-> v, dependencies |-> deps]}

\* Removing what is not there is no error.
remove(n, v) == plugins' = {e \in plugins : e.name # n \/ e.version # v}

Next == \/ \E n \in Packages, v \in Releases, d \in DependencyLists : register(n, v, d)
        \/ \E n \in Packages, v \in Releases : remove(n, v)

Spec == Init /\ [][Next]_plugins

-----------------------------------------------------------------------------
find_by_version(n, v) == {e \in plugins : e.name = n /\ e.version = v}

\* A part that is missing or does not parse counts as 0.
parse_version(v) ==
  [i \in 1..3 |-> IF i > Len(v) \/ v[i] = Junk THEN 0 ELSE v[i]]

\* Tuples are compared part by part.
Before(p, q) == \E i \in 1..3 : p[i] < q[i] /\ \A j \in 1..(i - 1) : p[j] = q[j]

\* "=": the sign stays in the text, so that the first part does not parse.
matches(q, v) ==
  LET r == IF q.op = "=" THEN parse_version([q.ver EXCEPT ![1] = Junk]) ELSE parse_version(q.ver)
      a == parse_version(v)
  IN  CASE q.op = "x"  -> Len(v) >= Len(q.ver) /\ SubSeq(v, 1, Len(q.ver)) = q.ver
        [] q.op = ""   -> v = q.ver
        [] q.op = "="  -> r = a
        [] q.op = "!=" -> r # a
        [] q.op = ">"  -> Before(r, a)
        [] q.op = ">=" -> ~Before(a, r)
        [] q.op = "<"  -> Before(a, r)
        [] q.op = "<=" -> ~Before(r, a)
        [] q.op = "~"  -> a[1] = r[1] /\ a[2] = r[2] /\ a[3] >= r[3]
        [] q.op = "^"  -> a[1] = r[1] /\ ~Before(a, r)

\* max_by: the last of the highest in the order in which the map is listed.
find_matching_version(n, q, listing) ==
  LET found == {e.version : e \in {e \in plugins : e.name = n /\ matches(q, e.version)}}
      top   == {v \in found : \A w \in found : ~Before(parse_version(v), parse_version(w))}
  IN  {v \in top : \A w \in top : listing[w] <= listing[v]}

get_latest(n, listing) == find_matching_version(n, [op |-> ">=", ver |-> <<0>>], listing)

Fresh == [order |-> <<>>, version_map |-> {}, unmet |-> {}, visited |-> {}]

AddTo(r, n, v) ==
  IF \E i \in DOMAIN r.order : r.order[i] = n THEN r
  ELSE [r EXCEPT !.order = Append(@, n), !.version_map = @ \cup {[name |-> n, version |-> v]}]

RECURSIVE resolve_recursive(_, _, _, _), ResolveAll(_, _, _, _)

\* The dependencies of n in their order.
ResolveAll(n, deps, listing, r) ==
  IF deps = <<>> THEN r
  ELSE LET d == Head(deps)
           m == find_matching_version(d.name, d.req, listing)
           s == IF m = {} THEN [r EXCEPT !.unmet = @ \cup {[name |-> d.name, by |-> n, req |-> d.req]}]
                ELSE resolve_recursive(d.name, CHOOSE v \in m : TRUE, listing, r)
       IN  ResolveAll(n, Tail(deps), listing, s)

\* Depth first; the first version of a name that is finished is the one installed.
resolve_recursive(n, v, listing, r) ==
  IF [name |-> n, version |-> v] \in r.visited THEN r
  ELSE LET s == [r EXCEPT !.visited = @ \cup {[name |-> n, version |-> v]}]
       IN  IF find_by_version(n, v) = {} THEN s
           ELSE AddTo(ResolveAll(n, (CHOOSE e \in find_by_version(n, v) : TRUE).dependencies, listing, s),
                      n, v)

resolve(n, v, listing) == resolve_recursive(n, v, listing, Fresh)

-----------------------------------------------------------------------------
Listings == {f \in [Releases -> 1..Cardinality(Releases)] : IsInjective(f)}
At(order, n) == CHOOSE i \in DOMAIN order : order[i] = n

\* What the installed versions of the packages in S depend on, and all below n.
Needs(chosen, S) ==
  {m \in Packages : \E e \in plugins : /\ [name |-> e.name, version |-> e.version] \in chosen
                                       /\ e.name \in S
                                       /\ \E d \in Range(e.dependencies) : d.name = m}
Below(chosen, n) ==
  LET within[k \in Nat] == IF k = 0 THEN Needs(chosen, {n})
                           ELSE within[k - 1] \cup Needs(chosen, within[k - 1])
  IN  within[Cardinality(Packages)]

\* A resolution names each package once, in a registered version, and a
\* dependency is either reported unmet, exactly when nothing registered fits,
\* or, if no package was met in two versions, installed in a version that fits
\* and, unless the two depend on each other, before the package that needs it
\* (resolve_recursive, registry.rs:290).
InstallSound ==
  \A e \in plugins, listing \in Listings :
    LET r == resolve(e.name, e.version, listing)
        entry(n) == CHOOSE f \in plugins : [name |-> f.name, version |-> f.version] \in r.version_map
                                           /\ f.name = n
        one == \A x, y \in r.visited : x.name = y.name => x = y
    IN  /\ IsInjective(r.order)
        /\ {x.name : x \in r.version_map} = Range(r.order)
        /\ \A x \in r.version_map : find_by_version(x.name, x.version) # {}
        /\ \A u \in r.unmet : \A f \in plugins : f.name = u.name => ~matches(u.req, f.version)
        /\ one => \A n \in Range(r.order) : \A i \in DOMAIN entry(n).dependencies :
             LET d == entry(n).dependencies[i]
             IN  \/ [name |-> d.name, by |-> n, req |-> d.req] \in r.unmet
                 \/ /\ d.name \in Range(r.order)
                    /\ matches(d.req, entry(d.name).version)
                    /\ \/ At(r.order, d.name) < At(r.order, n)
                       \/ n \in Below(r.version_map, d.name)

\* "~1.2.3 := >=1.2.3, <1.3.0" and "^1.2.3 := >=1.2.3, <2.0.0"
\* (VersionRequirement::matches, registry.rs:159).
RangesExact ==
  \A v \in Releases, q \in Requirements :
    LET r == parse_version(q.ver)
        within(top) == ~Before(parse_version(v), r) /\ Before(parse_version(v), top)
    IN  /\ q.op = "~" => (matches(q, v) <=> within(<<r[1], r[2] + 1, 0>>))
        /\ q.op = "^" => (matches(q, v) <=> within(<<r[1] + 1, 0, 0>>))

-----------------------------------------------------------------------------
(***************************************************************************)
(* The packager's dependency tree and its analyses                         *)
(* (plugin-packager/src/dep_tree.rs): edges are listed in the order in     *)
(* which they were added, nodes in the order of a hash map.                *)
(***************************************************************************)

CONSTANTS Parts,     \* the plugins of the graph
          Top,       \* the root
          MaxEdges   \* bound: edges of the graph

VARIABLES edges,  \* [from, to, optional]
          nodes   \* the names that have a version

tree_vars == <<edges, nodes>>

Edges == [from : Parts, to : Parts, optional : BOOLEAN]

TreeInit == edges = <<>> /\ nodes = {Top}

\* The source of an edge does not become a node.
add_dependency(e) == /\ Len(edges) < MaxEdges
                     /\ edges' = Append(edges, e)
                     /\ nodes' = nodes \cup {e.to}

TreeNext == \E e \in Edges : add_dependency(e)

TreeSpec == TreeInit /\ [][TreeNext]_tree_vars

-----------------------------------------------------------------------------
direct_dependencies(n) ==
  LET own == SelectSeq(edges, LAMBDA e : e.from = n) IN [i \in DOMAIN own |-> own[i].to]

RECURSIVE dfs_cycle_detection(_, _), Neighbours(_, _, _), Detect(_, _)

CycleFrom(path, m) == SubSeq(path, CHOOSE i \in DOMAIN path : path[i] = m, Len(path))

\* A cycle of one node starts and ends with it, and is dropped.
Close(s, m) ==
  LET c == CycleFrom(s.path, m)
  IN  IF c[1] = Last(c) THEN s ELSE [s EXCEPT !.cycles = Append(@, Append(c, m))]

Neighbours(n, ms, s) ==
  IF ms = <<>> THEN s
  ELSE LET m == Head(ms)
           t == CASE m \notin s.visited     -> dfs_cycle_detection(m, s)
                  [] m \in Range(s.path)    -> Close(s, m)
                  [] OTHER                  -> s
       IN  Neighbours(n, Tail(ms), t)

\* The recursion stack is the set of the nodes on the path.
dfs_cycle_detection(n, s) ==
  LET t == Neighbours(n, direct_dependencies(n),
                      [s EXCEPT !.visited = @ \cup {n}, !.path = Append(@, n)])
  IN  [t EXCEPT !.path = Front(@)]

Detect(listing, s) ==
  IF listing = <<>> THEN s.cycles
  ELSE Detect(Tail(listing), IF Head(listing) \in s.visited THEN s ELSE dfs_cycle_detection(Head(listing), s))

detect_circular_dependencies(listing) ==
  Detect(listing, [visited |-> {}, path |-> <<>>, cycles |-> <<>>])

RECURSIVE build_tree_recursive(_, _, _), Children(_, _, _)

\* The tree in the order in which it is built: [name, depth] of each node.
Children(ms, depth, s) ==
  IF ms = <<>> THEN s ELSE Children(Tail(ms), depth, build_tree_recursive(Head(ms), depth, s))

\* A plugin met again is a leaf.
build_tree_recursive(n, depth, s) ==
  LET t == [s EXCEPT !.tree = Append(@, [name |-> n, depth |-> depth])]
  IN  IF n \in s.visited THEN t
      ELSE Children(direct_dependencies(n), depth + 1, [t EXCEPT !.visited = @ \cup {n}])

build_tree == build_tree_recursive(Top, 0, [visited |-> {}, tree |-> <<>>]).tree

\* The first occurrence in the tree, from the left.
node_depth(n) == LET found == SelectSeq(build_tree, LAMBDA t : t.name = n)
                 IN  IF found = <<>> THEN -1 ELSE found[1].depth

calculate_metrics(listing) ==
  [total_nodes |-> Cardinality(nodes), total_edges |-> Len(edges),
   max_depth |-> Max({build_tree[i].depth : i \in DOMAIN build_tree}),
   circular |-> Len(detect_circular_dependencies(listing)),
   optional |-> Len(SelectSeq(edges, LAMBDA e : e.optional))]

RECURSIVE Transitive(_, _, _), Search(_, _, _)

Transitive(queue, visited, result) ==
  IF queue = <<>> THEN result
  ELSE LET c == Head(queue) IN
       IF c \in visited THEN Transitive(Tail(queue), visited, result)
       ELSE Transitive(Tail(queue) \o direct_dependencies(c), visited \cup {c},
                       result \cup Range(direct_dependencies(c)))

transitive_dependencies(n) == Transitive(<<n>>, {}, {})

UnseenLast(c, seen) == Reverse(SelectSeq(direct_dependencies(c), LAMBDA m : m \notin seen))

\* The neighbours of c that were not seen, each once, in their order.
Unseen(c, seen) ==
  LET d == direct_dependencies(c)
      first == {i \in DOMAIN d : d[i] \notin seen /\ \A j \in 1..(i - 1) : d[j] # d[i]}
  IN  [k \in 1..Cardinality(first) |-> d[CHOOSE i \in first : Cardinality({j \in first : j <= i}) = k]]

\* A queue of paths stands for the queue of names and the parent map.
Search(paths, seen, to) ==
  IF paths = <<>> THEN <<>>
  ELSE LET p == Head(paths)
           new == Unseen(Last(p), seen)
       IN  IF Last(p) = to THEN p
           ELSE Search(Tail(paths) \o [k \in DOMAIN new |-> Append(p, new[k])], seen \cup Range(new), to)

shortest_path(from, to) == Search(<<<<from>>>>, {from}, to)

-----------------------------------------------------------------------------
\* The plugins reached from n by exactly k edges, the reference for the searches.
Within[k \in 0..Cardinality(Parts)] ==
  IF k = 0 THEN [n \in Parts |-> {n}]
  ELSE [n \in Parts |-> UNION {Range(direct_dependencies(m)) : m \in Within[k - 1][n]}]
Steps == 1..Cardinality(Parts)
Reachable(n) == UNION {Within[k][n] : k \in Steps}
OnLongCycle(n) == \E m \in Reachable(n) \ {n} : n \in Reachable(m)

\* Whatever the order of the map, every cycle reported is one of the graph, one
\* is reported exactly when two plugins depend on each other, the transitive
\* dependencies are the plugins reached, the shortest path is one and none is
\* shorter, and the tree holds what the root reaches, no nearer than it is
\* (dep_tree.rs:173, :238, :357, :383).
TreeExact ==
  /\ \A listing \in SetToSeqs(nodes) :
       LET cycles == detect_circular_dependencies(listing)
       IN  /\ \A i \in DOMAIN cycles :
                LET c == cycles[i]
                IN  /\ c[1] = Last(c) /\ IsInjective(Front(c))
                    /\ \A j \in 1..(Len(c) - 1) : c[j + 1] \in Range(direct_dependencies(c[j]))
           /\ (\E n \in UNION {Reachable(m) : m \in nodes} \cup nodes : OnLongCycle(n)) <=> cycles # <<>>
           /\ calculate_metrics(listing).max_depth < Cardinality(nodes \cup {e.from : e \in Range(edges)}) + 1
  /\ {build_tree[i].name : i \in DOMAIN build_tree} = {Top} \cup Reachable(Top)
  /\ \A n \in Parts :
       /\ transitive_dependencies(n) = Reachable(n)
       /\ node_depth(n) >= 0 => n \in Within[IF n = Top THEN 0 ELSE Len(shortest_path(Top, n)) - 1][Top]
                                /\ node_depth(n) >= Len(shortest_path(Top, n)) - 1
       /\ \A m \in Parts \ {n} :
            LET p == shortest_path(n, m)
            IN  IF m \notin Reachable(n) THEN p = <<>>
                ELSE /\ p[1] = n /\ Last(p) = m
                     /\ \A j \in 1..(Len(p) - 1) : p[j + 1] \in Range(direct_dependencies(p[j]))
                     /\ \A k \in Steps : m \in Within[k][n] => Len(p) - 1 <= k
=============================================================================
