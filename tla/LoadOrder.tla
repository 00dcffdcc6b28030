----------------------------- MODULE LoadOrder ------------------------------
(***************************************************************************)
(* The order in which the server loads its plugins at startup (main.rs):   *)
(* PluginDependencyResolver builds a DependencyGraph of the discovered     *)
(* plugins and their required dependencies, looks for cycles with a        *)
(* depth-first search and sorts with Kahn's algorithm; if that fails the   *)
(* plugins are loaded in discovery order.                                  *)
(*                                                                         *)
(* The iteration order of the HashMaps and HashSets is any order; that of  *)
(* a plugin's Vec of dependencies is kept, and so are its duplicates (one  *)
(* dependency listed with two version ranges) and the names of plugins     *)
(* that were not discovered.                                               *)
(***************************************************************************)
EXTENDS Naturals, FiniteSets, SequencesExt

CONSTANTS Discovered,  \* the discovered plugins, sorted by name
          Absent,      \* names that no discovered plugin has
          Bootstrap,   \* plugins that the bootstrap has loaded already
          MaxDeps,     \* bound: length of a plugin's list of dependencies
          MaxEdges     \* bound: dependencies of all plugins together

Nodes == ToSet(Discovered)
Names == Nodes \cup Absent

ASSUME LoadOrderAssumption ==
  /\ Discovered \in Seq(Nodes)
  /\ Cardinality(Nodes) = Len(Discovered)
  /\ Absent \cap Nodes = {}
  /\ MaxDeps \in Nat /\ MaxEdges \in Nat

VARIABLES
  deps,       \* manifests[n].dependencies
  phase,
  visited, path, position,  \* detect_cycles_dfs; position: the next dependency of a name
  cycles,
  in_degree, queue, order,  \* topological_sort
  outcome,    \* how resolve_loading_order ended
  ordered,    \* ordered_plugins of main.rs, and what is left of it
  loaded, failed

graph == <<deps>>
dfs   == <<visited, path, position, cycles>>
sort  == <<in_degree, queue, order>>
load  == <<ordered, loaded, failed>>
vars  == <<graph, phase, dfs, sort, outcome, load>>

-----------------------------------------------------------------------------
(* The graph.                                                              *)

DepsOf(n) == IF n \in Nodes THEN deps[n] ELSE << >>
Edges == FoldSeq(LAMBDA n, sum : sum + Len(deps[n]), 0, Discovered)

\* dependents is a HashMap of HashSets: a duplicate counts once.
Dependents(n) == {m \in Nodes : n \in ToSet(deps[m])}

TypeOK ==
  /\ deps \in [Nodes -> Seq(Names)]
  /\ phase \in {"build", "dfs", "sort", "load", "done"}
  /\ visited \subseteq Names
  /\ path \in Seq(visited)
  /\ position \in [Names -> Nat \ {0}]
  /\ cycles \subseteq Seq(Names)
  /\ in_degree \in [Nodes -> Nat]
  /\ queue \in Seq(Nodes) /\ order \in Seq(Nodes)
  /\ outcome \in {"none", "invalid", "cycle", "stuck", "order"}
  /\ ordered \in Seq(Nodes)
  /\ loaded \subseteq Nodes /\ failed \subseteq Nodes

Init ==
  /\ deps \in [Nodes -> BoundedSeq(Names, MaxDeps)] /\ Edges <= MaxEdges
  /\ phase = "build"
  /\ visited = {} /\ path = << >> /\ cycles = {}
  /\ position = [n \in Names |-> 1]
  /\ in_degree = [n \in Nodes |-> 0] /\ queue = << >> /\ order = << >>
  /\ outcome = "none"
  /\ ordered = << >> /\ loaded = {} /\ failed = {}

\* resolve_loading_order returns; main.rs takes its order or, on an error, the
\* order of discovery.
Resolved(how, s) ==
  /\ outcome' = how
  /\ ordered' = IF how = "order" THEN s ELSE Discovered
  /\ phase' = "load"
  /\ UNCHANGED <<loaded, failed>>

-----------------------------------------------------------------------------
(* build_plugin_node, add_plugin: fails when a version requirement does    *)
(* not parse.                                                              *)

Build ==
  /\ phase = "build"
  /\ phase' = "dfs"
  /\ UNCHANGED <<graph, dfs, sort, outcome, load>>

BuildInvalid ==
  /\ phase = "build" /\ \E n \in Nodes : deps[n] # << >>
  /\ Resolved("invalid", << >>)
  /\ UNCHANGED <<graph, dfs, sort>>

-----------------------------------------------------------------------------
(* detect_cycles and detect_cycles_dfs.  rec_stack is the set of the names *)
(* on path.                                                                *)

Enter(n) ==
  /\ visited' = visited \cup {n}
  /\ path' = Append(path, n)

Root(n) ==
  /\ phase = "dfs" /\ path = << >> /\ n \notin visited
  /\ Enter(n)
  /\ UNCHANGED <<graph, phase, position, cycles, sort, outcome, load>>

\* The name on top of the path has a next dependency, d.
AtDependency(d) ==
  /\ phase = "dfs" /\ path # << >>
  /\ position[Last(path)] <= Len(DepsOf(Last(path)))
  /\ d = DepsOf(Last(path))[position[Last(path)]]
  /\ position' = [position EXCEPT ![Last(path)] = @ + 1]

Descend(d) ==
  /\ AtDependency(d) /\ d \notin visited
  /\ Enter(d)
  /\ UNCHANGED <<graph, phase, cycles, sort, outcome, load>>

\* path[start_idx..]
CycleFrom(d) == SubSeq(path, CHOOSE i \in DOMAIN path : path[i] = d, Len(path))

FindCycle(d) ==
  /\ AtDependency(d) /\ d \in ToSet(path)
  /\ cycles' = cycles \cup {CycleFrom(d)}
  /\ UNCHANGED <<graph, phase, visited, path, sort, outcome, load>>

SkipUnvisited(d) ==
  /\ AtDependency(d) /\ d \notin ToSet(path)
  /\ UNCHANGED <<graph, phase, visited, path, cycles, sort, outcome, load>>

Skip(d) ==
  /\ AtDependency(d) /\ d \in visited \ ToSet(path)
  /\ UNCHANGED <<graph, phase, visited, path, cycles, sort, outcome, load>>

Return ==
  /\ phase = "dfs" /\ path # << >>
  /\ position[Last(path)] > Len(DepsOf(Last(path)))
  /\ path' = Front(path)
  /\ UNCHANGED <<graph, phase, visited, position, cycles, sort, outcome, load>>

-----------------------------------------------------------------------------
(* topological_sort.                                                       *)

Searched == phase = "dfs" /\ path = << >> /\ Nodes \subseteq visited

Reject ==
  /\ Searched /\ cycles # {}
  /\ Resolved("cycle", << >>)
  /\ UNCHANGED <<graph, dfs, sort>>

\* One for every edge that leaves the plugin.
InDegree == [n \in Nodes |-> Len(deps[n])]

StartSort ==
  /\ Searched /\ cycles = {}
  /\ phase' = "sort"
  /\ in_degree' = InDegree
  /\ queue' \in SetToSeqs({n \in Nodes : InDegree[n] = 0})
  /\ UNCHANGED <<graph, dfs, order, outcome, load>>

PopFirstOnly ==
  /\ phase = "sort" /\ queue # << >>
  /\ LET n == Head(queue)
         ready == {m \in Dependents(n) : in_degree[m] = 1}
     IN /\ order' = Append(order, n)
        /\ in_degree' = [m \in Nodes |-> IF m \in Dependents(n) THEN in_degree[m] - 1 ELSE in_degree[m]]
        /\ queue' \in IF ready = {} THEN {Tail(queue)} ELSE {Append(Tail(queue), m) : m \in ready}
  /\ UNCHANGED <<graph, phase, dfs, outcome, load>>

Pop ==
  /\ phase = "sort" /\ queue # << >>
  /\ LET n == Head(queue)
         ready == {m \in Dependents(n) : in_degree[m] = 1}
     IN /\ order' = Append(order, n)
        /\ in_degree' = [m \in Nodes |-> IF m \in Dependents(n) THEN in_degree[m] - 1 ELSE in_degree[m]]
        /\ queue' \in {Tail(queue) \o s : s \in SetToSeqs(ready)}
  /\ UNCHANGED <<graph, phase, dfs, outcome, load>>

EndSortUnchecked ==
  /\ phase = "sort" /\ queue = << >>
  /\ Resolved("order", order)
  /\ UNCHANGED <<graph, dfs, sort>>

\* "Unknown cycle detected" when a plugin is missing from the result.
EndSort ==
  /\ phase = "sort" /\ queue = << >>
  /\ Resolved(IF Len(order) = Cardinality(Nodes) THEN "order" ELSE "stuck", order)
  /\ UNCHANGED <<graph, dfs, sort>>

-----------------------------------------------------------------------------
(* main.rs loads the plugins one after the other.  A failure is recorded   *)
(* and the next one follows.                                               *)

LoadStopsAtFailure(ok) ==
  /\ phase = "load" /\ ordered # << >>
  /\ LET n == Head(ordered)
     IN /\ loaded' = IF ok \/ n \in Bootstrap THEN loaded \cup {n} ELSE loaded
        /\ failed' = IF ok \/ n \in Bootstrap THEN failed ELSE failed \cup {n}
        /\ ordered' = IF ok THEN Tail(ordered) ELSE << >>
  /\ UNCHANGED <<graph, phase, dfs, sort, outcome>>

Load(ok) ==
  /\ phase = "load" /\ ordered # << >>
  /\ LET n == Head(ordered)
     IN /\ loaded' = IF ok \/ n \in Bootstrap THEN loaded \cup {n} ELSE loaded
        /\ failed' = IF ok \/ n \in Bootstrap THEN failed ELSE failed \cup {n}
        /\ ordered' = Tail(ordered)
  /\ UNCHANGED <<graph, phase, dfs, sort, outcome>>

Finish ==
  /\ phase = "load" /\ ordered = << >>
  /\ phase' = "done"
  /\ UNCHANGED <<graph, dfs, sort, outcome, load>>

Next ==
  \/ Build \/ BuildInvalid
  \/ \E n \in Nodes : Root(n)
  \/ \E d \in Names : Descend(d) \/ FindCycle(d) \/ Skip(d)
  \/ Return
  \/ Reject \/ StartSort \/ Pop \/ EndSort
  \/ \E ok \in BOOLEAN : Load(ok)
  \/ Finish

Spec == Init /\ [][Next]_vars

\* Startup is one task that never waits for another.
FairSpec == Spec /\ WF_vars(Next)

-----------------------------------------------------------------------------
(* Reference definitions and properties.                                   *)

\* A finite graph has a cycle iff some set of nodes is closed: each of them
\* depends on one of them.
Cyclic == \E S \in (SUBSET Nodes) \ {{}} : \A n \in S : ToSet(deps[n]) \cap S # {}

Closed == \A n \in Nodes : ToSet(deps[n]) \subseteq Nodes
DuplicateFree == \A n \in Nodes : Cardinality(ToSet(deps[n])) = Len(deps[n])

\* What detect_cycles reports as a cycle is one: each plugin depends on the
\* next and the last on the first.
CyclesReal ==
  \A c \in cycles :
    /\ c # << >>
    /\ \A i \in 1..Len(c) : c[(i % Len(c)) + 1] \in ToSet(deps[c[i]])

\* Once every node has been searched, detect_cycles has found a cycle exactly
\* when there is one, wherever the search began.
CyclesFound == Searched => (cycles # {} <=> Cyclic)

\* Both together: detect_cycles reports cycles, and reports one exactly when
\* there is one.
CyclesExact == CyclesReal /\ CyclesFound

\* main.rs: "each plugin's prerequisites are loaded before the plugin itself":
\* a resolved order lists every plugin once and its dependencies before it.
DependenciesFirst ==
  outcome = "order" =>
    /\ ToSet(order) = Nodes /\ Len(order) = Cardinality(Nodes)
    /\ \A i \in DOMAIN order : ToSet(deps[order[i]]) \subseteq {order[j] : j \in 1..(i - 1)}

\* An order is found exactly for the graphs without a cycle, without a
\* dependency that was not discovered and without a duplicate: the last two
\* are reported as an "Unknown cycle" and every plugin loses its order.
OrderExact ==
  outcome \in {"cycle", "stuck", "order"} =>
    (outcome = "order" <=> ~Cyclic /\ Closed /\ DuplicateFree)

\* The cycles reported are the cycles there are, and an order is found exactly
\* where one exists (graph.rs:219, graph.rs:291).
GraphExact == CyclesExact /\ OrderExact

\* Startup ends, whatever the graph, with every discovered plugin tried once.
AllTried == <>(phase = "done" /\ loaded \cup failed = Nodes)
=============================================================================
