-------------------------- MODULE LoadOrderProofs ---------------------------
(***************************************************************************)
(* The dependency graph's search and sort are correct for every set of     *)
(* plugins and every graph: the search finds a cycle exactly when there is *)
(* one, and Kahn's algorithm an order exactly when there is one, which     *)
(* lists each plugin once and its dependencies before it.                  *)
(***************************************************************************)
EXTENDS LoadOrder, FiniteSetTheorems, SequenceTheorems, TLAPS

-----------------------------------------------------------------------------
(* The inductive invariant.                                                *)

Sorting == phase = "sort" \/ outcome \in {"stuck", "order"}

\* No plugin is in the queue or the result twice, or in both.
Distinct ==
  /\ IsInjective(order) /\ IsInjective(queue)
  /\ ToSet(order) \cap ToSet(queue) = {}

\* A plugin's degree is the number of its edges less the dependencies that are
\* in the result; the plugins of degree zero are queued or done.
Degrees ==
  \A n \in Nodes :
    /\ in_degree[n] = Len(deps[n]) - Cardinality(ToSet(deps[n]) \cap ToSet(order))
    /\ in_degree[n] = 0 <=> n \in ToSet(order) \cup ToSet(queue)

\* Every plugin of the result follows its dependencies.
Prefixed == \A i \in 1..Len(order) : ToSet(deps[order[i]]) \subseteq {order[j] : j \in 1..(i - 1)}

SortInv ==
  /\ phase \in {"build", "dfs"} => order = << >> /\ outcome = "none"
  /\ Sorting => Distinct /\ Degrees /\ Prefixed
  /\ outcome = "order" => Len(order) = Cardinality(Nodes)
  /\ outcome = "stuck" => queue = << >> /\ Len(order) # Cardinality(Nodes)
  /\ phase = "sort" => outcome = "none"

IInv == TypeOK /\ SortInv

-----------------------------------------------------------------------------
(* The inductive invariant of the search.                                  *)

\* The names that the search has left for good.
Finished == visited \ ToSet(path)

\* No name is on the path twice, and each is followed by the dependency that
\* its position has just passed.
PathInv ==
  /\ IsInjective(path)
  /\ \A i \in 1..(Len(path) - 1) :
       LET n == path[i] IN
       /\ n \in Nodes /\ position[n] - 1 \in 1..Len(deps[n])
       /\ path[i + 1] = deps[n][position[n] - 1]

\* A name that was never entered is at its first dependency.
Fresh == \A n \in Names \ visited : position[n] = 1

\* The dependencies that a name on the path has passed are finished, but for
\* the one that follows it on the path.
Passed ==
  \A i \in 1..Len(path) :
    path[i] \in Nodes =>
      \A j \in 1..(position[path[i]] - 1) :
        j \in 1..Len(deps[path[i]]) =>
          deps[path[i]][j] \in Finished \/ (i < Len(path) /\ j = position[path[i]] - 1)

\* What a finished name depends on is finished.
Explored == \A n \in Finished \cap Nodes : ToSet(deps[n]) \subseteq Finished

\* No finished names form a closed set.
NoneClosed == \A S \in SUBSET (Finished \cap Nodes) : S # {} => \E n \in S : ToSet(deps[n]) \cap S = {}

SearchInv ==
  /\ PathInv /\ Fresh
  /\ CyclesReal /\ cycles \subseteq Seq(Nodes)
  /\ cycles = {} => Passed /\ Explored /\ NoneClosed

\* A search that ends in an error has met a cycle, one that goes on to the
\* sort has met none.
Verdict == (outcome = "cycle" => Cyclic) /\ (Sorting => ~Cyclic)

-----------------------------------------------------------------------------
(* Sequences and the sets of their elements.                               *)

\* The elements of a Vec are finitely many, at most one for each position, and
\* exactly as many when none is repeated.
LEMMA ToSetFacts ==
  ASSUME NEW S, NEW s \in Seq(S)
  PROVE  /\ ToSet(s) = {s[i] : i \in 1..Len(s)} /\ ToSet(s) \subseteq S
         /\ IsFiniteSet(ToSet(s)) /\ Cardinality(ToSet(s)) \in Nat
         /\ Cardinality(ToSet(s)) <= Len(s)
         /\ IsInjective(s) => Cardinality(ToSet(s)) = Len(s)
<1>1. Len(s) \in Nat /\ s \in [1..Len(s) -> S] /\ DOMAIN s = 1..Len(s)
  BY LenProperties
<1>2. ToSet(s) = {s[i] : i \in 1..Len(s)} /\ ToSet(s) \subseteq S
  BY <1>1 DEF ToSet
<1>3. IsFiniteSet(1..Len(s)) /\ Cardinality(1..Len(s)) = Len(s)
  BY <1>1, FS_Interval
<1>4. s \in Surjection(1..Len(s), ToSet(s))
  BY <1>1, <1>2 DEF Surjection
<1>5. IsInjective(s) => s \in Injection(1..Len(s), ToSet(s))
  BY <1>1, <1>2 DEF Injection, IsInjective
<1>6. /\ IsFiniteSet(ToSet(s)) /\ Cardinality(ToSet(s)) <= Cardinality(1..Len(s))
      /\ Cardinality(ToSet(s)) = Cardinality(1..Len(s)) <=> s \in Injection(1..Len(s), ToSet(s))
  BY <1>3, <1>4, FS_Surjection
<1>7. Cardinality(ToSet(s)) \in Nat
  BY <1>6, FS_CardinalityType
<1> QED
  BY <1>2, <1>3, <1>5, <1>6, <1>7

\* push and push_back add one element.
LEMMA AppendFacts ==
  ASSUME NEW S, NEW s \in Seq(S), NEW e \in S
  PROVE  /\ Append(s, e) \in Seq(S)
         /\ ToSet(Append(s, e)) = ToSet(s) \cup {e}
         /\ IsInjective(s) /\ e \notin ToSet(s) => IsInjective(Append(s, e))
<1> DEFINE t == Append(s, e)
<1>1. /\ t \in Seq(S) /\ Len(t) = Len(s) + 1 /\ Len(s) \in Nat
      /\ \A i \in 1..Len(s) : t[i] = s[i]
      /\ t[Len(s) + 1] = e
  BY AppendProperties, LenProperties
<1>2. DOMAIN t = 1..(Len(s) + 1) /\ DOMAIN s = 1..Len(s)
  BY <1>1, LenProperties
<1> HIDE DEF t
<1>3. ToSet(t) = ToSet(s) \cup {e}
  BY <1>1, <1>2 DEF ToSet
<1>4. IsInjective(s) /\ e \notin ToSet(s) => IsInjective(t)
  BY <1>1, <1>2 DEF ToSet, IsInjective
<1> QED
  BY <1>1, <1>3, <1>4 DEF t

\* pop_front removes the first element, and only that one when none is repeated.
LEMMA TailFacts ==
  ASSUME NEW S, NEW s \in Seq(S), s # << >>, IsInjective(s)
  PROVE  /\ Head(s) \in ToSet(s) /\ Tail(s) \in Seq(S)
         /\ ToSet(Tail(s)) = ToSet(s) \ {Head(s)}
         /\ IsInjective(Tail(s))
<1> DEFINE t == Tail(s)
<1>1. /\ t \in Seq(S) /\ Len(t) = Len(s) - 1 /\ Len(s) \in Nat \ {0}
      /\ \A i \in 1..Len(t) : t[i] = s[i + 1]
  BY HeadTailProperties, EmptySeq
<1>2. Head(s) = s[1] /\ DOMAIN s = 1..Len(s) /\ DOMAIN t = 1..(Len(s) - 1)
  BY <1>1, LenProperties
<1> HIDE DEF t
<1>3. \A i \in 2..Len(s) : i - 1 \in DOMAIN t /\ t[i - 1] = s[i] /\ s[i] # s[1]
  BY <1>1, <1>2, SMTT(30) DEF IsInjective
<1>4. ToSet(t) \subseteq ToSet(s) \ {s[1]}
  BY <1>1, <1>2, SMTT(30) DEF ToSet, IsInjective
<1>5. ToSet(s) \ {s[1]} \subseteq ToSet(t)
  <2> SUFFICES ASSUME NEW x \in ToSet(s), x # s[1]
               PROVE  x \in ToSet(t)
    OBVIOUS
  <2>1. PICK i \in 1..Len(s) : x = s[i]
    BY <1>2 DEF ToSet
  <2>2. i \in 2..Len(s)
    BY <1>1, <2>1
  <2> QED
    BY <1>3, <2>1, <2>2 DEF ToSet
<1>6. IsInjective(t)
  BY <1>1, <1>2, SMTT(30) DEF IsInjective
<1>7. Head(s) \in ToSet(s)
  BY <1>1, <1>2 DEF ToSet
<1> QED
  BY <1>1, <1>2, <1>4, <1>5, <1>6, <1>7 DEF t

\* Two lists without repetition and without a common element make one.
LEMMA ConcatFacts ==
  ASSUME NEW S, NEW s \in Seq(S), NEW t \in Seq(S)
  PROVE  /\ s \o t \in Seq(S)
         /\ ToSet(s \o t) = ToSet(s) \cup ToSet(t)
         /\ IsInjective(s) /\ IsInjective(t) /\ ToSet(s) \cap ToSet(t) = {} => IsInjective(s \o t)
<1> DEFINE u == s \o t
<1>1. /\ u \in Seq(S) /\ Len(u) = Len(s) + Len(t) /\ Len(s) \in Nat /\ Len(t) \in Nat
      /\ \A i \in 1..(Len(s) + Len(t)) : u[i] = IF i <= Len(s) THEN s[i] ELSE t[i - Len(s)]
  BY ConcatProperties, LenProperties
<1>2. DOMAIN u = 1..(Len(s) + Len(t)) /\ DOMAIN s = 1..Len(s) /\ DOMAIN t = 1..Len(t)
  BY <1>1, LenProperties
<1> HIDE DEF u
<1>3. \A i \in DOMAIN s : i \in DOMAIN u /\ u[i] = s[i]
  BY <1>1, <1>2
<1>4. \A i \in DOMAIN t : i + Len(s) \in DOMAIN u /\ u[i + Len(s)] = t[i]
  BY <1>1, <1>2
<1>5. \A i \in DOMAIN u : \/ i \in DOMAIN s /\ u[i] = s[i]
                          \/ i - Len(s) \in DOMAIN t /\ u[i] = t[i - Len(s)]
  BY <1>1, <1>2
<1>6. ToSet(u) = ToSet(s) \cup ToSet(t)
  BY <1>3, <1>4, <1>5 DEF ToSet
<1>7. ASSUME IsInjective(s), IsInjective(t), ToSet(s) \cap ToSet(t) = {},
             NEW i \in DOMAIN u, NEW j \in DOMAIN u, u[i] = u[j]
      PROVE  i = j
  <2>1. CASE i \in DOMAIN s /\ u[i] = s[i] /\ j \in DOMAIN s /\ u[j] = s[j]
    BY <1>7, <2>1 DEF IsInjective
  <2>2. CASE i - Len(s) \in DOMAIN t /\ u[i] = t[i - Len(s)] /\ j - Len(s) \in DOMAIN t /\ u[j] = t[j - Len(s)]
    <3>1. i - Len(s) = j - Len(s)
      BY <1>7, <2>2 DEF IsInjective
    <3> QED
      BY <1>1, <1>2, <3>1
  <2>3. CASE i \in DOMAIN s /\ u[i] = s[i] /\ j - Len(s) \in DOMAIN t /\ u[j] = t[j - Len(s)]
    BY <1>7, <2>3 DEF ToSet
  <2>4. CASE i - Len(s) \in DOMAIN t /\ u[i] = t[i - Len(s)] /\ j \in DOMAIN s /\ u[j] = s[j]
    BY <1>7, <2>4 DEF ToSet
  <2> QED
    BY <1>5, <2>1, <2>2, <2>3, <2>4
<1> QED
  BY <1>1, <1>6, <1>7 DEF u, IsInjective

\* A hash order of a finite set lists each of its elements once.
LEMMA PermutationFacts ==
  ASSUME NEW S, IsFiniteSet(S), NEW s \in SetToSeqs(S)
  PROVE  s \in Seq(S) /\ ToSet(s) = S /\ IsInjective(s)
<1> DEFINE D == 1..Cardinality(S)
<1>1. Cardinality(S) \in Nat
  BY FS_CardinalityType
<1>2. s \in [D -> S] /\ IsInjective(s)
  BY DEF SetToSeqs, IsInjective
<1>3. s \in Seq(S)
  BY <1>1, <1>2
<1>4. IsFiniteSet(D) /\ Cardinality(D) = Cardinality(S)
  BY <1>1, FS_Interval
<1>5. s \in Injection(D, S)
  BY <1>2 DEF Injection
<1>6. s \in Surjection(D, S)
  BY <1>4, <1>5, FS_Injection
<1>7. ToSet(s) = S
  BY <1>2, <1>6 DEF Surjection, ToSet
<1> QED
  BY <1>2, <1>3, <1>7

\* There are finitely many plugins.
LEMMA NodesFinite == IsFiniteSet(Nodes) /\ Cardinality(Nodes) \in Nat
BY LoadOrderAssumption, ToSetFacts DEF Nodes

-----------------------------------------------------------------------------
(* The invariant is inductive.                                             *)

\* A plugin whose degree is zero has all its dependencies in the result.
LEMMA ZeroDegree ==
  ASSUME TypeOK, Degrees, NEW n \in Nodes, in_degree[n] = 0
  PROVE  ToSet(deps[n]) \subseteq ToSet(order)
<1> DEFINE D == ToSet(deps[n])
           A == D \cap ToSet(order)
<1>1. deps[n] \in Seq(Names)
  BY DEF TypeOK
<1>2. Len(deps[n]) \in Nat /\ IsFiniteSet(D) /\ Cardinality(D) \in Nat /\ Cardinality(D) <= Len(deps[n])
  BY <1>1, ToSetFacts, LenProperties
<1> HIDE DEF D
<1>3. A \in SUBSET D /\ IsFiniteSet(A) /\ Cardinality(A) <= Cardinality(D)
      /\ (Cardinality(D) = Cardinality(A) => D = A)
  BY <1>2, FS_Subset
<1>4. Cardinality(A) \in Nat
  BY <1>3, FS_CardinalityType
<1>5. 0 = Len(deps[n]) - Cardinality(A)
  BY DEF Degrees, D
<1> HIDE DEF A
<1>6. D = A
  BY <1>2, <1>3, <1>4, <1>5
<1> QED
  BY <1>6 DEF A, D

\* What pop_front and the decrements of the dependents' degrees do.
LEMMA PopPreserves ==
  ASSUME TypeOK, Distinct, Degrees, Prefixed, Pop
  PROVE  /\ in_degree' \in [Nodes -> Nat] /\ queue' \in Seq(Nodes) /\ order' \in Seq(Nodes)
         /\ Distinct' /\ Degrees' /\ Prefixed'
<1> DEFINE n == Head(queue)
           ready == {m \in Dependents(n) : in_degree[m] = 1}
<1>1. /\ queue \in Seq(Nodes) /\ order \in Seq(Nodes) /\ queue # << >>
      /\ IsInjective(order) /\ IsInjective(queue) /\ ToSet(order) \cap ToSet(queue) = {}
      /\ deps \in [Nodes -> Seq(Names)] /\ in_degree \in [Nodes -> Nat] /\ deps' = deps
      /\ order' = Append(order, n)
      /\ in_degree' = [m \in Nodes |-> IF m \in Dependents(n) THEN in_degree[m] - 1 ELSE in_degree[m]]
  BY DEF TypeOK, Distinct, Pop, graph
<1>2. PICK s \in SetToSeqs(ready) : queue' = Tail(queue) \o s
  BY DEF Pop
<1>3. /\ n \in ToSet(queue) /\ Tail(queue) \in Seq(Nodes) /\ IsInjective(Tail(queue))
      /\ ToSet(Tail(queue)) = ToSet(queue) \ {n}
  BY <1>1, TailFacts
<1>4. n \in Nodes /\ n \notin ToSet(order)
  BY <1>1, <1>3, ToSetFacts
<1> HIDE DEF n
<1>5. in_degree[n] = 0
  BY <1>3, <1>4 DEF Degrees
<1>6. ready \subseteq Nodes /\ Dependents(n) \subseteq Nodes
  BY DEF Dependents
<1>7. IsFiniteSet(ready)
  BY <1>6, NodesFinite, FS_Subset
<1> HIDE DEF ready
<1>8. s \in Seq(ready) /\ ToSet(s) = ready /\ IsInjective(s)
  BY <1>2, <1>7, PermutationFacts
<1>9. s \in Seq(Nodes)
  BY <1>6, <1>8, SeqMonotonic
<1>10. order' \in Seq(Nodes) /\ ToSet(order') = ToSet(order) \cup {n} /\ IsInjective(order')
  BY <1>1, <1>4, AppendFacts
<1>11. ASSUME NEW m \in ready
       PROVE  m \notin ToSet(order) \cup ToSet(queue)
  <2>1. m \in Nodes /\ in_degree[m] # 0
    BY <1>6 DEF ready
  <2> QED
    BY <2>1 DEF Degrees
<1>12. /\ queue' \in Seq(Nodes) /\ ToSet(queue') = (ToSet(queue) \ {n}) \cup ready
       /\ IsInjective(queue')
  <2>1. ToSet(Tail(queue)) \cap ToSet(s) = {}
    BY <1>3, <1>8, <1>11
  <2> DEFINE t == Tail(queue)
  <2>2. t \in Seq(Nodes) /\ IsInjective(t) /\ ToSet(t) \cap ToSet(s) = {}
    BY <1>3, <2>1
  <2> HIDE DEF t
  <2>3. t \o s \in Seq(Nodes) /\ ToSet(t \o s) = ToSet(t) \cup ToSet(s) /\ IsInjective(t \o s)
    BY <1>8, <1>9, <2>2, ConcatFacts
  <2> QED
    BY <1>2, <1>3, <1>8, <2>3 DEF t
<1>13. Distinct'
  BY <1>1, <1>3, <1>10, <1>11, <1>12 DEF Distinct
<1>14. ASSUME NEW m \in Nodes
       PROVE  /\ in_degree'[m] \in Nat
              /\ in_degree'[m] = Len(deps[m]) - Cardinality(ToSet(deps[m]) \cap ToSet(order'))
  <2> DEFINE D == ToSet(deps[m])
             A == D \cap ToSet(order)
             B == D \cap ToSet(order')
  <2>1. Len(deps[m]) \in Nat /\ IsFiniteSet(D) /\ Cardinality(D) \in Nat /\ Cardinality(D) <= Len(deps[m])
    BY <1>1, ToSetFacts, LenProperties
  <2>2. m \in Dependents(n) <=> n \in D
    BY DEF Dependents
  <2>3. in_degree[m] = Len(deps[m]) - Cardinality(A)
    BY DEF Degrees
  <2> HIDE DEF D
  <2>4. IsFiniteSet(A) /\ Cardinality(A) \in Nat
    BY <2>1, FS_Subset, FS_CardinalityType
  <2>5. IsFiniteSet(B) /\ Cardinality(B) \in Nat /\ Cardinality(B) <= Cardinality(D)
    BY <2>1, FS_Subset, FS_CardinalityType
  <2>6. CASE n \in D
    <3>1. B = A \cup {n} /\ n \notin A
      BY <1>4, <1>10, <2>6
    <3> HIDE DEF A, B
    <3>2. Cardinality(B) = Cardinality(A) + 1
      BY <2>4, <3>1, FS_AddElement
    <3>3. in_degree'[m] = in_degree[m] - 1
      BY <1>1, <2>2, <2>6
    <3>4. in_degree[m] \in Nat
      BY <1>1
    <3>5. in_degree'[m] \in Nat /\ in_degree'[m] = Len(deps[m]) - Cardinality(B)
      BY <2>1, <2>3, <2>4, <2>5, <3>2, <3>3, <3>4
    <3> QED
      BY <3>5 DEF B, D
  <2>7. CASE n \notin D
    <3>1. B = A
      BY <1>10, <2>7
    <3>2. in_degree'[m] = in_degree[m]
      BY <1>1, <2>2, <2>7
    <3> QED
      BY <1>1, <2>3, <3>1, <3>2 DEF D
  <2> QED
    BY <2>6, <2>7
<1>15. in_degree' \in [Nodes -> Nat]
  BY <1>1, <1>14
<1>16. ASSUME NEW m \in Nodes
       PROVE  in_degree'[m] = 0 <=> m \in ToSet(order') \cup ToSet(queue')
  <2>1. in_degree[m] = 0 <=> m \in ToSet(order) \cup ToSet(queue)
    BY DEF Degrees
  <2>2. ToSet(order') \cup ToSet(queue') = ToSet(order) \cup ToSet(queue) \cup ready
    BY <1>3, <1>10, <1>12
  <2>3. in_degree[m] \in Nat /\ in_degree'[m] \in Nat
    BY <1>1, <1>14
  <2>4. CASE m \in Dependents(n)
    <3>1. in_degree'[m] = in_degree[m] - 1
      BY <1>1, <2>4
    <3>2. m \in ready <=> in_degree[m] = 1
      BY <2>4 DEF ready
    <3>3. in_degree[m] # 0
      BY <2>3, <3>1
    <3> QED
      BY <2>1, <2>2, <2>3, <3>1, <3>2, <3>3
  <2>5. CASE m \notin Dependents(n)
    <3>1. in_degree'[m] = in_degree[m]
      BY <1>1, <2>5
    <3>2. m \notin ready
      BY <2>5 DEF ready
    <3> QED
      BY <2>1, <2>2, <3>1, <3>2
  <2> QED
    BY <2>4, <2>5
<1>17. Degrees'
  BY <1>1, <1>14, <1>16 DEF Degrees
<1>18. Prefixed'
  <2>1. /\ Len(order) \in Nat /\ Len(order') = Len(order) + 1
        /\ \A i \in 1..Len(order) : order'[i] = order[i]
        /\ order'[Len(order) + 1] = n
    BY <1>1, <1>4, AppendProperties, LenProperties
  <2>2. ToSet(deps[n]) \subseteq {order[j] : j \in 1..Len(order)}
    BY <1>1, <1>4, <1>5, ZeroDegree, ToSetFacts
  <2> SUFFICES ASSUME NEW i \in 1..Len(order')
               PROVE  ToSet(deps[order'[i]]) \subseteq {order'[j] : j \in 1..(i - 1)}
    BY <1>1 DEF Prefixed
  <2>3. CASE i = Len(order) + 1
    <3>1. {order[j] : j \in 1..Len(order)} \subseteq {order'[j] : j \in 1..(i - 1)}
      BY <2>1, <2>3
    <3> QED
      BY <2>1, <2>2, <2>3, <3>1
  <2>4. CASE i \in 1..Len(order)
    <3>1. ToSet(deps[order[i]]) \subseteq {order[j] : j \in 1..(i - 1)}
      BY <2>4 DEF Prefixed
    <3>2. {order[j] : j \in 1..(i - 1)} \subseteq {order'[j] : j \in 1..(i - 1)}
      BY <2>1, <2>4
    <3> QED
      BY <2>1, <2>4, <3>1, <3>2
  <2> QED
    BY <2>1, <2>3, <2>4
<1> QED
  BY <1>10, <1>12, <1>13, <1>15, <1>17, <1>18

\* The invariant holds of every graph before the search.
LEMMA InitInv == Init => IInv
<1> SUFFICES ASSUME Init PROVE IInv
  OBVIOUS
<1>1. ASSUME NEW n \in Nodes PROVE deps[n] \in Seq(Names)
  <2>1. deps[n] \in UNION {[1..m -> Names] : m \in 0..MaxDeps}
    BY DEF Init, BoundedSeq, SeqOf
  <2>2. PICK m \in 0..MaxDeps : deps[n] \in [1..m -> Names]
    BY <2>1
  <2>3. m \in Nat
    BY LoadOrderAssumption
  <2> QED
    BY <2>2, <2>3
<1>2. deps \in [Nodes -> Seq(Names)]
  <2>1. deps \in [Nodes -> BoundedSeq(Names, MaxDeps)]
    BY DEF Init
  <2> QED
    BY <1>1, <2>1
<1>3. position \in [Names -> Nat \ {0}] /\ in_degree \in [Nodes -> Nat]
  BY DEF Init
<1>4. path \in Seq(visited) /\ queue \in Seq(Nodes) /\ order \in Seq(Nodes) /\ ordered \in Seq(Nodes)
  BY EmptySeq DEF Init
<1>5. /\ phase = "build" /\ visited = {} /\ cycles = {} /\ outcome = "none"
      /\ loaded = {} /\ failed = {} /\ order = << >>
  BY DEF Init
<1>6. TypeOK
  BY <1>2, <1>3, <1>4, <1>5 DEF TypeOK
<1> QED
  BY <1>5, <1>6 DEF IInv, SortInv, Sorting

\* The depth-first search keeps names on its path that it has visited.
LEMMA SearchTyped ==
  ASSUME TypeOK, \/ \E n \in Nodes : Root(n)
                 \/ \E d \in Names : Descend(d) \/ FindCycle(d) \/ Skip(d)
                 \/ Return
  PROVE  /\ visited' \subseteq Names /\ path' \in Seq(visited')
         /\ position' \in [Names -> Nat \ {0}] /\ cycles' \subseteq Seq(Names)
<1>1. /\ visited \subseteq Names /\ path \in Seq(visited) /\ path \in Seq(Names)
      /\ position \in [Names -> Nat \ {0}] /\ cycles \subseteq Seq(Names)
  BY SeqMonotonic DEF TypeOK
<1>2. ASSUME NEW d \in Names, Enter(d)
      PROVE  visited' \subseteq Names /\ path' \in Seq(visited')
  <2>1. visited' = visited \cup {d} /\ path' = Append(path, d)
    BY <1>2 DEF Enter
  <2>2. path \in Seq(visited')
    BY <1>1, <2>1, SeqMonotonic
  <2> QED
    BY <1>1, <2>1, <2>2, AppendProperties
<1>3. ASSUME NEW d \in Names, AtDependency(d)
      PROVE  position' \in [Names -> Nat \ {0}]
  <2>1. position' = [position EXCEPT ![Last(path)] = @ + 1]
    BY <1>3 DEF AtDependency
  <2>2. Last(path) \in Names
    BY <1>1, <1>3, EmptySeq, ElementOfSeq DEF AtDependency, Last
  <2> QED
    BY <1>1, <2>1, <2>2
<1>4. ASSUME NEW n \in Nodes, Root(n) PROVE visited' \subseteq Names /\ path' \in Seq(visited')
  BY <1>2, <1>4 DEF Root, Names
<1>5. ASSUME NEW d \in Names, Descend(d) PROVE visited' \subseteq Names /\ path' \in Seq(visited')
  BY <1>2, <1>5 DEF Descend
<1>6. ASSUME NEW d \in Names, FindCycle(d) PROVE cycles' \subseteq Seq(Names)
  <2> DEFINE i == CHOOSE i \in DOMAIN path : path[i] = d
  <2>1. Len(path) \in Nat /\ DOMAIN path = 1..Len(path)
    BY <1>1, LenProperties
  <2>2. \E j \in DOMAIN path : path[j] = d
    BY <1>6 DEF FindCycle, ToSet
  <2>3. i \in 1..Len(path)
    BY <2>1, <2>2
  <2> HIDE DEF i
  <2>4. \A j \in i..Len(path) : path[j] \in Names
    BY <1>1, <2>1, <2>3, ElementOfSeq
  <2>5. SubSeq(path, i, Len(path)) \in Seq(Names)
    BY <2>1, <2>3, <2>4, SubSeqProperties
  <2>6. CycleFrom(d) \in Seq(Names)
    BY <2>5 DEF CycleFrom, i
  <2> QED
    BY <1>1, <1>6, <2>6 DEF FindCycle
<1>7. ASSUME Return PROVE path' \in Seq(visited')
  <2>1. path # << >> /\ path' = SubSeq(path, 1, Len(path) - 1) /\ visited' = visited
    BY <1>7 DEF Return, Front
  <2>2. Len(path) \in Nat
    BY <1>1, LenProperties
  <2>3. \A j \in 1..(Len(path) - 1) : path[j] \in visited
    BY <1>1, <2>2, ElementOfSeq
  <2> QED
    BY <2>1, <2>2, <2>3, SubSeqProperties
<1> QED
  BY <1>1, <1>3, <1>4, <1>5, <1>6, <1>7 DEF Root, Descend, FindCycle, Skip, Return

\* The search leaves the graph, the sort and the loading alone.
LEMMA SearchFrame ==
  ASSUME \/ \E n \in Nodes : Root(n)
         \/ \E d \in Names : Descend(d) \/ FindCycle(d) \/ Skip(d)
         \/ Return
  PROVE  phase = "dfs" /\ UNCHANGED <<deps, phase, in_degree, queue, order, outcome, ordered, loaded, failed>>
BY DEF Root, Descend, FindCycle, Skip, Return, AtDependency, graph, sort, load

\* A step of the search, of the sort or of the loading keeps the invariant.
LEMMA StepInv == IInv /\ [Next]_vars => IInv'
<1> SUFFICES ASSUME IInv, [Next]_vars PROVE IInv'
  OBVIOUS
<1> USE DEF IInv
<1>1. ASSUME UNCHANGED <<deps, in_degree, queue, order>>
      PROVE  Distinct' = Distinct /\ Degrees' = Degrees /\ Prefixed' = Prefixed
  BY <1>1 DEF Distinct, Degrees, Prefixed
<1>2. /\ Discovered \in Seq(Nodes)
      /\ \A s \in Seq(Nodes) : s # << >> => Head(s) \in Nodes /\ Tail(s) \in Seq(Nodes)
  BY LoadOrderAssumption, HeadTailProperties
<1>3. CASE Build
  BY <1>1, <1>3 DEF Build, TypeOK, SortInv, Sorting, graph, dfs, sort, load
<1>4. CASE BuildInvalid
  BY <1>1, <1>2, <1>4 DEF BuildInvalid, Resolved, TypeOK, SortInv, Sorting, graph, dfs, sort
<1>5. CASE \/ \E n \in Nodes : Root(n)
           \/ \E d \in Names : Descend(d) \/ FindCycle(d) \/ Skip(d)
           \/ Return
  <2>1. TypeOK'
    BY <1>5, SearchTyped, SearchFrame DEF TypeOK
  <2>2. SortInv'
    BY <1>1, <1>5, SearchFrame DEF SortInv, Sorting
  <2> QED
    BY <2>1, <2>2
<1>6. CASE Reject
  BY <1>1, <1>2, <1>6 DEF Reject, Searched, Resolved, TypeOK, SortInv, Sorting, graph, dfs, sort
<1>7. CASE StartSort
  <2> DEFINE S == {n \in Nodes : InDegree[n] = 0}
  <2>1. /\ phase = "dfs" /\ phase' = "sort" /\ in_degree' = InDegree /\ queue' \in SetToSeqs(S)
        /\ UNCHANGED <<deps, visited, path, position, cycles, order, outcome, ordered, loaded, failed>>
    BY <1>7 DEF StartSort, Searched, graph, dfs, load
  <2>2. order = << >> /\ outcome = "none"
    BY <2>1 DEF SortInv
  <2>3. \A n \in Nodes : deps[n] \in Seq(Names) /\ Len(deps[n]) \in Nat
    BY LenProperties DEF TypeOK
  <2>4. InDegree \in [Nodes -> Nat] /\ \A n \in Nodes : InDegree[n] = Len(deps[n])
    BY <2>3 DEF InDegree
  <2>5. IsFiniteSet(S) /\ S \subseteq Nodes
    BY NodesFinite, FS_Subset
  <2> HIDE DEF S
  <2>6. queue' \in Seq(Nodes) /\ ToSet(queue') = S /\ IsInjective(queue')
    BY <2>1, <2>5, PermutationFacts, SeqMonotonic
  <2>7. TypeOK'
    BY <2>1, <2>4, <2>6 DEF TypeOK
  <2>8. ToSet(order) = {} /\ IsInjective(order) /\ Len(order) = 0
    BY <2>2 DEF ToSet, IsInjective
  <2>9. Distinct' /\ Prefixed'
    BY <2>1, <2>6, <2>8 DEF Distinct, Prefixed
  <2>10. Degrees'
    <3>1. \A n \in Nodes : ToSet(deps[n]) \cap ToSet(order) = {}
      BY <2>8
    <3>2. \A n \in Nodes : InDegree[n] = 0 <=> n \in S
      BY DEF S
    <3>3. ASSUME NEW n \in Nodes
          PROVE  InDegree[n] = Len(deps[n]) - Cardinality(ToSet(deps[n]) \cap ToSet(order))
      <4>1. Cardinality(ToSet(deps[n]) \cap ToSet(order)) = 0
        BY <3>1, FS_EmptySet
      <4> QED
        BY <2>3, <2>4, <4>1
    <3> QED
      BY <2>1, <2>6, <2>8, <3>2, <3>3 DEF Degrees
  <2> QED
    BY <2>1, <2>2, <2>7, <2>9, <2>10 DEF SortInv, Sorting
<1>8. CASE Pop
  <2>1. phase = "sort" /\ UNCHANGED <<deps, phase, visited, path, position, cycles, outcome, ordered, loaded, failed>>
    BY <1>8 DEF Pop, graph, dfs, load
  <2>2. Distinct /\ Degrees /\ Prefixed /\ outcome = "none"
    BY <2>1 DEF SortInv, Sorting
  <2>3. /\ in_degree' \in [Nodes -> Nat] /\ queue' \in Seq(Nodes) /\ order' \in Seq(Nodes)
        /\ Distinct' /\ Degrees' /\ Prefixed'
    BY <1>8, <2>2, PopPreserves
  <2> QED
    BY <2>1, <2>2, <2>3 DEF TypeOK, SortInv, Sorting
<1>9. CASE EndSort
  BY <1>1, <1>2, <1>9 DEF EndSort, Resolved, TypeOK, SortInv, Sorting, graph, dfs, sort
<1>10. CASE \E ok \in BOOLEAN : Load(ok)
  <2>1. PICK ok \in BOOLEAN : Load(ok)
    BY <1>10
  <2>2. /\ phase = "load" /\ ordered # << >> /\ ordered' = Tail(ordered)
        /\ loaded' \subseteq loaded \cup {Head(ordered)} /\ failed' \subseteq failed \cup {Head(ordered)}
        /\ UNCHANGED <<deps, phase, visited, path, position, cycles, in_degree, queue, order, outcome>>
    BY <2>1 DEF Load, graph, dfs, sort
  <2> QED
    BY <1>1, <1>2, <2>2 DEF TypeOK, SortInv, Sorting
<1>11. CASE Finish
  BY <1>1, <1>11 DEF Finish, TypeOK, SortInv, Sorting, graph, dfs, sort, load
<1>12. CASE UNCHANGED vars
  BY <1>1, <1>12 DEF vars, TypeOK, SortInv, Sorting, graph, dfs, sort, load
<1> QED
  BY <1>3, <1>4, <1>5, <1>6, <1>7, <1>8, <1>9, <1>10, <1>11, <1>12 DEF Next

\* The invariant holds in every reachable state.
THEOREM Inductive == Spec => []IInv
<1> QED
  BY InitInv, StepInv, PTL DEF Spec

-----------------------------------------------------------------------------
(* What follows from it.                                                   *)

\* Every reachable state of the resolution and of the loading is well typed; in
\* particular no decrement of in_degree underflows its usize.
THEOREM TypeCorrect == Spec => []TypeOK
<1>1. IInv => TypeOK
  BY DEF IInv
<1> QED
  BY <1>1, Inductive, PTL

\* An order that is returned lists every plugin, after its dependencies.
LEMMA OrderListed ==
  ASSUME IInv, outcome = "order"
  PROVE  /\ ToSet(order) = Nodes /\ Len(order) = Cardinality(Nodes)
         /\ \A i \in DOMAIN order : ToSet(deps[order[i]]) \subseteq {order[j] : j \in 1..(i - 1)}
<1>1. Distinct /\ Prefixed /\ Len(order) = Cardinality(Nodes) /\ order \in Seq(Nodes)
  BY DEF IInv, SortInv, Sorting, TypeOK
<1>2. ToSet(order) \subseteq Nodes /\ Cardinality(ToSet(order)) = Len(order)
  BY <1>1, ToSetFacts DEF Distinct
<1>3. ToSet(order) = Nodes
  BY <1>1, <1>2, NodesFinite, FS_Subset
<1>4. DOMAIN order = 1..Len(order)
  BY <1>1, LenProperties
<1> QED
  BY <1>1, <1>3, <1>4 DEF Prefixed

\* main.rs: "each plugin's prerequisites are loaded before the plugin itself",
\* for every number of plugins, every graph and every hash order.
THEOREM PrerequisitesFirst == Spec => []DependenciesFirst
<1>1. IInv => DependenciesFirst
  BY OrderListed DEF DependenciesFirst
<1> QED
  BY <1>1, Inductive, PTL

\* When the sort stops early, each plugin left depends on one that is left.
LEMMA StuckReason ==
  ASSUME IInv, outcome = "stuck", Closed, DuplicateFree
  PROVE  Cyclic
<1> DEFINE R == Nodes \ ToSet(order)
<1>1. /\ Distinct /\ Degrees /\ Len(order) # Cardinality(Nodes) /\ queue = << >>
      /\ order \in Seq(Nodes) /\ deps \in [Nodes -> Seq(Names)]
  BY DEF IInv, SortInv, Sorting, TypeOK
<1>2. R # {}
  <2>1. ToSet(order) \subseteq Nodes /\ Cardinality(ToSet(order)) = Len(order)
    BY <1>1, ToSetFacts DEF Distinct
  <2> QED
    BY <1>1, <2>1
<1>3. ToSet(queue) = {}
  BY <1>1 DEF ToSet
<1>4. ASSUME NEW n \in R PROVE ToSet(deps[n]) \cap R # {}
  <2> DEFINE D == ToSet(deps[n])
  <2>1. n \in Nodes /\ D \subseteq Nodes /\ Cardinality(D) = Len(deps[n])
    BY DEF Closed, DuplicateFree
  <2>2. Cardinality(D) \in Nat
    BY <1>1, <2>1, ToSetFacts
  <2>3. Len(deps[n]) - Cardinality(D \cap ToSet(order)) # 0
    BY <1>1, <1>3, <2>1 DEF Degrees
  <2>4. Len(deps[n]) - Cardinality(D) = 0
    BY <2>1, <2>2
  <2>5. D \cap ToSet(order) # D
    BY <2>3, <2>4
  <2> QED
    BY <2>1, <2>5
<1>5. R \in (SUBSET Nodes) \ {{}}
  BY <1>2
<1> QED
  BY <1>4, <1>5 DEF Cyclic

\* The sort gives up only for a reason: the plugins that are left form a closed
\* set, unless a dependency is missing or listed twice.
THEOREM StuckForAReason ==
  Spec => [](outcome = "stuck" => Cyclic \/ ~Closed \/ ~DuplicateFree)
<1>1. IInv => (outcome = "stuck" => Cyclic \/ ~Closed \/ ~DuplicateFree)
  BY StuckReason
<1> QED
  BY <1>1, Inductive, PTL

-----------------------------------------------------------------------------
(* The search finds a cycle exactly when there is one.                     *)

\* The names on the path were visited; the last one is on top.
LEMMA PathFacts ==
  ASSUME TypeOK
  PROVE  /\ Len(path) \in Nat /\ DOMAIN path = 1..Len(path)
         /\ \A i \in 1..Len(path) : path[i] \in visited /\ path[i] \in Names
         /\ ToSet(path) = {path[i] : i \in 1..Len(path)} /\ ToSet(path) \subseteq visited
         /\ path # << >> => Len(path) \in 1..Len(path) /\ Last(path) = path[Len(path)]
<1>1. path \in Seq(visited) /\ visited \subseteq Names
  BY DEF TypeOK
<1>2. Len(path) \in Nat /\ DOMAIN path = 1..Len(path) /\ \A i \in 1..Len(path) : path[i] \in visited
  BY <1>1, LenProperties, ElementOfSeq
<1>3. ToSet(path) = {path[i] : i \in 1..Len(path)} /\ ToSet(path) \subseteq visited
  BY <1>1, ToSetFacts
<1>4. path # << >> => Len(path) \in 1..Len(path)
  BY <1>1, <1>2, EmptySeq
<1> QED
  BY <1>1, <1>2, <1>3, <1>4 DEF Last

\* Entering a name puts it on the path and finishes none.
LEMMA EnterFacts ==
  ASSUME TypeOK, NEW n \in Names, n \notin visited, Enter(n), IsInjective(path)
  PROVE  /\ Len(path') = Len(path) + 1 /\ path'[Len(path) + 1] = n
         /\ \A i \in 1..Len(path) : path'[i] = path[i]
         /\ IsInjective(path') /\ Finished' = Finished /\ visited' = visited \cup {n}
<1>1. path \in Seq(Names) /\ path' = Append(path, n) /\ visited' = visited \cup {n}
  BY SeqMonotonic DEF TypeOK, Enter
<1>2. ToSet(path) \subseteq visited
  BY PathFacts
<1>3. ToSet(path') = ToSet(path) \cup {n} /\ IsInjective(path')
  BY <1>1, <1>2, AppendFacts
<1>4. Finished' = Finished
  BY <1>1, <1>2, <1>3 DEF Finished
<1> QED
  BY <1>1, <1>3, <1>4, AppendProperties

LEMMA RootSearch ==
  ASSUME TypeOK, SearchInv, NEW n \in Nodes, Root(n)
  PROVE  SearchInv'
<1>1. /\ path = << >> /\ n \notin visited /\ Enter(n) /\ n \in Names
      /\ UNCHANGED <<deps, position, cycles>>
  BY DEF Root, graph, Names
<1>2. Len(path) = 0
  BY <1>1
<1>3. /\ Len(path') = 1 /\ path'[1] = n /\ IsInjective(path')
      /\ Finished' = Finished /\ visited' = visited \cup {n}
  BY <1>1, <1>2, EnterFacts DEF SearchInv, PathInv
<1>4. PathInv' /\ Fresh'
  BY <1>1, <1>3 DEF SearchInv, PathInv, Fresh
<1>5. position[n] = 1
  BY <1>1 DEF SearchInv, Fresh
<1>6. Passed'
  BY <1>1, <1>3, <1>5 DEF Passed
<1>7. Explored' = Explored /\ NoneClosed' = NoneClosed /\ CyclesReal' = CyclesReal
  BY <1>1, <1>3 DEF Explored, NoneClosed, CyclesReal
<1> QED
  BY <1>1, <1>4, <1>6, <1>7 DEF SearchInv

\* What is known where the search looks at a dependency.
LEMMA DependencyFacts ==
  ASSUME TypeOK, PathInv, NEW d, AtDependency(d)
  PROVE  LET n == path[Len(path)] IN
         /\ Len(path) \in 1..Len(path) /\ n \in Nodes /\ n \in visited
         /\ deps[n] \in Seq(Names) /\ Len(deps[n]) \in Nat
         /\ position[n] \in 1..Len(deps[n]) /\ d = deps[n][position[n]] /\ d \in ToSet(deps[n]) /\ d \in Names
         /\ position' = [position EXCEPT ![n] = @ + 1]
         /\ position'[n] = position[n] + 1 /\ \A m \in Names \ {n} : position'[m] = position[m]
         /\ \A i \in 1..(Len(path) - 1) : path[i] \in Names \ {n}
<1> DEFINE n == path[Len(path)]
<1>1. /\ path # << >> /\ Last(path) = n /\ Len(path) \in 1..Len(path) /\ Len(path) \in Nat
      /\ n \in visited /\ n \in Names /\ DOMAIN path = 1..Len(path)
      /\ \A i \in 1..Len(path) : path[i] \in Names
  BY PathFacts DEF AtDependency
<1>2. /\ position[n] <= Len(DepsOf(n)) /\ d = DepsOf(n)[position[n]]
      /\ position' = [position EXCEPT ![n] = @ + 1]
  BY <1>1 DEF AtDependency
<1>3. \A i \in 1..(Len(path) - 1) : path[i] # n
  BY <1>1 DEF PathInv, IsInjective
<1> HIDE DEF n
<1>4. position \in [Names -> Nat \ {0}]
  BY DEF TypeOK
<1>5. n \in Nodes
  BY <1>1, <1>2, <1>4 DEF DepsOf
<1>6. deps[n] \in Seq(Names) /\ DepsOf(n) = deps[n]
  BY <1>5 DEF TypeOK, DepsOf
<1>7. Len(deps[n]) \in Nat /\ DOMAIN deps[n] = 1..Len(deps[n])
  BY <1>6, LenProperties
<1>8. position[n] \in 1..Len(deps[n])
  BY <1>1, <1>2, <1>4, <1>6, <1>7
<1>9. d \in ToSet(deps[n]) /\ d \in Names
  BY <1>2, <1>6, <1>7, <1>8, ElementOfSeq DEF ToSet
<1>10. position'[n] = position[n] + 1 /\ \A m \in Names \ {n} : position'[m] = position[m]
  BY <1>1, <1>2, <1>4
<1>11. \A i \in 1..(Len(path) - 1) : path[i] \in Names \ {n}
  BY <1>1, <1>3
<1> QED
  BY <1>1, <1>2, <1>5, <1>6, <1>7, <1>8, <1>9, <1>10, <1>11 DEF n

LEMMA DescendSearch ==
  ASSUME TypeOK, SearchInv, NEW d \in Names, Descend(d)
  PROVE  SearchInv'
<1> DEFINE k == Len(path)
           n == path[k]
<1>1. PathInv /\ IsInjective(path) /\ AtDependency(d) /\ d \notin visited /\ Enter(d) /\ UNCHANGED <<deps, cycles>>
  BY DEF SearchInv, PathInv, Descend, graph
<1>2. /\ k \in 1..k /\ n \in Nodes /\ n \in visited /\ Len(deps[n]) \in Nat
      /\ position[n] \in 1..Len(deps[n]) /\ d = deps[n][position[n]]
      /\ position'[n] = position[n] + 1 /\ \A m \in Names \ {n} : position'[m] = position[m]
      /\ \A i \in 1..(k - 1) : path[i] \in Names \ {n}
  BY <1>1, DependencyFacts
<1>3. /\ Len(path') = k + 1 /\ path'[k + 1] = d /\ \A i \in 1..k : path'[i] = path[i]
      /\ IsInjective(path') /\ Finished' = Finished /\ visited' = visited \cup {d}
  BY <1>1, EnterFacts
<1>4. k \in Nat /\ position \in [Names -> Nat \ {0}] /\ n \in Names
  BY PathFacts, <1>2 DEF TypeOK
<1>5. PathInv'
  <2> SUFFICES ASSUME NEW i \in 1..k
               PROVE  /\ path'[i] \in Nodes /\ position'[path'[i]] - 1 \in 1..Len(deps[path'[i]])
                      /\ path'[i + 1] = deps[path'[i]][position'[path'[i]] - 1]
    BY <1>1, <1>3, <1>4 DEF PathInv
  <2>1. CASE i = k
    BY <1>2, <1>3, <1>4, <2>1
  <2>2. CASE i \in 1..(k - 1)
    <3>1. path'[i] = path[i] /\ path'[i + 1] = path[i + 1] /\ position'[path[i]] = position[path[i]]
      BY <1>2, <1>3, <1>4, <2>2
    <3> QED
      BY <1>1, <2>2, <3>1 DEF PathInv
  <2> QED
    BY <1>4, <2>1, <2>2
<1>6. Fresh'
  BY <1>2, <1>3 DEF SearchInv, Fresh
<1>7. position'[d] = 1
  BY <1>1, <1>2, <1>4 DEF SearchInv, Fresh
<1>8. ASSUME Passed PROVE Passed'
  <2> SUFFICES ASSUME NEW i \in 1..(k + 1), path'[i] \in Nodes,
                      NEW j \in 1..(position'[path'[i]] - 1), j \in 1..Len(deps[path'[i]])
               PROVE  deps[path'[i]][j] \in Finished \/ (i < k + 1 /\ j = position'[path'[i]] - 1)
    BY <1>1, <1>3 DEF Passed
  <2>1. CASE i = k + 1
    BY <1>3, <1>7, <2>1
  <2>2. CASE i = k
    <3>1. path'[i] = n /\ (j = position'[path'[i]] - 1 \/ j \in 1..(position[n] - 1))
      BY <1>2, <1>3, <1>4, <2>2
    <3>2. j \in 1..(position[n] - 1) => deps[n][j] \in Finished
      BY <1>2, <1>3, <1>4, <1>8, <2>2 DEF Passed
    <3> QED
      BY <1>4, <2>2, <3>1, <3>2
  <2>3. CASE i \in 1..(k - 1)
    <3>1. path'[i] = path[i] /\ position'[path[i]] = position[path[i]] /\ i \in 1..k
      BY <1>2, <1>3, <1>4, <2>3
    <3>2. deps[path[i]][j] \in Finished \/ (i < k /\ j = position[path[i]] - 1)
      BY <1>8, <3>1 DEF Passed
    <3> QED
      BY <1>4, <3>1, <3>2
  <2> QED
    BY <1>4, <2>1, <2>2, <2>3
<1>9. Explored' = Explored /\ NoneClosed' = NoneClosed /\ CyclesReal' = CyclesReal
  BY <1>1, <1>3 DEF Explored, NoneClosed, CyclesReal
<1> QED
  BY <1>1, <1>5, <1>6, <1>8, <1>9 DEF SearchInv

\* Passing a dependency moves only the position of the last name.
LEMMA PassFacts ==
  ASSUME TypeOK, SearchInv, NEW d, AtDependency(d), UNCHANGED <<deps, visited, path>>
  PROVE  /\ PathInv' /\ Fresh'
         /\ Passed /\ d \in Finished => Passed'
<1> DEFINE k == Len(path)
           n == path[k]
<1>1. /\ k \in 1..k /\ n \in Nodes /\ n \in visited /\ Len(deps[n]) \in Nat
      /\ position[n] \in 1..Len(deps[n]) /\ d = deps[n][position[n]]
      /\ position'[n] = position[n] + 1 /\ \A m \in Names \ {n} : position'[m] = position[m]
      /\ \A i \in 1..(k - 1) : path[i] \in Names \ {n}
  BY DependencyFacts DEF SearchInv
<1>2. k \in Nat /\ position \in [Names -> Nat \ {0}] /\ n \in Names
  BY PathFacts, <1>1 DEF TypeOK
<1>3. PathInv'
  BY <1>1, <1>2 DEF SearchInv, PathInv
<1>4. Fresh'
  BY <1>1 DEF SearchInv, Fresh
<1>5. ASSUME Passed, d \in Finished PROVE Passed'
  <2>0. Finished' = Finished
    BY DEF Finished
  <2> SUFFICES ASSUME NEW i \in 1..k, path[i] \in Nodes,
                      NEW j \in 1..(position'[path[i]] - 1), j \in 1..Len(deps[path[i]])
               PROVE  deps[path[i]][j] \in Finished \/ (i < k /\ j = position'[path[i]] - 1)
    BY <2>0 DEF Passed
  <2>1. CASE i = k
    <3>1. j = position[n] \/ j \in 1..(position[n] - 1)
      BY <1>1, <1>2, <2>1
    <3>2. j \in 1..(position[n] - 1) => deps[n][j] \in Finished
      BY <1>1, <1>2, <1>5, <2>1 DEF Passed
    <3> QED
      BY <1>1, <1>5, <2>1, <3>1, <3>2
  <2>2. CASE i \in 1..(k - 1)
    <3>1. position'[path[i]] = position[path[i]]
      BY <1>1, <1>2, <2>2
    <3> QED
      BY <1>5, <3>1 DEF Passed
  <2> QED
    BY <1>2, <2>1, <2>2
<1> QED
  BY <1>3, <1>4, <1>5

LEMMA SkipSearch ==
  ASSUME TypeOK, SearchInv, NEW d \in Names, Skip(d)
  PROVE  SearchInv'
<1>1. AtDependency(d) /\ d \in Finished /\ UNCHANGED <<deps, visited, path, cycles>>
  BY DEF Skip, Finished, graph
<1>2. Finished' = Finished
  BY <1>1 DEF Finished
<1>3. Explored' = Explored /\ NoneClosed' = NoneClosed /\ CyclesReal' = CyclesReal
  BY <1>1, <1>2 DEF Explored, NoneClosed, CyclesReal
<1> QED
  BY <1>1, <1>3, PassFacts DEF SearchInv

\* The names on the path from d on depend on each other in a circle, if the
\* last depends on d.
LEMMA FindSearch ==
  ASSUME TypeOK, SearchInv, NEW d \in Names, FindCycle(d)
  PROVE  SearchInv'
<1> DEFINE k == Len(path)
           n == path[k]
           b == CHOOSE i \in DOMAIN path : path[i] = d
           c == SubSeq(path, b, k)
<1>1. AtDependency(d) /\ d \in ToSet(path) /\ UNCHANGED <<deps, visited, path>> /\ cycles' = cycles \cup {c}
  BY DEF FindCycle, CycleFrom, graph
<1>2. k \in 1..k /\ n \in Nodes /\ d \in ToSet(deps[n])
  BY <1>1, DependencyFacts DEF SearchInv
<1>3. k \in Nat /\ DOMAIN path = 1..k /\ path \in Seq(visited)
  BY PathFacts DEF TypeOK
<1>4. b \in 1..k /\ path[b] = d
  BY <1>1, <1>3 DEF ToSet
<1> HIDE DEF b
<1>5. \A i \in 1..(k - 1) : path[i] \in Nodes /\ path[i + 1] \in ToSet(deps[path[i]])
  <2> SUFFICES ASSUME NEW i \in 1..(k - 1) PROVE path[i] \in Nodes /\ path[i + 1] \in ToSet(deps[path[i]])
    OBVIOUS
  <2>1. /\ path[i] \in Nodes /\ position[path[i]] - 1 \in 1..Len(deps[path[i]])
        /\ path[i + 1] = deps[path[i]][position[path[i]] - 1]
    BY DEF SearchInv, PathInv
  <2>2. deps[path[i]] \in Seq(Names)
    BY <2>1 DEF TypeOK
  <2>3. DOMAIN deps[path[i]] = 1..Len(deps[path[i]])
    BY <2>2, LenProperties
  <2> QED
    BY <2>1, <2>3 DEF ToSet
<1>6. \A i \in 1..k : path[i] \in Nodes
  BY <1>2, <1>3, <1>5
<1>7. path \in Seq(Nodes)
  BY <1>3, <1>6, LenProperties
<1>8. c \in Seq(Nodes) /\ Len(c) = k - b + 1 /\ \A i \in 1..(k - b + 1) : c[i] = path[b + i - 1]
  BY <1>3, <1>4, <1>7, SubSeqProperties
<1> HIDE DEF c
<1>9. c # << >>
  BY <1>3, <1>4, <1>8
<1>10. ASSUME NEW i \in 1..Len(c) PROVE c[(i % Len(c)) + 1] \in ToSet(deps[c[i]])
  <2>1. CASE i = Len(c)
    <3>1. i % Len(c) = 0
      BY <1>3, <1>4, <1>8, <2>1
    <3>a. 1 \in 1..(k - b + 1) /\ b + 1 - 1 = b /\ b + i - 1 = k /\ i \in 1..(k - b + 1)
      BY <1>3, <1>4, <1>8, <2>1
    <3>2. c[1] = d /\ c[i] = n
      BY <1>4, <1>8, <3>a
    <3> QED
      BY <1>2, <3>1, <3>2
  <2>2. CASE i < Len(c)
    <3>a. Len(c) \in Nat /\ i \in 0..(Len(c) - 1)
      BY <1>3, <1>4, <1>8, <2>2
    <3> DEFINE m == Len(c)
    <3>b. m \in Nat /\ i \in 0..(m - 1)
      BY <3>a
    <3> HIDE DEF m
    <3>c. i % m = i
      BY <3>b
    <3>1. i % Len(c) = i
      BY <3>c DEF m
    <3>2. c[i + 1] = path[b + i] /\ c[i] = path[b + i - 1] /\ b + i - 1 \in 1..(k - 1)
      BY <1>3, <1>4, <1>8, <2>2
    <3>3. path[(b + i - 1) + 1] \in ToSet(deps[path[b + i - 1]])
      BY <1>5, <3>2
    <3>4. (b + i - 1) + 1 = b + i
      BY <1>3, <1>4, <1>8
    <3> QED
      BY <3>1, <3>2, <3>3, <3>4
  <2> QED
    BY <1>3, <1>4, <1>8, <2>1, <2>2
<1>11. CyclesReal'
  BY <1>1, <1>9, <1>10 DEF SearchInv, CyclesReal
<1> QED
  BY <1>1, <1>8, <1>11, PassFacts DEF SearchInv

\* A name that returns has passed all its dependencies: it depends on finished
\* names only, and none of those depends on it.
LEMMA ReturnSearch ==
  ASSUME TypeOK, SearchInv, Return
  PROVE  SearchInv'
<1> DEFINE k == Len(path)
           n == path[k]
<1>1. /\ path # << >> /\ position[n] > Len(DepsOf(n)) /\ path' = SubSeq(path, 1, k - 1)
      /\ UNCHANGED <<deps, visited, position, cycles>>
  BY PathFacts DEF Return, Front, graph
<1>2. /\ k \in Nat /\ k \in 1..k /\ DOMAIN path = 1..k /\ n \in visited /\ n \in Names
      /\ ToSet(path) = {path[i] : i \in 1..k} /\ path \in Seq(visited)
  BY <1>1, PathFacts DEF TypeOK
<1>3. path' \in Seq(visited) /\ Len(path') = k - 1 /\ \A i \in 1..(k - 1) : path'[i] = path[i]
  BY <1>1, <1>2, SubSeqProperties
<1>4. DOMAIN path' = 1..(k - 1) /\ ToSet(path') = {path[i] : i \in 1..(k - 1)}
  BY <1>3, LenProperties DEF ToSet
<1>5. IsInjective(path) /\ \A i \in 1..(k - 1) : path[i] # n
  BY <1>2 DEF SearchInv, PathInv, IsInjective
<1>6. IsInjective(path')
  BY <1>2, <1>3, <1>4, <1>5 DEF IsInjective
<1>7. ToSet(path) = ToSet(path') \cup {n} /\ n \notin ToSet(path')
  BY <1>2, <1>4, <1>5
<1> HIDE DEF n
<1>8. Finished' = Finished \cup {n} /\ n \notin Finished
  BY <1>1, <1>2, <1>7 DEF Finished
<1>9. PathInv'
  <2> SUFFICES ASSUME NEW i \in 1..(k - 2)
               PROVE  /\ path'[i] \in Nodes /\ position[path'[i]] - 1 \in 1..Len(deps[path'[i]])
                      /\ path'[i + 1] = deps[path'[i]][position[path'[i]] - 1]
    BY <1>1, <1>2, <1>3, <1>6 DEF PathInv
  <2>1. path'[i] = path[i] /\ path'[i + 1] = path[i + 1] /\ i \in 1..(k - 1)
    BY <1>2, <1>3
  <2> QED
    BY <2>1 DEF SearchInv, PathInv
<1>10. Fresh' /\ CyclesReal' /\ cycles' \subseteq Seq(Nodes)
  BY <1>1 DEF SearchInv, Fresh, CyclesReal
<1>11. ASSUME cycles = {} PROVE Passed' /\ Explored' /\ NoneClosed'
  <2>1. Passed /\ Explored /\ NoneClosed
    BY <1>11 DEF SearchInv
  <2>2. n \in Nodes => ToSet(deps[n]) \subseteq Finished
    <3> SUFFICES ASSUME n \in Nodes, NEW e \in ToSet(deps[n]) PROVE e \in Finished
      OBVIOUS
    <3>1. deps[n] \in Seq(Names) /\ DepsOf(n) = deps[n] /\ position[n] \in Nat
      BY <1>2 DEF TypeOK, DepsOf
    <3>2. Len(deps[n]) \in Nat /\ DOMAIN deps[n] = 1..Len(deps[n])
      BY <3>1, LenProperties
    <3>3. PICK j \in 1..Len(deps[n]) : e = deps[n][j]
      BY <3>2 DEF ToSet
    <3>4. j \in 1..(position[n] - 1)
      BY <1>1, <3>1, <3>2, <3>3
    <3>5. deps[n][j] \in Finished \/ k < k
      BY <1>2, <2>1, <3>3, <3>4 DEF Passed, n
    <3> QED
      BY <1>2, <3>3, <3>5
  <2>3. Passed'
    <3> SUFFICES ASSUME NEW i \in 1..(k - 1), path[i] \in Nodes,
                        NEW j \in 1..(position[path[i]] - 1), j \in 1..Len(deps[path[i]])
                 PROVE  deps[path[i]][j] \in Finished' \/ (i < k - 1 /\ j = position[path[i]] - 1)
      BY <1>1, <1>3 DEF Passed
    <3>1. i \in 1..k
      BY <1>2
    <3>2. deps[path[i]][j] \in Finished \/ j = position[path[i]] - 1
      BY <2>1, <3>1 DEF Passed
    <3>3. CASE i = k - 1 /\ j = position[path[i]] - 1
      <4>1. path[i + 1] = deps[path[i]][j] /\ i + 1 = k
        BY <1>2, <3>3 DEF SearchInv, PathInv
      <4> QED
        BY <1>8, <4>1 DEF n
    <3> QED
      BY <1>2, <1>8, <3>2, <3>3
  <2>4. Explored'
    BY <1>1, <1>8, <2>1, <2>2 DEF Explored
  <2>5. NoneClosed'
    <3> SUFFICES ASSUME NEW S \in SUBSET (Finished' \cap Nodes), S # {}
                 PROVE  \E m \in S : ToSet(deps[m]) \cap S = {}
      BY <1>1 DEF NoneClosed
    <3>1. CASE S \ {n} = {}
      <4>1. S = {n} /\ n \in Nodes
        BY <3>1
      <4> QED
        BY <1>8, <2>2, <4>1
    <3>2. CASE S \ {n} # {}
      <4> DEFINE T == S \ {n}
      <4>1. T \in SUBSET (Finished \cap Nodes) /\ T # {}
        BY <1>8, <3>2
      <4>2. PICK m \in T : ToSet(deps[m]) \cap T = {}
        BY <2>1, <4>1 DEF NoneClosed
      <4>3. n \notin ToSet(deps[m])
        BY <1>8, <2>1, <4>1, <4>2 DEF Explored
      <4> QED
        BY <4>2, <4>3
    <3> QED
      BY <3>1, <3>2
  <2> QED
    BY <2>3, <2>4, <2>5
<1> QED
  BY <1>1, <1>9, <1>10, <1>11 DEF SearchInv

\* Where the search ends, there are cycles exactly when some were found.
LEMMA SearchVerdict ==
  ASSUME TypeOK, SearchInv, Searched
  PROVE  cycles # {} <=> Cyclic
<1>1. ASSUME cycles = {}, Cyclic PROVE FALSE
  <2>1. path = << >> /\ Nodes \subseteq visited /\ NoneClosed
    BY <1>1 DEF Searched, SearchInv
  <2>2. Nodes \subseteq Finished
    BY <2>1 DEF Finished, ToSet
  <2>3. PICK S \in (SUBSET Nodes) \ {{}} : \A n \in S : ToSet(deps[n]) \cap S # {}
    BY <1>1 DEF Cyclic
  <2> QED
    BY <2>1, <2>2, <2>3 DEF NoneClosed
<1>2. ASSUME NEW c \in cycles PROVE Cyclic
  <2>1. /\ c \in Seq(Nodes) /\ c # << >>
        /\ \A i \in 1..Len(c) : c[(i % Len(c)) + 1] \in ToSet(deps[c[i]])
    BY DEF SearchInv, CyclesReal
  <2>2. Len(c) \in Nat \ {0} /\ ToSet(c) = {c[i] : i \in 1..Len(c)} /\ ToSet(c) \subseteq Nodes
    BY <2>1, LenProperties, EmptySeq, ToSetFacts
  <2>3. ToSet(c) \in (SUBSET Nodes) \ {{}}
    <3>1. c[1] \in ToSet(c)
      BY <2>2
    <3> QED
      BY <2>2, <3>1
  <2>4. ASSUME NEW n \in ToSet(c) PROVE ToSet(deps[n]) \cap ToSet(c) # {}
    <3>1. PICK i \in 1..Len(c) : n = c[i]
      BY <2>2
    <3> DEFINE m == Len(c)
    <3>2. m \in Nat \ {0} /\ i \in 1..m
      BY <2>2, <3>1
    <3> HIDE DEF m
    <3>3. (i % m) + 1 \in 1..m
      BY <3>2
    <3>4. c[(i % m) + 1] \in ToSet(c)
      BY <2>2, <3>3 DEF m
    <3> QED
      BY <2>1, <3>1, <3>4 DEF m
  <2> QED
    BY <2>3, <2>4 DEF Cyclic
<1> QED
  BY <1>1, <1>2

\* The search, the sort and what they conclude.
GraphInv == IInv /\ SearchInv /\ Verdict

LEMMA GraphInit == Init => GraphInv
<1> SUFFICES ASSUME Init PROVE GraphInv
  OBVIOUS
<1>1. /\ visited = {} /\ path = << >> /\ cycles = {} /\ position = [n \in Names |-> 1]
      /\ outcome = "none" /\ phase = "build"
  BY DEF Init
<1>2. Len(path) = 0 /\ DOMAIN path = {} /\ Finished = {}
  BY <1>1 DEF Finished
<1>3. PathInv /\ Fresh /\ CyclesReal /\ cycles \subseteq Seq(Nodes)
  BY <1>1, <1>2 DEF PathInv, IsInjective, Fresh, CyclesReal
<1>4. Passed /\ Explored /\ NoneClosed
  BY <1>2 DEF Passed, Explored, NoneClosed
<1>5. Verdict
  BY <1>1 DEF Verdict, Sorting
<1> QED
  BY <1>3, <1>4, <1>5, InitInv DEF GraphInv, SearchInv

LEMMA GraphStep == GraphInv /\ [Next]_vars => GraphInv'
<1> SUFFICES ASSUME GraphInv, [Next]_vars PROVE GraphInv'
  OBVIOUS
<1>1. TypeOK /\ SortInv /\ SearchInv /\ Verdict /\ IInv'
  BY StepInv DEF GraphInv, IInv
<1>2. Cyclic' = Cyclic
  <2>1. deps' = deps
    BY DEF Next, vars, graph, Build, BuildInvalid, Root, Descend, FindCycle, Skip, Return, Reject, StartSort,
           Pop, EndSort, Load, Finish
  <2> QED
    BY <2>1 DEF Cyclic
<1>3. CASE \/ \E n \in Nodes : Root(n)
           \/ \E d \in Names : Descend(d) \/ FindCycle(d) \/ Skip(d)
           \/ Return
  <2>1. SearchInv'
    BY <1>1, <1>3, RootSearch, DescendSearch, FindSearch, SkipSearch, ReturnSearch
  <2>2. Verdict'
    BY <1>1, <1>2, <1>3, SearchFrame DEF Verdict, Sorting
  <2> QED
    BY <1>1, <2>1, <2>2 DEF GraphInv
<1>4. CASE /\ UNCHANGED <<deps, visited, path, position, cycles>>
           /\ \/ UNCHANGED <<phase, outcome>> \/ Build \/ BuildInvalid \/ Reject \/ StartSort \/ EndSort \/ Finish
  <2>1. Finished' = Finished
    BY <1>4 DEF Finished
  <2>2. SearchInv'
    BY <1>1, <1>4, <2>1 DEF SearchInv, PathInv, Fresh, CyclesReal, Passed, Explored, NoneClosed
  <2>3. Searched => (cycles # {} <=> Cyclic)
    BY <1>1, SearchVerdict
  <2>4. Verdict'
    <3>1. CASE UNCHANGED <<phase, outcome>>
      BY <1>1, <1>2, <3>1 DEF Verdict, Sorting
    <3>2. CASE Build \/ BuildInvalid \/ Finish
      BY <1>1, <1>2, <3>2 DEF Verdict, Sorting, Build, BuildInvalid, Finish, Resolved
    <3>3. CASE Reject \/ StartSort
      BY <1>1, <1>2, <2>3, <3>3 DEF Verdict, Sorting, Reject, StartSort, Resolved, SortInv, Searched
    <3>4. CASE EndSort
      BY <1>1, <1>2, <3>4 DEF Verdict, Sorting, EndSort, Resolved
    <3> QED
      BY <1>4, <3>1, <3>2, <3>3, <3>4
  <2> QED
    BY <1>1, <2>2, <2>4 DEF GraphInv
<1> QED
  BY <1>3, <1>4 DEF Next, vars, graph, dfs, Build, BuildInvalid, Reject, StartSort, Pop, EndSort, Load, Finish

\* detect_cycles reports cycles only, and one exactly when there is one, and
\* topological_sort finds an order exactly for the graphs without a cycle, a
\* missing dependency or a duplicate, for every number of plugins, every
\* graph and every order in which the search and the sort go through them
\* (graph.rs:219, graph.rs:291).
THEOREM ResolutionExact == Spec => []GraphExact
<1>1. ASSUME GraphInv PROVE CyclesExact
  BY <1>1, SearchVerdict DEF GraphInv, IInv, SearchInv, CyclesExact, CyclesFound
<1>2. ASSUME GraphInv PROVE OrderExact
  <2>1. CASE outcome = "cycle"
    BY <1>2, <2>1 DEF GraphInv, Verdict, OrderExact
  <2>2. CASE outcome = "stuck"
    BY <1>2, <2>2, StuckReason DEF GraphInv, OrderExact
  <2>3. CASE outcome = "order"
    <3>1. /\ ToSet(order) = Nodes /\ deps \in [Nodes -> Seq(Names)] /\ Degrees
          /\ in_degree \in [Nodes -> Nat]
      BY <1>2, <2>3, OrderListed DEF GraphInv, IInv, TypeOK, SortInv, Sorting
    <3>2. ASSUME NEW n \in Nodes PROVE ToSet(deps[n]) \subseteq Nodes /\ Cardinality(ToSet(deps[n])) = Len(deps[n])
      <4>1. in_degree[n] = 0
        BY <3>1 DEF Degrees
      <4>2. ToSet(deps[n]) \subseteq ToSet(order)
        BY <1>2, <3>1, <4>1, ZeroDegree DEF GraphInv, IInv
      <4>3. ToSet(deps[n]) \cap ToSet(order) = ToSet(deps[n])
        BY <4>2
      <4>4. 0 = Len(deps[n]) - Cardinality(ToSet(deps[n]))
        BY <3>1, <4>1, <4>3 DEF Degrees
      <4>5. Len(deps[n]) \in Nat /\ Cardinality(ToSet(deps[n])) \in Nat
        BY <3>1, LenProperties, ToSetFacts
      <4> QED
        BY <3>1, <4>2, <4>4, <4>5
    <3>3. Closed /\ DuplicateFree
      BY <3>2 DEF Closed, DuplicateFree
    <3> QED
      BY <1>2, <2>3, <3>3 DEF GraphInv, Verdict, Sorting, OrderExact
  <2> QED
    BY <2>1, <2>2, <2>3 DEF OrderExact
<1>3. GraphInv => GraphExact
  BY <1>1, <1>2 DEF GraphExact
<1> QED
  BY <1>3, GraphInit, GraphStep, PTL DEF Spec
=============================================================================
