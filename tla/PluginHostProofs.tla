-------------------------- MODULE PluginHostProofs --------------------------
(***************************************************************************)
(* Bookkeeping of the plugin manager, for every number of plugins,         *)
(* concurrent loads and RPC callers.                                       *)
(***************************************************************************)
EXTENDS PluginHost, TLAPS

Ready == {"initialized", "registered"}

\* Each library has one owner: an entry of the map or a task that loads it.
Owned ==
  /\ resources = loaded
  /\ \A n \in Names : loaded[n] # None => life[loaded[n]] = "open" /\ loaded[n] \in contexts
  /\ \A t \in Tasks : inst[t] # None =>
       /\ life[inst[t]] = "open"
       /\ inst[t] \in contexts <=> pc[t] \in Ready
       /\ \A n \in Names : loaded[n] # inst[t]
       /\ \A u \in Tasks : inst[u] = inst[t] => u = t
  /\ \A m, n \in Names : loaded[m] = loaded[n] /\ loaded[m] # None => m = n

\* Nothing without an owner is open or has a context.
HasOwner(i) == (\E n \in Names : loaded[n] = i) \/ (\E t \in Tasks : inst[t] = i)
NoOrphans == \A i \in Instances : life[i] = "open" \/ i \in contexts => HasOwner(i)

\* A load that passed register_plugin is in the RPC registry.
Registered ==
  /\ \A t \in Tasks : pc[t] = "registered" => \E k \in DOMAIN rpc : rpc[k] = inst[t]
  /\ LoadedIsCallable

IInv == TypeOK /\ Owned /\ NoOrphans /\ Registered

\* An empty manager satisfies the invariant.
LEMMA InitIInv == Init => IInv
  BY HostAssumption DEF Init, IInv, TypeOK, Optional, Owned, NoOrphans, HasOwner, Registered, LoadedIsCallable

\* Every step of a load, an unload, the collector and a call is well typed.
LEMMA StepTypeOK == TypeOK /\ [Next]_vars => TypeOK'
<1> SUFFICES ASSUME TypeOK, [Next]_vars PROVE TypeOK'
  OBVIOUS
<1> USE HostAssumption DEF TypeOK, Optional, maps, load, calls
<1>1. ASSUME NEW t \in Tasks, NEW n \in Names, NEW i \in Instances, Open(t, n, i) PROVE TypeOK'
  BY <1>1 DEF Open
<1>2. ASSUME NEW t \in Tasks, Reject(t) PROVE TypeOK'
  BY <1>2 DEF Reject, EndLoad
<1>3. ASSUME NEW t \in Tasks, InitPlugin(t) PROVE TypeOK'
  BY <1>3 DEF InitPlugin, Publish
<1>4. ASSUME NEW t \in Tasks, InitPluginFails(t) PROVE TypeOK'
  <2>1. services' \in [Services -> Optional(Instances)]
    BY <1>4 DEF InitPluginFails, Publish
  <2> QED BY <1>4, <2>1 DEF InitPluginFails, EndLoad
<1>5. ASSUME NEW t \in Tasks, RegisterRpc(t) PROVE TypeOK'
  BY <1>5 DEF RegisterRpc
<1>6. ASSUME NEW t \in Tasks, Insert(t) PROVE TypeOK'
  BY <1>6 DEF Insert, Retire, EndLoad
<1>7. ASSUME NEW n \in Names, Unload(n) PROVE TypeOK'
  BY <1>7 DEF Unload, Retire
<1>8. ASSUME NEW i \in Instances, Collect(i) PROVE TypeOK'
  BY <1>8 DEF Collect
<1>9. ASSUME NEW c \in Callers, NEW s \in Services, CallBegin(c, s) PROVE TypeOK'
  BY <1>9 DEF CallBegin
<1>10. ASSUME NEW c \in Callers, CallTry(c) PROVE TypeOK'
  <2>1. Head(todo[c]) \in Instances /\ Tail(todo[c]) \in Seq(Instances)
    BY <1>10 DEF CallTry
  <2>2. at' \in [Callers -> Instances \cup {None}]
    <3>1. CASE calling[c] \in offers[Head(todo[c])]
      <4>1. at' = [at EXCEPT ![c] = Head(todo[c])]
        BY <1>10, <3>1 DEF CallTry
      <4> QED BY <2>1, <4>1
    <3>2. CASE calling[c] \notin offers[Head(todo[c])]
      BY <1>10, <3>2 DEF CallTry
    <3> QED BY <3>1, <3>2
  <2>3. todo' \in [Callers -> Seq(Instances)]
    BY <1>10, <2>1 DEF CallTry
  <2> QED BY <1>10, <2>2, <2>3 DEF CallTry
<1>11. ASSUME NEW c \in Callers, CallNotFound(c) PROVE TypeOK'
  BY <1>11 DEF CallNotFound, CallEnd
<1>12. ASSUME NEW c \in Callers, CallAnswered(c) PROVE TypeOK'
  BY <1>12 DEF CallAnswered, CallEnd
<1>13. ASSUME NEW c \in Callers, CallUnavailable(c) PROVE TypeOK'
  BY <1>13 DEF CallUnavailable
<1>14. CASE UNCHANGED vars
  BY <1>14 DEF vars
<1> QED BY <1>1, <1>2, <1>3, <1>4, <1>5, <1>6, <1>7, <1>8, <1>9, <1>10, <1>11, <1>12, <1>13, <1>14 DEF Next, CallStep

\* A step that leaves loads, maps, libraries, contexts and the RPC registry
\* alone keeps the rest of the invariant.
LEMMA Framed ==
  ASSUME Owned, NoOrphans, Registered, UNCHANGED <<maps, rpc, life, contexts, load>>
  PROVE  Owned' /\ NoOrphans' /\ Registered'
  BY DEF Owned, NoOrphans, HasOwner, Registered, LoadedIsCallable, maps, load

\* Every step keeps the ownership of libraries and contexts.
LEMMA StepOwned == IInv /\ [Next]_vars => (Owned /\ NoOrphans /\ Registered)'
<1> SUFFICES ASSUME IInv, [Next]_vars PROVE Owned' /\ NoOrphans' /\ Registered'
  BY DEF IInv
<1>0. /\ Owned /\ NoOrphans /\ Registered
      /\ loaded \in [Names -> Instances \cup {None}]
      /\ resources \in [Names -> Instances \cup {None}]
      /\ inst \in [Tasks -> Instances \cup {None}]
      /\ name \in [Tasks -> Names \cup {None}]
      /\ life \in [Instances -> {"new", "open", "retired", "closed"}]
      /\ pc \in [Tasks -> {"idle", "opened", "initialized", "registered"}]
      /\ contexts \subseteq Instances /\ rpc \in Seq(Instances)
      /\ \A t \in Tasks : (inst[t] = None <=> pc[t] = "idle") /\ (name[t] = None <=> pc[t] = "idle")
  BY DEF IInv, TypeOK, Optional
<1> USE <1>0, HostAssumption DEF maps, load, calls, Ready
<1>1. ASSUME NEW t \in Tasks, NEW n \in Names, NEW i \in Instances, Open(t, n, i)
      PROVE Owned' /\ NoOrphans' /\ Registered'
  <2>1. i \notin contexts /\ inst[t] = None
    BY <1>1 DEF Open, Owned, NoOrphans, HasOwner
  <2>2. Owned'
    BY <1>1, <2>1 DEF Open, Owned
  <2>3. NoOrphans'
    <3>1. ASSUME NEW j \in Instances, life'[j] = "open" \/ j \in contexts' PROVE HasOwner(j)'
      <4>1. CASE j = i
        BY <1>1, <4>1 DEF Open, HasOwner
      <4>2. CASE j # i
        <5>1. HasOwner(j)
          BY <1>1, <3>1, <4>2 DEF Open, NoOrphans
        <5> QED BY <1>1, <2>1, <5>1 DEF Open, HasOwner
      <4> QED BY <4>1, <4>2
    <3> QED BY <3>1 DEF NoOrphans
  <2>4. Registered'
    BY <1>1 DEF Open, Registered, LoadedIsCallable
  <2> QED BY <2>2, <2>3, <2>4
<1>2. ASSUME NEW t \in Tasks, Reject(t) PROVE Owned' /\ NoOrphans' /\ Registered'
  <2>1. Owned'
    BY <1>2 DEF Reject, EndLoad, Owned
  <2>2. NoOrphans'
    <3>1. inst[t] \in Instances /\ inst[t] \notin contexts
      BY <1>2 DEF Reject, Owned
    <3>2. ASSUME NEW j \in Instances, life'[j] = "open" \/ j \in contexts' PROVE HasOwner(j)'
      <4>1. j # inst[t] /\ HasOwner(j)
        BY <1>2, <3>1, <3>2 DEF Reject, NoOrphans
      <4> QED BY <1>2, <4>1 DEF Reject, EndLoad, HasOwner
    <3> QED BY <3>2 DEF NoOrphans
  <2>3. Registered'
    BY <1>2 DEF Reject, EndLoad, Registered, LoadedIsCallable
  <2> QED BY <2>1, <2>2, <2>3
<1>3. ASSUME NEW t \in Tasks, InitPlugin(t) PROVE Owned' /\ NoOrphans' /\ Registered'
  <2>1. Owned'
    BY <1>3 DEF InitPlugin, Owned
  <2>2. NoOrphans'
    BY <1>3 DEF InitPlugin, NoOrphans, HasOwner
  <2>3. Registered'
    BY <1>3 DEF InitPlugin, Registered, LoadedIsCallable
  <2> QED BY <2>1, <2>2, <2>3
<1>4. ASSUME NEW t \in Tasks, InitPluginFails(t) PROVE Owned' /\ NoOrphans' /\ Registered'
  <2>1. Owned'
    BY <1>4 DEF InitPluginFails, EndLoad, Owned
  <2>2. NoOrphans'
    <3>1. inst[t] \in Instances /\ inst[t] \notin contexts
      BY <1>4 DEF InitPluginFails, Owned
    <3>2. ASSUME NEW j \in Instances, life'[j] = "open" \/ j \in contexts' PROVE HasOwner(j)'
      <4>1. j # inst[t] /\ HasOwner(j)
        BY <1>4, <3>1, <3>2 DEF InitPluginFails, NoOrphans
      <4> QED BY <1>4, <4>1 DEF InitPluginFails, EndLoad, HasOwner
    <3> QED BY <3>2 DEF NoOrphans
  <2>3. Registered'
    BY <1>4 DEF InitPluginFails, EndLoad, Registered, LoadedIsCallable
  <2> QED BY <2>1, <2>2, <2>3
<1>5. ASSUME NEW t \in Tasks, RegisterRpc(t) PROVE Owned' /\ NoOrphans' /\ Registered'
  <2>1. Owned'
    BY <1>5 DEF RegisterRpc, Owned
  <2>2. NoOrphans'
    BY <1>5 DEF RegisterRpc, NoOrphans, HasOwner
  <2>3. inst[t] \in Instances
    BY <1>5 DEF RegisterRpc
  <2>4. /\ \A k \in DOMAIN rpc : k \in DOMAIN rpc' /\ rpc'[k] = rpc[k]
        /\ \E k \in DOMAIN rpc' : rpc'[k] = inst[t]
    <3>1. Len(rpc) + 1 \in DOMAIN rpc' /\ rpc'[Len(rpc) + 1] = inst[t]
      BY <1>5, <2>3 DEF RegisterRpc
    <3>2. \A k \in DOMAIN rpc : k \in DOMAIN rpc' /\ rpc'[k] = rpc[k]
      BY <1>5, <2>3 DEF RegisterRpc
    <3> QED BY <3>1, <3>2
  <2>5. Registered'
    BY <1>5, <2>4 DEF RegisterRpc, Registered, LoadedIsCallable
  <2> QED BY <2>1, <2>2, <2>5
<1>6. ASSUME NEW t \in Tasks, Insert(t) PROVE Owned' /\ NoOrphans' /\ Registered'
  <2>1. name[t] \in Names /\ inst[t] \in Instances
    BY <1>6 DEF Insert
  <2>2. Owned'
    BY <1>6, <2>1 DEF Insert, Retire, EndLoad, Owned
  <2>3. NoOrphans'
    <3>1. ASSUME NEW j \in Instances, life'[j] = "open" \/ j \in contexts' PROVE HasOwner(j)'
      <4>1. CASE j = inst[t]
        BY <1>6, <2>1, <4>1 DEF Insert, HasOwner
      <4>2. CASE j # inst[t]
        <5>1. j # loaded[name[t]] /\ HasOwner(j)
          BY <1>6, <2>1, <3>1 DEF Insert, Retire, Owned, NoOrphans
        <5> QED BY <1>6, <2>1, <4>2, <5>1 DEF Insert, EndLoad, HasOwner
      <4> QED BY <4>1, <4>2
    <3> QED BY <3>1 DEF NoOrphans
  <2>4. Registered'
    BY <1>6, <2>1 DEF Insert, EndLoad, Registered, LoadedIsCallable
  <2> QED BY <2>2, <2>3, <2>4
<1>7. ASSUME NEW n \in Names, Unload(n) PROVE Owned' /\ NoOrphans' /\ Registered'
  <2>1. Owned'
    BY <1>7 DEF Unload, Retire, Owned
  <2>2. NoOrphans'
    <3>1. ASSUME NEW j \in Instances, life'[j] = "open" \/ j \in contexts' PROVE HasOwner(j)'
      <4>1. j # loaded[n] /\ HasOwner(j)
        BY <1>7, <3>1 DEF Unload, Retire, Owned, NoOrphans
      <4> QED BY <1>7, <4>1 DEF Unload, HasOwner
    <3> QED BY <3>1 DEF NoOrphans
  <2>3. Registered'
    BY <1>7 DEF Unload, Registered, LoadedIsCallable
  <2> QED BY <2>1, <2>2, <2>3
<1>8. ASSUME NEW i \in Instances, Collect(i) PROVE Owned' /\ NoOrphans' /\ Registered'
  <2>1. Owned'
    BY <1>8 DEF Collect, Owned
  <2>2. NoOrphans'
    BY <1>8 DEF Collect, NoOrphans, HasOwner
  <2>3. Registered'
    BY <1>8 DEF Collect, Registered, LoadedIsCallable
  <2> QED BY <2>1, <2>2, <2>3
<1>9. ASSUME NEW c \in Callers, NEW s \in Services, CallBegin(c, s)
      PROVE Owned' /\ NoOrphans' /\ Registered'
  BY <1>9, Framed DEF CallBegin
<1>10. ASSUME NEW c \in Callers, CallStep(c) PROVE Owned' /\ NoOrphans' /\ Registered'
  BY <1>10, Framed DEF CallStep, CallTry, CallNotFound, CallAnswered, CallUnavailable
<1>11. CASE UNCHANGED vars
  BY <1>11, Framed DEF vars
<1> QED BY <1>1, <1>2, <1>3, <1>4, <1>5, <1>6, <1>7, <1>8, <1>9, <1>10, <1>11 DEF Next

\* The invariant holds in every reachable state.
LEMMA Invariance == Spec => []IInv
<1>1. IInv /\ [Next]_vars => IInv'
  BY StepTypeOK, StepOwned DEF IInv
<1> QED BY <1>1, InitIInv, PTL DEF Spec

\* Every reachable state of the manager and its registries is well typed.
THEOREM TypeCorrect == Spec => []TypeOK
  BY Invariance, PTL DEF IInv

\* Libraries and contexts are never leaked and never freed under a loaded
\* plugin, whatever loads and unloads race.
THEOREM AllAccounted == Spec => []Accounted
<1>1. IInv => Accounted
  <2> SUFFICES ASSUME IInv PROVE Accounted
    OBVIOUS
  <2> USE HostAssumption DEF IInv, TypeOK, Optional, Ready
  <2>0. contexts \subseteq Instances /\ inst \in [Tasks -> Instances \cup {None}]
    OBVIOUS
  <2>1. {i \in Instances : life[i] = "open"} =
          ({loaded[n] : n \in Names} \ {None}) \cup Loading({"opened", "initialized", "registered"})
    <3>1. ASSUME NEW i \in Instances, life[i] = "open"
          PROVE i \in ({loaded[n] : n \in Names} \ {None})
                        \cup Loading({"opened", "initialized", "registered"})
      <4>1. HasOwner(i) /\ i # None
        BY <3>1 DEF NoOrphans
      <4> QED BY <4>1 DEF HasOwner, Loading
    <3>2. \A i \in {loaded[n] : n \in Names} \ {None} : i \in Instances /\ life[i] = "open"
      BY DEF Owned
    <3>3. \A i \in Loading({"opened", "initialized", "registered"}) : i \in Instances /\ life[i] = "open"
      <4>1. \A t \in Tasks : pc[t] # "idle" => inst[t] \in Instances /\ life[inst[t]] = "open"
        BY <2>0 DEF Owned
      <4> QED BY <4>1 DEF Loading
    <3> QED BY <3>1, <3>2, <3>3
  <2>2. contexts = ({resources[n] : n \in Names} \ {None}) \cup Loading({"initialized", "registered"})
    <3>1. ASSUME NEW i \in contexts
          PROVE i \in ({resources[n] : n \in Names} \ {None}) \cup Loading({"initialized", "registered"})
      <4>1. HasOwner(i) /\ i # None
        BY <2>0 DEF NoOrphans
      <4>2. CASE \E n \in Names : loaded[n] = i
        BY <4>1, <4>2 DEF Owned
      <4>3. CASE \E t \in Tasks : inst[t] = i
        BY <4>1, <4>3 DEF Owned, Loading
      <4> QED BY <4>1, <4>2, <4>3 DEF HasOwner
    <3>2. {resources[n] : n \in Names} \ {None} \subseteq contexts
      BY DEF Owned
    <3>3. Loading({"initialized", "registered"}) \subseteq contexts
      BY DEF Owned, Loading
    <3> QED BY <3>1, <3>2, <3>3
  <2> QED BY <2>1, <2>2 DEF Accounted, Owned
<1> QED BY <1>1, Invariance, PTL

\* A plugin listed as loaded can be reached through the RPC registry.
THEOREM LoadedCallable == Spec => []LoadedIsCallable
<1>1. IInv => LoadedIsCallable
  BY DEF IInv, Registered
<1> QED BY <1>1, Invariance, PTL
=============================================================================
