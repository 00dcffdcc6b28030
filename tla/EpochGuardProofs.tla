-------------------------- MODULE EpochGuardProofs --------------------------
(***************************************************************************)
(* EpochGuardedPlugin is memory safe for every number of readers, writers  *)
(* and versions, and implements the abstract cell.                         *)
(***************************************************************************)
EXTENDS EpochGuard, FiniteSetTheorems, TLAPS

IInv == TypeOK /\ Exclusive /\ Guarded

\* The constructor establishes the invariant: one current version, nobody in.
LEMMA InitIInv == Init => IInv
  BY EpochAssumption DEF Init, IInv, TypeOK, Exclusive, Guarded, Gone, Threads

\* Each step of access, replace, unload and of the collector keeps it.
LEMMA StepIInv == IInv /\ [Next]_vars => IInv'
<1> SUFFICES ASSUME IInv, [Next]_vars PROVE IInv'
  OBVIOUS
<1> USE EpochAssumption DEF IInv
<1>1. ASSUME NEW r \in Readers, AccessPin(r) PROVE IInv'
  <2>1. TypeOK'
    BY <1>1 DEF TypeOK, AccessPin, Threads
  <2>2. Exclusive'
    BY <1>1 DEF TypeOK, Exclusive, Gone, AccessPin, Threads
  <2>3. Guarded'
    BY <1>1 DEF TypeOK, Guarded, AccessPin, Threads
  <2> QED BY <2>1, <2>2, <2>3
<1>2. ASSUME NEW r \in Readers, AccessLoad(r) PROVE IInv'
  <2>1. TypeOK'
    BY <1>2 DEF TypeOK, AccessLoad, Unpin, Threads
  <2>2. Exclusive'
    BY <1>2 DEF TypeOK, Exclusive, Gone, AccessLoad, Threads
  <2>3. Guarded'
    BY <1>2 DEF TypeOK, Guarded, Exclusive, Gone, AccessLoad, Unpin, Threads
  <2> QED BY <2>1, <2>2, <2>3
<1>3. ASSUME NEW r \in Readers, DropGuard(r) PROVE IInv'
  <2>1. TypeOK'
    BY <1>3 DEF TypeOK, DropGuard, Unpin, Threads
  <2>2. Exclusive'
    BY <1>3 DEF TypeOK, Exclusive, Gone, DropGuard, Threads
  <2>3. Guarded'
    BY <1>3 DEF TypeOK, Guarded, DropGuard, Unpin, Threads
  <2> QED BY <2>1, <2>2, <2>3
<1>4. ASSUME NEW w \in Writers, NEW i \in Loaders \cup {Null}, WritePin(w, i)
      PROVE IInv'
  <2>1. TypeOK'
    BY <1>4 DEF TypeOK, WritePin, Threads
  <2>2. Exclusive'
    BY <1>4 DEF TypeOK, Exclusive, Gone, WritePin, Threads
  <2>3. Guarded'
    BY <1>4 DEF TypeOK, Guarded, WritePin, Threads
  <2> QED BY <2>1, <2>2, <2>3
<1>5. ASSUME NEW w \in Writers, WriteSwap(w) PROVE IInv'
  <2>1. TypeOK'
    BY <1>5 DEF TypeOK, WriteSwap, Threads, epoch
  <2>2. Exclusive'
    BY <1>5 DEF TypeOK, Exclusive, Gone, WriteSwap, Threads, epoch
  <2>3. Guarded'
    BY <1>5 DEF TypeOK, Guarded, WriteSwap, Threads, epoch
  <2> QED BY <2>1, <2>2, <2>3
<1>6. ASSUME NEW w \in Writers, WriteDefer(w) PROVE IInv'
  <2>1. TypeOK'
    BY <1>6 DEF TypeOK, WriteDefer, DeferDestroy, Threads
  <2>2. Exclusive'
    BY <1>6 DEF TypeOK, Exclusive, Gone, WriteDefer, DeferDestroy, Threads
  <2>3. Guarded'
    BY <1>6 DEF TypeOK, Guarded, Exclusive, Gone, WriteDefer, DeferDestroy, Threads
  <2> QED BY <2>1, <2>2, <2>3
<1>7. ASSUME NEW w \in Writers, WriteUnpin(w) PROVE IInv'
  <2>1. TypeOK'
    BY <1>7 DEF TypeOK, WriteUnpin, Unpin, Threads
  <2>2. Exclusive'
    BY <1>7 DEF TypeOK, Exclusive, Gone, WriteUnpin, Threads
  <2>3. Guarded'
    BY <1>7 DEF TypeOK, Guarded, WriteUnpin, Unpin, Threads
  <2> QED BY <2>1, <2>2, <2>3
<1>8. ASSUME NEW i \in Loaders, Collect(i) PROVE IInv'
  <2>1. TypeOK'
    BY <1>8 DEF TypeOK, Collect, Threads
  <2>2. Exclusive'
    BY <1>8 DEF TypeOK, Exclusive, Gone, Collect, Threads
  <2>3. Guarded'
    BY <1>8 DEF TypeOK, Guarded, Collect, Threads
  <2> QED BY <2>1, <2>2, <2>3
<1>9. CASE UNCHANGED vars
  BY <1>9 DEF vars, epoch, TypeOK, Exclusive, Guarded, Gone
<1> QED BY <1>1, <1>2, <1>3, <1>4, <1>5, <1>6, <1>7, <1>8, <1>9 DEF Next

\* The invariant holds in every reachable state.
LEMMA Invariance == Spec => []IInv
  BY InitIInv, StepIInv, PTL DEF Spec

\* Every reachable state of the cell, its users and the collector is well
\* typed, and exactly the threads inside a call hold an epoch guard.
THEOREM TypeCorrect == Spec => []TypeOK
  BY Invariance, PTL DEF IInv

\* A plugin reached through the PluginGuard that access returned is not
\* destroyed, whatever replace and unload do meanwhile.
THEOREM MemorySafe == Spec => []NoUseAfterFree
<1>1. IInv => NoUseAfterFree
  BY DEF IInv, Guarded, NoUseAfterFree
<1> QED BY <1>1, Invariance, PTL

-----------------------------------------------------------------------------
(* Ownership.                                                              *)

\* No loader is lost: it is in the cell, in a writer's hands, waiting for its
\* destruction, destroyed, or not opened yet.
Kept ==
  \A i \in Loaders : i = inner \/ i \in Gone \/ \E w \in Writers : new[w] = i \/ old[w] = i

\* Each step of access, replace, unload and of the collector passes a loader on.
LEMMA StepKept == IInv /\ Kept /\ [Next]_vars => Kept'
<1> SUFFICES ASSUME IInv, Kept, [Next]_vars PROVE Kept'
  OBVIOUS
<1> USE EpochAssumption DEF IInv, TypeOK, Kept, Gone
<1>1. ASSUME NEW r \in Readers, AccessPin(r) \/ AccessLoad(r) \/ DropGuard(r) PROVE Kept'
  BY <1>1 DEF AccessPin, AccessLoad, DropGuard
<1>2. ASSUME NEW w \in Writers, NEW i \in Loaders \cup {Null}, WritePin(w, i) PROVE Kept'
  <2>1. new[w] = Null
    BY <1>2 DEF WritePin, Exclusive
  <2> QED BY <1>2, <2>1 DEF WritePin
<1>3. ASSUME NEW w \in Writers, WriteSwap(w) PROVE Kept'
  <2>1. old[w] = Null
    BY <1>3 DEF WriteSwap, Exclusive
  <2> QED BY <1>3, <2>1 DEF WriteSwap, epoch
<1>4. ASSUME NEW w \in Writers, WriteDefer(w) PROVE Kept'
  BY <1>4 DEF WriteDefer, DeferDestroy
<1>5. ASSUME NEW w \in Writers, WriteUnpin(w) PROVE Kept'
  BY <1>5 DEF WriteUnpin
<1>6. ASSUME NEW i \in Loaders, Collect(i) PROVE Kept'
  BY <1>6 DEF Collect
<1>7. CASE UNCHANGED vars
  BY <1>7 DEF vars, epoch
<1> QED BY <1>1, <1>2, <1>3, <1>4, <1>5, <1>6, <1>7 DEF Next

\* Exclusive and Kept together: a loader is in exactly one place.
LEMMA OnePlace ==
  ASSUME IInv, Kept, NEW i \in Loaders PROVE \E p : Places(i) = {p}
<1> USE EpochAssumption DEF IInv, Exclusive, Gone
<1>1. CASE i = inner
  <2>1. Places(i) = {<<"inner", Null>>}
    BY <1>1 DEF Places
  <2> QED BY <2>1
<1>2. ASSUME NEW w \in Writers, new[w] = i PROVE \E p : Places(i) = {p}
  <2>1. Places(i) = {<<"new", w>>}
    BY <1>2 DEF Places
  <2> QED BY <2>1
<1>3. ASSUME NEW w \in Writers, old[w] = i PROVE \E p : Places(i) = {p}
  <2>1. Places(i) = {<<"old", w>>}
    BY <1>3 DEF Places
  <2> QED BY <2>1
<1>4. CASE i \in retired
  <2>1. Places(i) = {<<"retired", Null>>}
    BY <1>4 DEF Places
  <2> QED BY <2>1
<1>5. CASE i \in destroyed
  <2>1. Places(i) = {<<"destroyed", Null>>}
    BY <1>5 DEF Places
  <2> QED BY <2>1
<1>6. CASE i \in unused
  <2>1. Places(i) = {<<"unused", Null>>}
    BY <1>6 DEF Places
  <2> QED BY <2>1
<1> QED BY <1>1, <1>2, <1>3, <1>4, <1>5, <1>6 DEF Kept

\* Replacements and unloads that race neither leak a library nor hand it to the
\* collector twice: every loader has exactly one owner.
THEOREM OneOwner == Spec => []OwnedOnce
<1>1. Init => Kept
  BY EpochAssumption DEF Init, Kept, Gone
<1>2. Spec => []Kept
  BY <1>1, Invariance, StepKept, PTL DEF Spec
<1>3. IInv /\ Kept => OwnedOnce
  BY OnePlace, FS_Singleton DEF OwnedOnce
<1> QED BY <1>2, <1>3, Invariance, PTL

-----------------------------------------------------------------------------
(* Refinement of the abstract cell.                                        *)

\* The history of the abstract cell, in the terms of the implementation.
Replaced == {i \in Loaders : i \in retired \cup destroyed \/ \E w \in Writers : old[w] = i}

\* Initial states map to initial states.
LEMMA InitRefines == Init => Cell!Init
  BY EpochAssumption DEF Init, Cell!Init

\* Every step maps to a step of the cell or to a stutter: AccessLoad to Use,
\* DropGuard to Leave, WriteSwap to Put, Collect to Destroy.
LEMMA StepRefines == IInv /\ [Next]_vars => [Cell!Next]_Cell!cellVars
<1> SUFFICES ASSUME IInv, [Next]_vars PROVE [Cell!Next]_Cell!cellVars
  OBVIOUS
<1> USE EpochAssumption DEF IInv
<1>1. ASSUME NEW r \in Readers, AccessPin(r) PROVE UNCHANGED Cell!cellVars
  BY <1>1 DEF AccessPin, Cell!cellVars
<1>2. ASSUME NEW r \in Readers, AccessLoad(r) PROVE [Cell!Next]_Cell!cellVars
  <2>1. CASE inner # Null
    <3>1. Cell!Use(r)
      BY <1>2, <2>1 DEF AccessLoad, Cell!Use, Cell!cellVars
    <3> QED BY <3>1 DEF Cell!Next
  <2>2. CASE inner = Null
    <3>1. Cell!Leave(r)
      BY <1>2, <2>2 DEF AccessLoad, Cell!Leave, Cell!cellVars
    <3> QED BY <3>1 DEF Cell!Next
  <2> QED BY <2>1, <2>2
<1>3. ASSUME NEW r \in Readers, DropGuard(r) PROVE [Cell!Next]_Cell!cellVars
  <2>1. Cell!Leave(r)
    BY <1>3 DEF DropGuard, Cell!Leave, Cell!cellVars
  <2> QED BY <2>1 DEF Cell!Next
<1>4. ASSUME NEW w \in Writers, NEW i \in Loaders \cup {Null}, WritePin(w, i)
      PROVE UNCHANGED Cell!cellVars
  BY <1>4 DEF WritePin, Cell!cellVars
<1>5. ASSUME NEW w \in Writers, WriteSwap(w) PROVE [Cell!Next]_Cell!cellVars
  <2>1. old[w] = Null /\ new[w] \in Loaders \cup {Null}
    BY <1>5 DEF WriteSwap, Exclusive, TypeOK, Threads
  <2>2. Replaced' = Replaced \cup ({inner} \ {Null})
    BY <1>5, <2>1 DEF WriteSwap, Replaced, TypeOK, epoch
  <2>3. new[w] = Null \/ new[w] \notin Replaced \cup {inner}
    BY <2>1 DEF Exclusive, Gone, Replaced
  <2>4. PICK n \in Loaders \cup {Null} : n = new[w]
    BY <2>1
  <2>5. Cell!Put(n)
    BY <1>5, <2>2, <2>3, <2>4 DEF WriteSwap, Replaced, Cell!Put, epoch
  <2> QED BY <2>5 DEF Cell!Next
<1>6. ASSUME NEW w \in Writers, WriteDefer(w) PROVE UNCHANGED Cell!cellVars
  <2>1. Replaced' = Replaced
    BY <1>6 DEF WriteDefer, DeferDestroy, Replaced, TypeOK
  <2> QED BY <1>6, <2>1 DEF WriteDefer, Replaced, Cell!cellVars
<1>7. ASSUME NEW w \in Writers, WriteUnpin(w) PROVE UNCHANGED Cell!cellVars
  BY <1>7 DEF WriteUnpin, Cell!cellVars
<1>8. ASSUME NEW i \in Loaders, Collect(i) PROVE [Cell!Next]_Cell!cellVars
  <2>1. Replaced' = Replaced
    BY <1>8 DEF Collect, Replaced
  <2>2. i \in Replaced \ destroyed
    BY <1>8 DEF Collect, Replaced, Exclusive
  <2>3. \A r \in Readers : ptr[r] # i
    BY <1>8 DEF Collect, Guarded
  <2>4. Cell!Destroy(i)
    BY <1>8, <2>1, <2>2, <2>3 DEF Collect, Replaced, Cell!Destroy
  <2> QED BY <2>4 DEF Cell!Next
<1>9. CASE UNCHANGED vars
  BY <1>9 DEF vars, epoch, Cell!cellVars
<1> QED BY <1>1, <1>2, <1>3, <1>4, <1>5, <1>6, <1>7, <1>8, <1>9 DEF Next

\* The epoch-guarded pointer keeps the promise of PluginCell.
THEOREM CellImplemented == Spec => ImplementsCell
<1>1. Spec => Cell!Init /\ [][Cell!Next]_Cell!cellVars
  BY InitRefines, StepRefines, Invariance, PTL DEF Spec
<1> QED BY <1>1 DEF ImplementsCell, Cell!Spec
=============================================================================
