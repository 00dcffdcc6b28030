----------------------------- MODULE EpochGuard -----------------------------
(***************************************************************************)
(* EpochGuardedPlugin of src/plugin_manager/epoch_guard.rs: an atomic      *)
(* pointer to the loaded plugin, read under an epoch guard and replaced    *)
(* with deferred destruction.  The atomic load, the swap and the call of   *)
(* defer_destroy are separate steps, and any number of readers, replacers  *)
(* and unloaders interleave.                                               *)
(*                                                                         *)
(* crossbeam-epoch is external: what it is trusted for is that a value     *)
(* passed to defer_destroy is dropped only after every thread that was     *)
(* pinned at that moment has unpinned.  It does not promise when.          *)
(***************************************************************************)
EXTENDS Naturals, FiniteSets

CONSTANTS Loaders,  \* AbiV2PluginLoader values (each owns a Library)
          Readers,  \* threads that call access
          Writers,  \* threads that call replace or unload
          Null

ASSUME EpochAssumption ==
  Null \notin Loaders /\ Readers \cap Writers = {} /\ Loaders # {}

Threads == Readers \cup Writers

VARIABLES
  inner,      \* the Atomic: a loader or Null
  pc,         \* where a thread is in its call
  ptr,        \* reader: pointer in its PluginGuard
  new,        \* writer: the value it will swap in
  old,        \* writer: the value its swap returned
  pinned,     \* threads that hold an epoch guard
  retired,    \* loaders passed to defer_destroy and not yet dropped
  waits,      \* for each retired loader the threads it still waits for
  destroyed,  \* dropped loaders
  unused      \* loaders nobody has opened yet

epoch == <<pinned, retired, waits, destroyed>>
vars  == <<inner, pc, ptr, new, old, epoch, unused>>

TypeOK ==
  /\ inner \in Loaders \cup {Null}
  /\ pc \in [Threads -> {"idle", "pinned", "holding", "swapped"}]
  /\ ptr \in [Readers -> Loaders \cup {Null}]
  /\ new \in [Writers -> Loaders \cup {Null}]
  /\ old \in [Writers -> Loaders \cup {Null}]
  /\ pinned = {t \in Threads : pc[t] # "idle"}
  /\ retired \subseteq Loaders
  /\ waits \in [Loaders -> SUBSET Threads]
  /\ destroyed \subseteq Loaders
  /\ unused \subseteq Loaders

\* EpochGuardedPlugin::new
Init ==
  /\ inner \in Loaders
  /\ unused = Loaders \ {inner}
  /\ pc = [t \in Threads |-> "idle"]
  /\ ptr = [r \in Readers |-> Null]
  /\ new = [w \in Writers |-> Null]
  /\ old = [w \in Writers |-> Null]
  /\ pinned = {} /\ retired = {} /\ destroyed = {}
  /\ waits = [i \in Loaders |-> {}]

-----------------------------------------------------------------------------
(* crossbeam-epoch.                                                        *)

Unpin(t) ==
  /\ pinned' = pinned \ {t}
  /\ waits' = [i \in Loaders |-> waits[i] \ {t}]

DeferDestroyAsIfUnpinned(i) ==
  /\ retired' = retired \cup {i}
  /\ waits' = [waits EXCEPT ![i] = {}]

DeferDestroy(i) ==
  /\ retired' = retired \cup {i}
  /\ waits' = [waits EXCEPT ![i] = pinned]

\* The collector runs the deferred drop.
Collect(i) ==
  /\ i \in retired /\ waits[i] = {}
  /\ retired' = retired \ {i}
  /\ destroyed' = destroyed \cup {i}
  /\ UNCHANGED <<inner, pc, ptr, new, old, pinned, waits, unused>>

-----------------------------------------------------------------------------
(* access and the PluginGuard it returns.                                  *)

AccessPin(r) ==
  /\ pc[r] = "idle"
  /\ pinned' = pinned \cup {r}
  /\ pc' = [pc EXCEPT ![r] = "pinned"]
  /\ UNCHANGED <<inner, ptr, new, old, retired, waits, destroyed, unused>>

AccessUnguarded(r) ==
  /\ pc[r] = "pinned"
  /\ ptr' = [ptr EXCEPT ![r] = inner]
  /\ pc' = [pc EXCEPT ![r] = IF inner = Null THEN "idle" ELSE "holding"]
  /\ Unpin(r)
  /\ UNCHANGED <<inner, new, old, retired, destroyed, unused>>

\* The load: None drops the epoch guard, Some keeps it in the PluginGuard.
AccessLoad(r) ==
  /\ pc[r] = "pinned"
  /\ ptr' = [ptr EXCEPT ![r] = inner]
  /\ IF inner = Null
     THEN pc' = [pc EXCEPT ![r] = "idle"] /\ Unpin(r)
     ELSE pc' = [pc EXCEPT ![r] = "holding"] /\ UNCHANGED <<pinned, waits>>
  /\ UNCHANGED <<inner, new, old, retired, destroyed, unused>>

DropGuard(r) ==
  /\ pc[r] = "holding"
  /\ ptr' = [ptr EXCEPT ![r] = Null]
  /\ pc' = [pc EXCEPT ![r] = "idle"]
  /\ Unpin(r)
  /\ UNCHANGED <<inner, new, old, retired, destroyed, unused>>

-----------------------------------------------------------------------------
(* replace (with a newly opened loader); unload and drop (with Null).      *)

WritePin(w, i) ==
  /\ pc[w] = "idle"
  /\ i \in unused \cup {Null}
  /\ unused' = unused \ {i}
  /\ new' = [new EXCEPT ![w] = i]
  /\ pinned' = pinned \cup {w}
  /\ pc' = [pc EXCEPT ![w] = "pinned"]
  /\ UNCHANGED <<inner, ptr, old, retired, waits, destroyed>>

WriteSwap(w) ==
  /\ pc[w] = "pinned"
  /\ old' = [old EXCEPT ![w] = inner]
  /\ inner' = new[w]
  /\ new' = [new EXCEPT ![w] = Null]
  /\ pc' = [pc EXCEPT ![w] = "swapped"]
  /\ UNCHANGED <<ptr, epoch, unused>>

WriteDeferTwice(w) ==
  /\ pc[w] = "swapped"
  /\ IF old[w] = Null THEN UNCHANGED <<retired, waits>> ELSE DeferDestroy(old[w])
  /\ pc' = [pc EXCEPT ![w] = "pinned"]
  /\ new' = [new EXCEPT ![w] = old[w]]
  /\ old' = [old EXCEPT ![w] = Null]
  /\ UNCHANGED <<inner, ptr, pinned, destroyed, unused>>

\* defer_destroy of a non-null old value; the writer still holds its guard.
WriteDefer(w) ==
  /\ pc[w] = "swapped"
  /\ IF old[w] = Null THEN UNCHANGED <<retired, waits>> ELSE DeferDestroy(old[w])
  /\ pc' = [pc EXCEPT ![w] = "holding"]
  /\ old' = [old EXCEPT ![w] = Null]
  /\ UNCHANGED <<inner, ptr, new, pinned, destroyed, unused>>

\* flush, and the guard goes out of scope.
WriteUnpin(w) ==
  /\ pc[w] = "holding"
  /\ pc' = [pc EXCEPT ![w] = "idle"]
  /\ Unpin(w)
  /\ UNCHANGED <<inner, ptr, new, old, retired, destroyed, unused>>

Next ==
  \/ \E r \in Readers : AccessPin(r) \/ AccessLoad(r) \/ DropGuard(r)
  \/ \E w \in Writers, i \in Loaders \cup {Null} : WritePin(w, i)
  \/ \E w \in Writers : WriteSwap(w) \/ WriteDefer(w) \/ WriteUnpin(w)
  \/ \E i \in Loaders : Collect(i)

Spec == Init /\ [][Next]_vars

-----------------------------------------------------------------------------
(* Properties.                                                             *)

\* epoch_guard.rs: the old version "is only destroyed after all guards have
\* been released".  A plugin reached through a PluginGuard is never destroyed.
NoUseAfterFree == \A r \in Readers : ptr[r] # Null => ptr[r] \notin destroyed

\* Ownership: every loader that was opened is in exactly one place (the cell,
\* a writer's hands, the collector's queue) or destroyed, so replace and
\* unload racing with each other neither leak a library nor close it twice.
Places(i) ==
  {<<"inner", Null>> : x \in {inner} \cap {i}}
    \cup {<<"new", w>> : w \in {x \in Writers : new[x] = i}}
    \cup {<<"old", w>> : w \in {x \in Writers : old[x] = i}}
    \cup {<<"retired", Null>> : x \in retired \cap {i}}
    \cup {<<"destroyed", Null>> : x \in destroyed \cap {i}}
    \cup {<<"unused", Null>> : x \in unused \cap {i}}

OwnedOnce == \A i \in Loaders : Cardinality(Places(i)) = 1

\* The strengthening that makes NoUseAfterFree inductive.  A reader's guard is
\* among those a retired loader waits for, because the loader was reachable
\* from the cell when the guard loaded it and is retired only after the swap.
Guarded ==
  \A r \in Readers :
    /\ ptr[r] # Null <=> pc[r] = "holding"
    /\ ptr[r] # Null => /\ ptr[r] \notin destroyed \cup unused
                        /\ \A w \in Writers : new[w] # ptr[r]
                        /\ ptr[r] \in retired => r \in waits[ptr[r]]

\* A loader in the cell or in a writer's hands is nowhere else.
Gone == retired \cup destroyed \cup unused
Exclusive ==
  /\ retired \cap destroyed = {} /\ unused \cap (retired \cup destroyed) = {}
  /\ inner # Null => inner \notin Gone /\ \A w \in Writers : inner # new[w] /\ inner # old[w]
  /\ \A w \in Writers :
       /\ new[w] # Null => /\ pc[w] = "pinned" /\ new[w] \notin Gone
                           /\ \A v \in Writers : new[w] # old[v] /\ (v # w => new[v] # new[w])
       /\ old[w] # Null => /\ pc[w] = "swapped" /\ old[w] \notin Gone
                           /\ \A v \in Writers : v # w => old[v] # old[w]

\* The epoch-guarded pointer implements the abstract cell: a version is
\* replaced at the swap and destroyed only when nobody uses it.
Cell == INSTANCE PluginCell WITH
          current <- inner, using <- ptr, destroyed <- destroyed,
          replaced <- {i \in Loaders : i \in retired \cup destroyed
                                          \/ \E w \in Writers : old[w] = i}
ImplementsCell == Cell!Spec
=============================================================================
