----------------------------- MODULE PluginCell -----------------------------
(***************************************************************************)
(* What EpochGuardedPlugin promises (the "Solution" of                     *)
(* src/plugin_manager/epoch_guard.rs): a cell with the current plugin that *)
(* can be replaced while it is in use, where a version is destroyed only   *)
(* when it is no longer current and nobody uses it.                        *)
(***************************************************************************)
CONSTANTS Loaders, Readers, Null

VARIABLES current,    \* the version new users get, or Null
          using,      \* the version each reader uses, or Null
          replaced,   \* versions that were current and are no more
          destroyed   \* versions whose library is closed

cellVars == <<current, using, replaced, destroyed>>

Init ==
  /\ current \in Loaders
  /\ using = [r \in Readers |-> Null]
  /\ replaced = {} /\ destroyed = {}

Use(r) ==
  /\ current # Null
  /\ using' = [using EXCEPT ![r] = current]
  /\ UNCHANGED <<current, replaced, destroyed>>

Leave(r) ==
  /\ using' = [using EXCEPT ![r] = Null]
  /\ UNCHANGED <<current, replaced, destroyed>>

\* Replace by a version that never was in the cell, or by nothing.
Put(new) ==
  /\ new = Null \/ new \notin replaced \cup {current}
  /\ current' = new
  /\ replaced' = replaced \cup ({current} \ {Null})
  /\ UNCHANGED <<using, destroyed>>

Destroy(i) ==
  /\ i \in replaced \ destroyed
  /\ \A r \in Readers : using[r] # i
  /\ destroyed' = destroyed \cup {i}
  /\ UNCHANGED <<current, using, replaced>>

Next ==
  \/ \E r \in Readers : Use(r) \/ Leave(r)
  \/ \E new \in Loaders \cup {Null} : Put(new)
  \/ \E i \in Loaders : Destroy(i)

Spec == Init /\ [][Next]_cellVars
=============================================================================
