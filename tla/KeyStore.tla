------------------------------ MODULE KeyStore ------------------------------
(***************************************************************************)
(* DefaultKeyManagement of abi/src/key_management.rs: a map of keys and an *)
(* atomic counter for their ids.  generate_key takes the counter and the   *)
(* map one after the other; rotate_key looks the old key up first.         *)
(***************************************************************************)
EXTENDS Naturals, FiniteSets

CONSTANTS Users,   \* threads
          MaxKeys, \* bound: key ids
          None

VARIABLES
  keys,         \* key id -> its key material (the thread's draw), or None
  key_counter,
  step, fresh,  \* of a thread: where it is, the id it has drawn
  issued,       \* history: ids whose key was handed to a caller
  revoked       \* history: ids revoked

vars == <<keys, key_counter, step, fresh, issued, revoked>>

Ids == 0..MaxKeys

TypeOK ==
  /\ keys \in [Ids -> Users \cup {None}]
  /\ key_counter \in Nat
  /\ step \in [Users -> {"idle", "generate", "insert"}] /\ fresh \in [Users -> Ids \cup {None}]
  /\ issued \subseteq Ids /\ revoked \subseteq issued

Init ==
  /\ keys = [k \in Ids |-> None] /\ key_counter = 0
  /\ step = [u \in Users |-> "idle"] /\ fresh = [u \in Users |-> None]
  /\ issued = {} /\ revoked = {}

Stored == {k \in Ids : keys[k] # None}

\* A type that is not Ed25519 is refused before anything changes.  derive_key is
\* generate_key with a context in the copy it returns.
generate_key(u) ==
  /\ step[u] = "idle"
  /\ step' = [step EXCEPT ![u] = "generate"]
  /\ UNCHANGED <<keys, key_counter, fresh, issued, revoked>>

\* key_exists, then generate_key; the old key stays.
rotate_key(u, k) == k \in Stored /\ generate_key(u)

DrawBySize(u) ==
  /\ step[u] = "generate" /\ key_counter <= MaxKeys
  /\ fresh' = [fresh EXCEPT ![u] = Cardinality(Stored)]
  /\ step' = [step EXCEPT ![u] = "insert"]
  /\ key_counter' = key_counter + 1
  /\ UNCHANGED <<keys, issued, revoked>>

\* generate_key_id: fetch_add.
Draw(u) ==
  /\ step[u] = "generate" /\ key_counter <= MaxKeys
  /\ fresh' = [fresh EXCEPT ![u] = key_counter]
  /\ key_counter' = key_counter + 1
  /\ step' = [step EXCEPT ![u] = "insert"]
  /\ UNCHANGED <<keys, issued, revoked>>

Insert(u) ==
  /\ step[u] = "insert"
  /\ keys' = [keys EXCEPT ![fresh[u]] = u]
  /\ issued' = issued \cup {fresh[u]}
  /\ fresh' = [fresh EXCEPT ![u] = None]
  /\ step' = [step EXCEPT ![u] = "idle"]
  /\ UNCHANGED <<key_counter, revoked>>

revoke_key(k) ==
  /\ k \in Stored
  /\ keys' = [keys EXCEPT ![k] = None]
  /\ revoked' = revoked \cup {k}
  /\ UNCHANGED <<key_counter, step, fresh, issued>>

Next ==
  \/ \E u \in Users : generate_key(u) \/ Draw(u) \/ Insert(u) \/ \E k \in Ids : rotate_key(u, k)
  \/ \E k \in Ids : revoke_key(k)

Spec == Init /\ [][Next]_vars

\* The key behind an id never changes, and a revoked id never signs or verifies
\* again, whatever generations, rotations and revocations overlap.
KeyFixed ==
  [][\A k \in issued : keys'[k] = keys[k] \/ (keys'[k] = None /\ k \in revoked')]_vars
=============================================================================
