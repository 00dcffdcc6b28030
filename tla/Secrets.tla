------------------------------ MODULE Secrets ------------------------------
(***************************************************************************)
(* DefaultSecretsProvider over EncryptedSecretStore (abi/src/security.rs). *)
(* put_secret, rotate_secret and delete_secret lock the store, the         *)
(* metadata and the versions one after the other, so calls of several      *)
(* plugins' threads interleave between them.  One secret is modelled; a    *)
(* value is a number, and each call brings a fresh one.                    *)
(***************************************************************************)
EXTENDS Naturals, Sequences, FiniteSets

CONSTANTS Threads,
          MaxValue,      \* bound: values
          GivenVersions  \* bound: version numbers in the metadata that callers give

VARIABLES store,    \* the value in the store, 0 when there is none
          meta,     \* version, is_valid and whether a rotation is scheduled, of
                    \* the metadata; history: the version is one that a caller
                    \* gave, no rotation has numbered it since
          versions, \* version entries
          op,       \* what each thread is doing
          used,     \* values used so far
          overlap   \* history: two calls have overlapped

vars == <<store, meta, versions, op, used, overlap>>

\* What the metadata of a caller may say.
GivenMetadata == [version : GivenVersions, valid : BOOLEAN, scheduled : BOOLEAN, given : {TRUE}]
NoMeta == [version |-> 0, valid |-> FALSE, scheduled |-> FALSE, given |-> FALSE]
NewMeta == [version |-> 1, valid |-> TRUE, scheduled |-> FALSE, given |-> FALSE]
Idle   == [at |-> "idle"]

Init == /\ store = 0 /\ meta = NoMeta /\ versions = <<>>
        /\ op = [t \in Threads |-> Idle]
        /\ used = 0 /\ overlap = FALSE

Overlapped(t) == overlap' = (overlap \/ \E u \in Threads \ {t} : op[u] # Idle)

Entry(n, v, a) == [version |-> n, value |-> v, active |-> a]

Fresh == used < MaxValue /\ used' = used + 1

\* put_secret and rotate_secret store the value first; a rotation has read
\* the last version number before.
PutStore(t) == /\ op[t] = Idle /\ Fresh
               /\ store' = used + 1
               /\ op' = [op EXCEPT ![t] = [at |-> "putMeta", value |-> used + 1]]
               /\ Overlapped(t)
               /\ UNCHANGED <<meta, versions>>

\* The caller's metadata, whatever they say, or new ones.
PutMeta(t) == /\ op[t].at = "putMeta"
              /\ meta' = NewMeta \/ meta' \in GivenMetadata
              /\ op' = [op EXCEPT ![t].at = "putVersion"]
              /\ UNCHANGED <<store, versions, used, overlap>>

PutVersion(t) == /\ op[t].at = "putVersion"
                 /\ versions' = <<Entry(1, op[t].value, TRUE)>>
                 /\ op' = [op EXCEPT ![t] = Idle]
                 /\ UNCHANGED <<store, meta, used, overlap>>

RotateRead(t) == /\ op[t] = Idle /\ Fresh
                 /\ LET n == IF versions = <<>> THEN 0 ELSE versions[Len(versions)].version
                    IN  op' = [op EXCEPT ![t] = [at |-> "rotateStore", value |-> used + 1, num |-> n + 1]]
                 /\ Overlapped(t)
                 /\ UNCHANGED <<store, meta, versions>>

RotateStore(t) == /\ op[t].at = "rotateStore"
                  /\ store' = op[t].value
                  /\ op' = [op EXCEPT ![t].at = "rotateMeta"]
                  /\ UNCHANGED <<meta, versions, used, overlap>>

RotateMeta(t) == /\ op[t].at = "rotateMeta"
                 /\ meta' = IF meta = NoMeta THEN meta ELSE [meta EXCEPT !.version = op[t].num, !.given = FALSE]
                 /\ op' = [op EXCEPT ![t].at = "rotateVersion"]
                 /\ UNCHANGED <<store, versions, used, overlap>>

\* Every entry becomes inactive and the new one is appended; a secret that was
\* never put has no list and gets none.
RotateVersion(t) ==
  /\ op[t].at = "rotateVersion"
  /\ versions' = IF versions = <<>> THEN <<>>
                 ELSE Append([i \in 1..Len(versions) |-> [versions[i] EXCEPT !.active = FALSE]],
                             Entry(op[t].num, op[t].value, TRUE))
  /\ op' = [op EXCEPT ![t] = Idle]
  /\ UNCHANGED <<store, meta, used, overlap>>

\* delete_secret marks the metadata and empties the store; entries stay.
DeleteMeta(t) == /\ op[t] = Idle
                 /\ meta' = IF meta = NoMeta THEN meta ELSE [meta EXCEPT !.valid = FALSE]
                 /\ op' = [op EXCEPT ![t] = [at |-> "deleteStore"]]
                 /\ Overlapped(t)
                 /\ UNCHANGED <<store, versions, used>>

DeleteStore(t) == /\ op[t].at = "deleteStore"
                  /\ store' = 0
                  /\ op' = [op EXCEPT ![t] = Idle]
                  /\ UNCHANGED <<meta, versions, used, overlap>>

\* schedule_rotation and cancel_rotation write an interval that nothing reads.
schedule_rotation == /\ meta # NoMeta /\ ~meta.scheduled /\ meta' = [meta EXCEPT !.scheduled = TRUE]
                     /\ UNCHANGED <<store, versions, op, used, overlap>>
cancel_rotation == /\ meta.scheduled /\ meta' = [meta EXCEPT !.scheduled = FALSE]
                   /\ UNCHANGED <<store, versions, op, used, overlap>>

\* get_secret_with_metadata reads the store, then the metadata; each part fails
\* on its own when there is nothing.
get_secret(t) == /\ op[t] = Idle /\ store # 0
                 /\ op' = [op EXCEPT ![t] = [at |-> "getMeta", value |-> store]]
                 /\ Overlapped(t)
                 /\ UNCHANGED <<store, meta, versions, used>>

get_secret_metadata(t) ==
  /\ op[t].at = "getMeta"
  /\ op' = [op EXCEPT ![t] = IF meta = NoMeta THEN Idle ELSE [at |-> "got", value |-> @.value, meta |-> meta]]
  /\ UNCHANGED <<store, meta, versions, used, overlap>>

Return(t) == /\ op[t].at = "got" /\ op' = [op EXCEPT ![t] = Idle]
             /\ UNCHANGED <<store, meta, versions, used, overlap>>

\* rotate_master_key of the store decrypts all secrets, clears them, and
\* leaves storing them again to its caller.
rotate_master_key == /\ store' = 0
                     /\ UNCHANGED <<meta, versions, op, used, overlap>>

Next == \/ rotate_master_key \/ schedule_rotation \/ cancel_rotation
        \/ \E t \in Threads :
             \/ PutStore(t) \/ PutMeta(t) \/ PutVersion(t)
             \/ RotateRead(t) \/ RotateStore(t) \/ RotateMeta(t) \/ RotateVersion(t)
             \/ DeleteMeta(t) \/ DeleteStore(t)
             \/ get_secret(t) \/ get_secret_metadata(t) \/ Return(t)

Spec == Init /\ [][Next]_vars

-----------------------------------------------------------------------------
\* At every moment a secret has at most one active version, its newest, and
\* when calls do not overlap a secret at rest that was put and is in the store
\* is the value of that version, under the number the metadata shows unless a
\* caller gave that number (put_secret, rotate_secret, delete_secret).
ActiveVersionStored ==
  LET n == Len(versions) IN
    /\ \A i \in 1..n : versions[i].active <=> i = n
    /\ ~overlap /\ store # 0 /\ n > 0 /\ (\A t \in Threads : op[t] = Idle)
         => versions[n].value = store /\ (versions[n].version = meta.version \/ meta.given)

\* When calls do not overlap, the metadata read with a value is that of the
\* version with this value, or what the caller that put it gave
\* (get_secret_with_metadata, security.rs:1933).
ReadTogether ==
  \A t \in Threads : op[t].at = "got" /\ ~overlap /\ versions # <<>> =>
    \E i \in DOMAIN versions :
      versions[i].value = op[t].value /\ (versions[i].version = op[t].meta.version \/ op[t].meta.given)
=============================================================================
