--------------------------- MODULE SecurityProofs ---------------------------
(***************************************************************************)
(* Proofs about the security services of the ABI crate, for any number of  *)
(* callers, plugins, credentials and lines: Credentials (rotation of       *)
(* credentials, backup codes), Secrets (versions of a secret), Authz (the  *)
(* cache of permissions), AuditLog (replication), Approvals (requests for  *)
(* capabilities) and AccessControl (permissions, policies, texts).  Each   *)
(* service is proved about by itself; the theorems, at the end, are about  *)
(* their composition in MCSecurity.                                        *)
(***************************************************************************)
EXTENDS MCSecurity, FiniteSetTheorems, WellFoundedInduction, TLAPS

-----------------------------------------------------------------------------
(* Sets of natural numbers.                                                *)

\* A non-empty set of natural numbers has a least element.
LEMMA Least ==
  ASSUME NEW T, T \subseteq Nat, T # {}
  PROVE  \E x \in T : \A y \in T : x <= y
<1> DEFINE R == OpToRel(<, Nat)
<1>1. \A x, y \in Nat : x < y => <<x, y>> \in R
  BY DEF OpToRel
<1>2. IsWellFoundedOn(R, Nat)
  BY NatLessThanWellFounded
<1> HIDE DEF R
<1>3. PICK x \in T : \A y \in T : ~ (<<y, x>> \in R)
  BY <1>2, WFMin
<1>4. \A y \in T : ~ (y < x)
  BY <1>1, <1>3
<1>5. \A y \in T : x <= y
  BY <1>4
<1> QED BY <1>5

\* One with a bound has a greatest.
LEMMA Greatest ==
  ASSUME NEW n \in Nat, NEW T, T \subseteq 0..n, T # {}
  PROVE  \E x \in T : \A y \in T : y <= x
<1> DEFINE U == {m \in Nat : \A y \in T : y <= m}
<1>1. n \in U
  OBVIOUS
<1>2. PICK m \in U : \A k \in U : m <= k
  BY <1>1, Least
<1>3. m \in T
  <2> SUFFICES ASSUME m \notin T PROVE FALSE
    OBVIOUS
  <2>1. PICK z : z \in T
    OBVIOUS
  <2>2. m > 0
    BY <1>2, <2>1
  <2>3. m - 1 \in U
    BY <1>2, <2>2
  <2> QED BY <2>3, <1>2
<1> QED BY <1>2, <1>3

\* The instances of the components count as FiniteSets does.
LEMMA SameCardinality ==
  \A T : C!Cardinality(T) = Cardinality(T) /\ F!Cardinality(T) = Cardinality(T) /\ A!Cardinality(T) = Cardinality(T)
<1>1. \A T : C!Cardinality(T) = Cardinality(T)
  BY DEF Cardinality, C!Cardinality
<1>2. \A T : F!Cardinality(T) = Cardinality(T)
  BY DEF Cardinality, F!Cardinality
<1>3. \A T : A!Cardinality(T) = Cardinality(T)
  BY DEF Cardinality, A!Cardinality
<1> QED BY <1>1, <1>2, <1>3

-----------------------------------------------------------------------------
(* Credentials: rotation.                                                  *)

Credential == [id : Nat, at : Nat]
Version == [version : Nat, cred : Credential, status : {"Active", "Grace"}, retired : Nat]

\* No version is ever Retired: PushVersion puts the last one in its grace
\* period, and nothing ends that.
RotationTypes ==
  /\ current \in Credential /\ versions \in Seq(Version) /\ issued \in Nat /\ now \in Nat
  /\ pc \in [Pair -> {C!Idle} \cup [at : {"version"}, new : Credential]
                               \cup [at : {"insert", "record"}, new : Credential, num : Nat]]

\* Whoever was revoked has no role, so that a credential that a rotation puts
\* back opens nothing; versions are numbered from 1 and the last one is active.
RotationInv ==
  /\ RotationTypes
  /\ revoked => role = NoRole
  /\ \A i \in 1..Len(versions) : versions[i].version = i /\ (versions[i].status = "Active" <=> i = Len(versions))

LEMMA VersionType ==
  RotationInv => \A i \in 1..Len(versions) : versions[i] \in Version /\ versions[i].status \in {"Active", "Grace"}
<1> SUFFICES ASSUME RotationInv, NEW i \in 1..Len(versions)
             PROVE  versions[i] \in Version /\ versions[i].status \in {"Active", "Grace"}
  OBVIOUS
<1>1. versions[i] \in Version
  BY DEF RotationInv, RotationTypes
<1> QED BY <1>1 DEF Version

\* Every step of a rotation, and what may come between two of them.
LEMMA RotationStep ==
  ASSUME RotationInv, [C!Next]_C!vars
  PROVE  RotationInv'
<1> USE DEF RotationInv, RotationTypes, C!Issue
<1>1. CASE C!register_plugin
  BY <1>1 DEF C!register_plugin, C!NewCredential, Credential
<1>2. CASE C!set_role
  BY <1>2 DEF C!set_role
<1>3. CASE C!revoke
  BY <1>3 DEF C!revoke, C!NoCredential, Credential
<1>4. CASE C!cleanup_expired_credentials
  <2>1. \A i \in 1..Len(versions) : ~C!is_dropped(versions[i])
    BY VersionType DEF C!is_dropped
  <2>2. versions' = versions
    BY <1>4, <2>1 DEF C!cleanup_expired_credentials
  <2> QED BY <1>4, <2>2 DEF C!cleanup_expired_credentials
<1>5. CASE C!Tick
  BY <1>5 DEF C!Tick
<1>6. ASSUME NEW c \in Pair, C!rotate_credential(c) PROVE RotationInv'
  BY <1>6 DEF C!rotate_credential, C!NewCredential, Credential
<1>7. ASSUME NEW c \in Pair, C!PushVersion(c) PROVE RotationInv'
  <2> DEFINE n == Len(versions)
             num == IF n = 0 THEN 1 ELSE versions[n].version + 1
             old == [i \in 1..n |-> IF i = n THEN [versions[i] EXCEPT !.status = "Grace", !.retired = now] ELSE versions[i]]
             new == [version |-> num, cred |-> pc[c].new, status |-> "Active", retired |-> 0]
  <2> USE DEF C!Idle
  <2>1. pc[c].at = "version"
    BY <1>7 DEF C!PushVersion
  <2>2. pc[c].new \in Credential
    BY <2>1
  <2> HIDE DEF RotationInv, RotationTypes, C!Idle
  <2>3. n \in Nat /\ now \in Nat /\ versions \in Seq(Version) /\ \A i \in 1..n : versions[i] \in Version
    BY VersionType DEF RotationInv, RotationTypes
  <2>4. num = n + 1
    BY <2>3 DEF RotationInv
  <2>5. new \in Version
    BY <2>2, <2>3, <2>4 DEF Version
  <2>6. \A i \in 1..n : old[i] \in Version /\ old[i].version = i /\ old[i].status # "Active"
    <3> SUFFICES ASSUME NEW i \in 1..n PROVE old[i] \in Version /\ old[i].version = i /\ old[i].status # "Active"
      OBVIOUS
    <3>1. versions[i] \in Version /\ versions[i].version = i /\ (versions[i].status = "Active" <=> i = n)
      BY <2>3 DEF RotationInv
    <3> QED BY <3>1, <2>3 DEF Version
  <2>7. old \in Seq(Version) /\ Len(old) = n
    <3>1. old \in [1..n -> Version]
      BY <2>6
    <3> HIDE DEF old
    <3> QED BY <2>3, <3>1
  <2>8. versions' = Append(old, new) /\ pc' = [pc EXCEPT ![c] = [at |-> "insert", new |-> pc[c].new, num |-> num]]
    BY <1>7 DEF C!PushVersion
  <2>9. pc' \in [Pair -> {C!Idle} \cup [at : {"version"}, new : Credential]
                               \cup [at : {"insert", "record"}, new : Credential, num : Nat]]
    <3>1. [at |-> "insert", new |-> pc[c].new, num |-> num]
            \in [at : {"insert", "record"}, new : Credential, num : Nat]
      BY <2>2, <2>3, <2>4
    <3> HIDE DEF num
    <3> QED BY <3>1, <2>8 DEF RotationInv, RotationTypes
  <2>10. /\ versions' \in Seq(Version) /\ Len(versions') = n + 1
         /\ versions'[n + 1].version = n + 1 /\ versions'[n + 1].status = "Active"
         /\ \A i \in 1..n : versions'[i].version = i /\ versions'[i].status # "Active"
    <3>1. new.version = n + 1 /\ new.status = "Active"
      BY <2>4
    <3> HIDE DEF old, new, n
    <3>2. versions' \in Seq(Version) /\ Len(versions') = n + 1 /\ versions'[n + 1] = new /\ \A i \in 1..n : versions'[i] = old[i]
      BY <2>3, <2>5, <2>7, <2>8
    <3> QED BY <2>6, <3>1, <3>2
  <2>11. \A i \in 1..Len(versions') : versions'[i].version = i /\ (versions'[i].status = "Active" <=> i = Len(versions'))
    BY <2>3, <2>10
  <2> QED BY <1>7, <2>9, <2>10, <2>11 DEF C!PushVersion, RotationInv, RotationTypes
<1>8. ASSUME NEW c \in Pair, C!InsertCredential(c) PROVE RotationInv'
  BY <1>8 DEF C!InsertCredential, C!Idle
<1>9. ASSUME NEW c \in Pair, C!Record(c) PROVE RotationInv'
  BY <1>9 DEF C!Record
<1>10. CASE UNCHANGED C!vars
  BY <1>10 DEF C!vars
<1> QED BY <1>1, <1>2, <1>3, <1>4, <1>5, <1>6, <1>7, <1>8, <1>9, <1>10 DEF C!Next

\* What the invariant says of authenticate and authenticate_with_grace_period.
LEMMA RotationAnswers == RotationInv => C!RotationSound
<1> SUFFICES ASSUME RotationInv PROVE C!RotationSound
  OBVIOUS
<1> DEFINE n == Len(versions)
<1>1. revoked => ~C!authenticate /\ C!GraceVersion = 0
  BY DEF RotationInv, C!authenticate, C!GraceVersion
<1>2. ASSUME n > 0, C!authenticate PROVE C!GraceVersion = n
  <2> DEFINE usable == {i \in 1..n : \/ versions[i].status = "Active"
                                    \/ /\ versions[i].status = "Grace"
                                       /\ C!is_in_grace_period(versions[i].retired)
                                       /\ ~C!is_expired(versions[i].cred)}
             best == CHOOSE i \in usable : \A j \in usable : j <= i
  <2>1. n \in Nat /\ n \in usable /\ usable \subseteq 1..n
    BY <1>2 DEF RotationInv, RotationTypes
  <2>2. C!GraceVersion = versions[best].version
    BY <1>2, <2>1 DEF C!GraceVersion
  <2>3. best \in usable /\ \A j \in usable : j <= best
    <3>1. \E i \in usable : \A j \in usable : j <= i
      BY <2>1
    <3> HIDE DEF usable
    <3> QED BY <3>1
  <2>4. best = n
    <3> HIDE DEF best, usable
    <3> QED BY <2>1, <2>3
  <2> HIDE DEF best
  <2> QED BY <2>1, <2>2, <2>4 DEF RotationInv
<1> QED BY <1>1, <1>2 DEF C!RotationSound, RotationInv

-----------------------------------------------------------------------------
(* Secrets: versions, and what is read with a value.                       *)

SecretMeta == [version : Nat, valid : BOOLEAN, scheduled : BOOLEAN, given : BOOLEAN]

\* There are metadata: a put wrote its own or a caller's, a rotation numbers from 1.
Known(m) == m.version >= 1 \/ m.given
SecretEntry == [version : Nat, value : Nat, active : BOOLEAN]
SecretOp == {S!Idle} \cup [at : {"putMeta", "putVersion", "getMeta"}, value : Nat]
                     \cup [at : {"rotateStore", "rotateMeta", "rotateVersion"}, value : Nat, num : Nat \ {0}]
                     \cup [at : {"deleteStore"}]
                     \cup [at : {"got"}, value : Nat, meta : SecretMeta]

SecretTypes ==
  /\ store \in Nat /\ meta \in SecretMeta /\ entries \in Seq(SecretEntry) /\ values \in Nat /\ overlap \in BOOLEAN
  /\ op \in [Pair -> SecretOp]

Last == entries[Len(entries)]

\* The versions' part: one active version, the newest, and metadata for it.
SecretBase ==
  /\ SecretTypes
  /\ \A i \in 1..Len(entries) : entries[i].active <=> i = Len(entries)
  /\ Len(entries) > 0 => Known(meta)
  /\ \A t \in Pair : op[t].at = "putVersion" => Known(meta)

\* The stored value is that of the newest version, under the number of the
\* metadata unless a caller gave them.
Settled == Len(entries) > 0 /\ store # 0 => Last.value = store /\ (Last.version = meta.version \/ meta.given)

\* Between two steps of one call nothing but rotate_master_key, which empties
\* the store, and the schedule of rotations, has changed.
Midway(t) ==
  /\ op[t].at \in {"rotateStore", "deleteStore", "getMeta", "got"} => Settled
  /\ op[t].at \in {"putMeta", "putVersion", "rotateMeta", "rotateVersion"} => store = 0 \/ store = op[t].value
  /\ op[t].at = "putVersion" => meta.version = 1 \/ meta.given
  /\ op[t].at = "rotateVersion" /\ meta # S!NoMeta => meta.version = op[t].num
  /\ op[t].at = "getMeta" /\ Len(entries) > 0 => Last.value = op[t].value /\ (Last.version = meta.version \/ meta.given)
  /\ op[t].at = "got" /\ Len(entries) > 0
       => Last.value = op[t].value /\ (Last.version = op[t].meta.version \/ op[t].meta.given)

Alone(t) == \A u \in Pair \ {t} : op[u] = S!Idle

\* When calls have not overlapped, one call at most is under way.
OneCall ==
  ~overlap => /\ (\A t \in Pair : op[t] = S!Idle) => Settled
              /\ \A t \in Pair : op[t].at # "idle" => Alone(t) /\ Midway(t)

SecretInv == SecretBase /\ OneCall

LEMMA EntryType ==
  SecretBase => /\ Len(entries) \in Nat /\ (entries # <<>> <=> Len(entries) > 0)
                /\ \A i \in 1..Len(entries) : entries[i] \in SecretEntry
                /\ entries # <<>> => Last \in SecretEntry /\ Last.version \in Nat
<1> SUFFICES ASSUME SecretBase
             PROVE  /\ Len(entries) \in Nat /\ (entries # <<>> <=> Len(entries) > 0)
                    /\ \A i \in 1..Len(entries) : entries[i] \in SecretEntry
                    /\ entries # <<>> => Last \in SecretEntry /\ Last.version \in Nat
  OBVIOUS
<1>1. Len(entries) \in Nat /\ (entries # <<>> <=> Len(entries) > 0) /\ \A i \in 1..Len(entries) : entries[i] \in SecretEntry
  BY DEF SecretBase, SecretTypes
<1>2. entries # <<>> => Last \in SecretEntry
  BY <1>1 DEF Last
<1> QED BY <1>1, <1>2 DEF SecretEntry

\* The types, step by step.
LEMMA SecretBaseStep ==
  ASSUME SecretBase, [S!Next]_S!vars
  PROVE  SecretBase'
<1> USE DEF SecretBase, SecretTypes, S!Fresh, S!Overlapped
<1> HIDE DEF SecretBase
<1>1. ASSUME UNCHANGED entries, op' = op, store' \in Nat, meta' \in SecretMeta, Known(meta') = Known(meta), values' = values,
             overlap' = overlap
      PROVE  SecretBase'
  BY <1>1 DEF SecretBase
<1>2. CASE S!rotate_master_key
  BY <1>1, <1>2 DEF S!rotate_master_key, SecretBase
<1>3. CASE S!schedule_rotation \/ S!cancel_rotation
  <2>1. meta' \in SecretMeta /\ meta'.version = meta.version /\ meta'.given = meta.given
    BY <1>3 DEF S!schedule_rotation, S!cancel_rotation, SecretBase, SecretMeta
  <2>2. Known(meta') = Known(meta)
    BY <2>1 DEF Known
  <2> QED BY <1>1, <1>3, <2>1, <2>2 DEF S!schedule_rotation, S!cancel_rotation, SecretBase
<1>4. ASSUME NEW t \in Pair, NEW o \in SecretOp, op' = [op EXCEPT ![t] = o], UNCHANGED entries, store' \in Nat,
             meta' \in SecretMeta, Known(meta') \/ meta' = meta \/ Known(meta') = Known(meta), values' \in Nat, overlap' \in BOOLEAN,
             o.at = "putVersion" => Known(meta')
      PROVE  SecretBase'
  BY <1>4 DEF SecretBase
<1> USE DEF SecretBase, SecretOp, SecretMeta, S!Idle, S!NoMeta
<1>5. ASSUME NEW t \in Pair, S!PutStore(t) PROVE SecretBase'
  <2> DEFINE o == [at |-> "putMeta", value |-> values + 1]
  <2>1. op' = [op EXCEPT ![t] = o]
    BY <1>5 DEF S!PutStore
  <2>2. o \in SecretOp /\ (o.at = "putVersion" => Known(meta'))
    BY <1>5 DEF S!PutStore
  <2>3. /\ overlap' \in BOOLEAN /\ values' \in Nat /\ store' \in Nat /\ UNCHANGED entries
        /\ meta' \in SecretMeta /\ (Known(meta') \/ meta' = meta \/ Known(meta') = Known(meta))
    BY <1>5 DEF S!PutStore
  <2> HIDE DEF SecretBase, SecretOp, SecretMeta, o
  <2> QED BY <1>4, <2>1, <2>2, <2>3
<1>6. ASSUME NEW t \in Pair, S!PutMeta(t) PROVE SecretBase'
  <2> DEFINE o == [op[t] EXCEPT !.at = "putVersion"]
  <2>0. meta' \in SecretMeta /\ Known(meta')
    <3>1. CASE meta' = S!NewMeta
      BY <3>1 DEF S!NewMeta, Known
    <3>2. CASE meta' \in S!GivenMetadata
      BY <3>2, SecurityAssumption DEF S!GivenMetadata, Known
    <3> QED BY <1>6, <3>1, <3>2 DEF S!PutMeta
  <2>1. op' = [op EXCEPT ![t] = o]
    BY <1>6 DEF S!PutMeta
  <2>2. o \in SecretOp /\ (o.at = "putVersion" => Known(meta'))
    BY <1>6, <2>0 DEF S!PutMeta
  <2>3. /\ overlap' \in BOOLEAN /\ values' \in Nat /\ store' \in Nat /\ UNCHANGED entries
        /\ meta' \in SecretMeta /\ (Known(meta') \/ meta' = meta \/ Known(meta') = Known(meta))
    BY <1>6, <2>0 DEF S!PutMeta
  <2> HIDE DEF SecretBase, SecretOp, SecretMeta, o
  <2> QED BY <1>4, <2>1, <2>2, <2>3
<1>7. ASSUME NEW t \in Pair, S!RotateRead(t) PROVE SecretBase'
  <2> DEFINE o == [at |-> "rotateStore", value |-> values + 1, num |-> (IF entries = <<>> THEN 0 ELSE Last.version) + 1]
  <2>0. entries # <<>> => Last.version \in Nat
    BY EntryType
  <2>1. op' = [op EXCEPT ![t] = o]
    BY <1>7 DEF S!RotateRead, Last
  <2>2. o \in SecretOp /\ (o.at = "putVersion" => Known(meta'))
    BY <1>7, <2>0 DEF S!RotateRead
  <2>3. /\ overlap' \in BOOLEAN /\ values' \in Nat /\ store' \in Nat /\ UNCHANGED entries
        /\ meta' \in SecretMeta /\ (Known(meta') \/ meta' = meta \/ Known(meta') = Known(meta))
    BY <1>7 DEF S!RotateRead
  <2> HIDE DEF SecretBase, SecretOp, SecretMeta, o
  <2> QED BY <1>4, <2>1, <2>2, <2>3
<1>8. ASSUME NEW t \in Pair, S!RotateStore(t) PROVE SecretBase'
  <2> DEFINE o == [op[t] EXCEPT !.at = "rotateMeta"]
  <2>1. op' = [op EXCEPT ![t] = o]
    BY <1>8 DEF S!RotateStore
  <2>2. o \in SecretOp /\ (o.at = "putVersion" => Known(meta'))
    BY <1>8 DEF S!RotateStore
  <2>3. /\ overlap' \in BOOLEAN /\ values' \in Nat /\ store' \in Nat /\ UNCHANGED entries
        /\ meta' \in SecretMeta /\ (Known(meta') \/ meta' = meta \/ Known(meta') = Known(meta))
    BY <1>8 DEF S!RotateStore
  <2> HIDE DEF SecretBase, SecretOp, SecretMeta, o
  <2> QED BY <1>4, <2>1, <2>2, <2>3
<1>9. ASSUME NEW t \in Pair, S!RotateMeta(t) PROVE SecretBase'
  <2> DEFINE o == [op[t] EXCEPT !.at = "rotateVersion"]
  <2>0. meta' \in SecretMeta /\ (Known(meta') \/ meta' = meta)
    <3>1. op[t].num \in Nat \ {0}
      BY <1>9 DEF S!RotateMeta
    <3>2. CASE meta = S!NoMeta
      BY <1>9, <3>2 DEF S!RotateMeta
    <3>3. CASE meta # S!NoMeta
      <4>1. meta' = [meta EXCEPT !.version = op[t].num, !.given = FALSE]
        BY <1>9, <3>3 DEF S!RotateMeta
      <4>2. meta' \in SecretMeta /\ meta'.version = op[t].num
        BY <3>1, <4>1
      <4> QED BY <3>1, <4>2 DEF Known
    <3> QED BY <3>2, <3>3
  <2>1. op' = [op EXCEPT ![t] = o]
    BY <1>9 DEF S!RotateMeta
  <2>2. o \in SecretOp /\ (o.at = "putVersion" => Known(meta'))
    BY <1>9, SMTT(30) DEF S!RotateMeta
  <2>3. /\ overlap' \in BOOLEAN /\ values' \in Nat /\ store' \in Nat /\ UNCHANGED entries
        /\ meta' \in SecretMeta /\ (Known(meta') \/ meta' = meta \/ Known(meta') = Known(meta))
    BY <1>9, <2>0 DEF S!RotateMeta
  <2> HIDE DEF SecretBase, SecretOp, SecretMeta, o
  <2> QED BY <1>4, <2>1, <2>2, <2>3
<1>10. ASSUME NEW t \in Pair, S!DeleteMeta(t) PROVE SecretBase'
  <2> DEFINE o == [at |-> "deleteStore"]
  <2>0. meta' \in SecretMeta /\ Known(meta') = Known(meta)
    BY <1>10 DEF S!DeleteMeta, Known
  <2>1. op' = [op EXCEPT ![t] = o]
    BY <1>10 DEF S!DeleteMeta
  <2>2. o \in SecretOp /\ (o.at = "putVersion" => Known(meta'))
    BY <1>10 DEF S!DeleteMeta
  <2>3. /\ overlap' \in BOOLEAN /\ values' \in Nat /\ store' \in Nat /\ UNCHANGED entries
        /\ meta' \in SecretMeta /\ (Known(meta') \/ meta' = meta \/ Known(meta') = Known(meta))
    BY <1>10, <2>0 DEF S!DeleteMeta
  <2> HIDE DEF SecretBase, SecretOp, SecretMeta, o
  <2> QED BY <1>4, <2>1, <2>2, <2>3
<1>11. ASSUME NEW t \in Pair, S!DeleteStore(t) PROVE SecretBase'
  <2> DEFINE o == S!Idle
  <2>1. op' = [op EXCEPT ![t] = o]
    BY <1>11 DEF S!DeleteStore
  <2>2. o \in SecretOp /\ (o.at = "putVersion" => Known(meta'))
    BY <1>11 DEF S!DeleteStore
  <2>3. /\ overlap' \in BOOLEAN /\ values' \in Nat /\ store' \in Nat /\ UNCHANGED entries
        /\ meta' \in SecretMeta /\ (Known(meta') \/ meta' = meta \/ Known(meta') = Known(meta))
    BY <1>11 DEF S!DeleteStore
  <2> HIDE DEF SecretBase, SecretOp, SecretMeta, o
  <2> QED BY <1>4, <2>1, <2>2, <2>3
<1>12. ASSUME NEW t \in Pair, S!get_secret(t) PROVE SecretBase'
  <2> DEFINE o == [at |-> "getMeta", value |-> store]
  <2>1. op' = [op EXCEPT ![t] = o]
    BY <1>12 DEF S!get_secret
  <2>2. o \in SecretOp /\ (o.at = "putVersion" => Known(meta'))
    BY <1>12 DEF S!get_secret
  <2>3. /\ overlap' \in BOOLEAN /\ values' \in Nat /\ store' \in Nat /\ UNCHANGED entries
        /\ meta' \in SecretMeta /\ (Known(meta') \/ meta' = meta \/ Known(meta') = Known(meta))
    BY <1>12 DEF S!get_secret
  <2> HIDE DEF SecretBase, SecretOp, SecretMeta, o
  <2> QED BY <1>4, <2>1, <2>2, <2>3
<1>13. ASSUME NEW t \in Pair, S!get_secret_metadata(t) PROVE SecretBase'
  <2> DEFINE o == IF meta = S!NoMeta THEN S!Idle ELSE [at |-> "got", value |-> op[t].value, meta |-> meta]
  <2>1. op' = [op EXCEPT ![t] = o]
    BY <1>13 DEF S!get_secret_metadata
  <2>2. o \in SecretOp /\ (o.at = "putVersion" => Known(meta'))
    BY <1>13 DEF S!get_secret_metadata
  <2>3. /\ overlap' \in BOOLEAN /\ values' \in Nat /\ store' \in Nat /\ UNCHANGED entries
        /\ meta' \in SecretMeta /\ (Known(meta') \/ meta' = meta \/ Known(meta') = Known(meta))
    BY <1>13 DEF S!get_secret_metadata
  <2> HIDE DEF SecretBase, SecretOp, SecretMeta, o
  <2> QED BY <1>4, <2>1, <2>2, <2>3
<1>14. ASSUME NEW t \in Pair, S!Return(t) PROVE SecretBase'
  <2> DEFINE o == S!Idle
  <2>1. op' = [op EXCEPT ![t] = o]
    BY <1>14 DEF S!Return
  <2>2. o \in SecretOp /\ (o.at = "putVersion" => Known(meta'))
    BY <1>14 DEF S!Return
  <2>3. /\ overlap' \in BOOLEAN /\ values' \in Nat /\ store' \in Nat /\ UNCHANGED entries
        /\ meta' \in SecretMeta /\ (Known(meta') \/ meta' = meta \/ Known(meta') = Known(meta))
    BY <1>14 DEF S!Return
  <2> HIDE DEF SecretBase, SecretOp, SecretMeta, o
  <2> QED BY <1>4, <2>1, <2>2, <2>3
<1>15. ASSUME NEW t \in Pair, S!PutVersion(t) PROVE SecretBase'
  <2>1. op[t].value \in Nat /\ Known(meta)
    BY <1>15 DEF S!PutVersion
  <2>2. entries' = <<S!Entry(1, op[t].value, TRUE)>> /\ S!Entry(1, op[t].value, TRUE) \in SecretEntry
    BY <1>15, <2>1 DEF S!PutVersion, S!Entry, SecretEntry
  <2>3. entries' \in Seq(SecretEntry) /\ Len(entries') = 1 /\ entries'[1].active = TRUE
    BY <2>2 DEF S!Entry
  <2>4. op' \in [Pair -> SecretOp] /\ \A u \in Pair : op'[u].at = "putVersion" => op[u].at = "putVersion"
    BY <1>15 DEF S!PutVersion
  <2>5. store' = store /\ meta' = meta /\ values' = values /\ overlap' = overlap
    BY <1>15 DEF S!PutVersion
  <2>6. SecretTypes'
    BY <2>3, <2>4, <2>5
  <2> QED BY <2>1, <2>3, <2>4, <2>5, <2>6
<1>16. ASSUME NEW t \in Pair, S!RotateVersion(t) PROVE SecretBase'
  <2> DEFINE n == Len(entries)
             old == [i \in 1..n |-> [entries[i] EXCEPT !.active = FALSE]]
             new == S!Entry(op[t].num, op[t].value, TRUE)
  <2>1. op[t].value \in Nat /\ op[t].num \in Nat
    BY <1>16 DEF S!RotateVersion
  <2>2. CASE entries = <<>>
    BY <1>16, <2>2 DEF S!RotateVersion
  <2>3. CASE entries # <<>>
    <3>1. n \in Nat /\ \A i \in 1..n : entries[i] \in SecretEntry
      BY EntryType
    <3>2. n > 0
      BY <2>3
    <3>3. new \in SecretEntry /\ new.active = TRUE
      BY <2>1 DEF S!Entry, SecretEntry
    <3>4. \A i \in 1..n : old[i] \in SecretEntry /\ old[i].active = FALSE
      BY <3>1 DEF SecretEntry
    <3>5. old \in Seq(SecretEntry) /\ Len(old) = n
      <4>1. old \in [1..n -> SecretEntry]
        BY <3>4
      <4> HIDE DEF old
      <4> QED BY <3>1, <4>1
    <3>6. entries' = Append(old, new)
      BY <1>16, <2>3 DEF S!RotateVersion
    <3>7. /\ entries' \in Seq(SecretEntry) /\ Len(entries') = n + 1
          /\ entries'[n + 1] = new /\ \A i \in 1..n : entries'[i] = old[i]
      <4> HIDE DEF old, new, n
      <4> QED BY <3>1, <3>3, <3>5, <3>6
    <3>8. \A i \in 1..Len(entries') : entries'[i].active <=> i = Len(entries')
      <4> HIDE DEF old, new, n
      <4> QED BY <3>1, <3>3, <3>4, <3>7
    <3>9. op' \in [Pair -> SecretOp] /\ \A u \in Pair : op'[u].at = "putVersion" => op[u].at = "putVersion"
      BY <1>16 DEF S!RotateVersion
    <3>10. store' = store /\ meta' = meta /\ values' = values /\ overlap' = overlap
      BY <1>16 DEF S!RotateVersion
    <3>11. Known(meta)
      BY <3>2
    <3>12. SecretTypes'
      BY <3>7, <3>9, <3>10
    <3> QED BY <3>8, <3>9, <3>10, <3>11, <3>12
  <2> QED BY <2>2, <2>3
<1>17. CASE UNCHANGED S!vars
  BY <1>17 DEF S!vars
<1> QED BY <1>2, <1>3, <1>5, <1>6, <1>7, <1>8, <1>9, <1>10, <1>11, <1>12, <1>13, <1>14, <1>15, <1>16, <1>17 DEF S!Next

\* A call that goes on, or returns, leaves the others where they are.
LEMMA OneCallFrame ==
  ASSUME SecretBase, NEW t \in Pair, Alone(t), \A u \in Pair \ {t} : op'[u] = op[u],
         op'[t].at # "idle" => Midway(t)', op'[t] = S!Idle => Settled'
  PROVE  OneCall'
<1>1. \A u \in Pair \ {t} : op'[u] = S!Idle /\ op'[u].at = "idle"
  BY DEF Alone, S!Idle
<1> QED BY <1>1 DEF OneCall, Alone

\* A call begins alone, or the history says that it overlapped.
LEMMA BeginsAlone ==
  ASSUME OneCall, NEW t \in Pair, op[t] = S!Idle, S!Overlapped(t), ~overlap'
  PROVE  Alone(t) /\ Settled /\ ~overlap
<1>1. ~overlap /\ \A u \in Pair \ {t} : op[u] = S!Idle
  BY DEF S!Overlapped
<1> QED BY <1>1 DEF OneCall, Alone

\* Each step of the calls, and what may come between them.
LEMMA SecretStep ==
  ASSUME SecretInv, [S!Next]_S!vars
  PROVE  SecretInv'
<1>1. SecretBase /\ SecretBase' /\ OneCall
  BY SecretBaseStep DEF SecretInv
<1> SUFFICES ASSUME ~overlap' PROVE OneCall'
  BY <1>1 DEF SecretInv, OneCall
<1>2. ASSUME NEW t \in Pair, op[t].at # "idle", overlap' = overlap
      PROVE  Alone(t) /\ Midway(t)
  BY <1>1, <1>2 DEF OneCall
<1>3. /\ op \in [Pair -> SecretOp] /\ meta \in SecretMeta /\ store \in Nat
      /\ Len(entries) \in Nat /\ (entries # <<>> <=> Len(entries) > 0)
      /\ Len(entries) > 0 => Known(meta)
  BY <1>1, EntryType DEF SecretBase, SecretTypes
<1> USE DEF Midway, Settled, Last
<1>4. ASSUME NEW t \in Pair, S!PutStore(t) PROVE OneCall'
  <2>1. Alone(t) /\ Settled /\ ~overlap
    BY <1>1, <1>4, BeginsAlone DEF S!PutStore
  <2>2. op'[t].at # "idle" => Midway(t)'
    BY <1>3, <1>4, <2>1 DEF S!PutStore, S!Fresh, S!Idle, S!NoMeta, SecretOp, SecretMeta
  <2>3. op'[t] = S!Idle => Settled'
    BY <1>3, <1>4, <2>1 DEF S!PutStore, S!Fresh, S!Idle, S!NoMeta, S!Entry, SecretOp, SecretMeta
  <2>4. \A u \in Pair \ {t} : op'[u] = op[u]
    BY <1>3, <1>4 DEF S!PutStore
  <2> QED BY <1>1, <2>1, <2>2, <2>3, <2>4, OneCallFrame
<1>5. ASSUME NEW t \in Pair, S!RotateRead(t) PROVE OneCall'
  <2>1. Alone(t) /\ Settled /\ ~overlap
    BY <1>1, <1>5, BeginsAlone DEF S!RotateRead
  <2>2. op'[t].at # "idle" => Midway(t)'
    BY <1>3, <1>5, <2>1 DEF S!RotateRead, S!Fresh, S!Idle, S!NoMeta, SecretOp, SecretMeta
  <2>3. op'[t] = S!Idle => Settled'
    BY <1>3, <1>5, <2>1 DEF S!RotateRead, S!Fresh, S!Idle, S!NoMeta, S!Entry, SecretOp, SecretMeta
  <2>4. \A u \in Pair \ {t} : op'[u] = op[u]
    BY <1>3, <1>5 DEF S!RotateRead
  <2> QED BY <1>1, <2>1, <2>2, <2>3, <2>4, OneCallFrame
<1>6. ASSUME NEW t \in Pair, S!DeleteMeta(t) PROVE OneCall'
  <2>1. Alone(t) /\ Settled /\ ~overlap
    BY <1>1, <1>6, BeginsAlone DEF S!DeleteMeta
  <2>2. op'[t].at # "idle" => Midway(t)'
    BY <1>3, <1>6, <2>1 DEF S!DeleteMeta, S!Fresh, S!Idle, S!NoMeta, SecretOp, SecretMeta
  <2>3. op'[t] = S!Idle => Settled'
    BY <1>3, <1>6, <2>1 DEF S!DeleteMeta, S!Fresh, S!Idle, S!NoMeta, S!Entry, SecretOp, SecretMeta
  <2>4. \A u \in Pair \ {t} : op'[u] = op[u]
    BY <1>3, <1>6 DEF S!DeleteMeta
  <2> QED BY <1>1, <2>1, <2>2, <2>3, <2>4, OneCallFrame
<1>7. ASSUME NEW t \in Pair, S!get_secret(t) PROVE OneCall'
  <2>1. Alone(t) /\ Settled /\ ~overlap
    BY <1>1, <1>7, BeginsAlone DEF S!get_secret
  <2>2. op'[t].at # "idle" => Midway(t)'
    BY <1>3, <1>7, <2>1 DEF S!get_secret, S!Fresh, S!Idle, S!NoMeta, SecretOp, SecretMeta
  <2>3. op'[t] = S!Idle => Settled'
    BY <1>3, <1>7, <2>1 DEF S!get_secret, S!Fresh, S!Idle, S!NoMeta, S!Entry, SecretOp, SecretMeta
  <2>4. \A u \in Pair \ {t} : op'[u] = op[u]
    BY <1>3, <1>7 DEF S!get_secret
  <2> QED BY <1>1, <2>1, <2>2, <2>3, <2>4, OneCallFrame
<1>8. ASSUME NEW t \in Pair, S!PutMeta(t) PROVE OneCall'
  <2>1. Alone(t) /\ Midway(t)
    BY <1>2, <1>8 DEF S!PutMeta
  <2>2. op'[t].at # "idle" => Midway(t)'
    <3>1. op'[t].at = "putVersion" /\ op'[t].value = op[t].value
      BY <1>3, <1>8 DEF S!PutMeta, SecretOp, S!Idle
    <3>2. meta'.version = 1 \/ meta'.given
      <4>1. S!NewMeta.version = 1 /\ \A m \in S!GivenMetadata : m.given
        BY DEF S!NewMeta, S!GivenMetadata
      <4> QED BY <1>8, <4>1 DEF S!PutMeta
    <3>3. store' = store /\ (store = 0 \/ store = op[t].value)
      BY <1>8, <2>1 DEF S!PutMeta
    <3> QED BY <3>1, <3>2, <3>3
  <2>3. op'[t] = S!Idle => Settled'
    BY <1>3, <1>8, <2>1 DEF S!PutMeta, S!Fresh, S!Idle, S!NoMeta, S!Entry, SecretOp, SecretMeta
  <2>4. \A u \in Pair \ {t} : op'[u] = op[u]
    BY <1>3, <1>8 DEF S!PutMeta
  <2> QED BY <1>1, <2>1, <2>2, <2>3, <2>4, OneCallFrame
<1>9. ASSUME NEW t \in Pair, S!PutVersion(t) PROVE OneCall'
  <2>1. Alone(t) /\ Midway(t)
    BY <1>2, <1>9 DEF S!PutVersion
  <2>2. op'[t].at # "idle" => Midway(t)'
    BY <1>3, <1>9, <2>1 DEF S!PutVersion, S!Fresh, S!Idle, S!NoMeta, SecretOp, SecretMeta
  <2>3. op'[t] = S!Idle => Settled'
    BY <1>3, <1>9, <2>1 DEF S!PutVersion, S!Fresh, S!Idle, S!NoMeta, S!Entry, SecretOp, SecretMeta
  <2>4. \A u \in Pair \ {t} : op'[u] = op[u]
    BY <1>3, <1>9 DEF S!PutVersion
  <2> QED BY <1>1, <2>1, <2>2, <2>3, <2>4, OneCallFrame
<1>10. ASSUME NEW t \in Pair, S!RotateStore(t) PROVE OneCall'
  <2>1. Alone(t) /\ Midway(t)
    BY <1>2, <1>10 DEF S!RotateStore
  <2>2. op'[t].at # "idle" => Midway(t)'
    BY <1>3, <1>10, <2>1 DEF S!RotateStore, S!Fresh, S!Idle, S!NoMeta, SecretOp, SecretMeta
  <2>3. op'[t] = S!Idle => Settled'
    BY <1>3, <1>10, <2>1 DEF S!RotateStore, S!Fresh, S!Idle, S!NoMeta, S!Entry, SecretOp, SecretMeta
  <2>4. \A u \in Pair \ {t} : op'[u] = op[u]
    BY <1>3, <1>10 DEF S!RotateStore
  <2> QED BY <1>1, <2>1, <2>2, <2>3, <2>4, OneCallFrame
<1>11. ASSUME NEW t \in Pair, S!RotateMeta(t) PROVE OneCall'
  <2>1. Alone(t) /\ Midway(t)
    BY <1>2, <1>11 DEF S!RotateMeta
  <2>2. op'[t].at # "idle" => Midway(t)'
    <3>1. op'[t].at = "rotateVersion" /\ op'[t].value = op[t].value /\ op'[t].num = op[t].num
      BY <1>3, <1>11 DEF S!RotateMeta, SecretOp, S!Idle
    <3>2. meta' # S!NoMeta => meta'.version = op[t].num
      BY <1>3, <1>11 DEF S!RotateMeta, SecretMeta
    <3>3. store = 0 \/ store = op[t].value
      BY <1>11, <2>1 DEF S!RotateMeta
    <3>4. store' = store
      BY <1>11 DEF S!RotateMeta
    <3> QED BY <3>1, <3>2, <3>3, <3>4
  <2>3. op'[t] = S!Idle => Settled'
    BY <1>3, <1>11, <2>1 DEF S!RotateMeta, S!Fresh, S!Idle, S!NoMeta, S!Entry, SecretOp, SecretMeta
  <2>4. \A u \in Pair \ {t} : op'[u] = op[u]
    BY <1>3, <1>11 DEF S!RotateMeta
  <2> QED BY <1>1, <2>1, <2>2, <2>3, <2>4, OneCallFrame
<1>12. ASSUME NEW t \in Pair, S!RotateVersion(t) PROVE OneCall'
  <2>1. Alone(t) /\ Midway(t)
    BY <1>2, <1>12 DEF S!RotateVersion
  <2>2. op'[t].at # "idle" => Midway(t)'
    BY <1>3, <1>12, <2>1 DEF S!RotateVersion, S!Fresh, S!Idle, S!NoMeta, SecretOp, SecretMeta
  <2>3. op'[t] = S!Idle => Settled'
    <3>1. CASE entries = <<>>
      BY <1>12, <3>1 DEF S!RotateVersion
    <3>2. CASE entries # <<>>
      <4>1. meta # S!NoMeta
        BY <1>3, <3>2 DEF Known, S!NoMeta
      <4>2. meta.version = op[t].num /\ (store = 0 \/ store = op[t].value)
        BY <1>12, <2>1, <4>1 DEF S!RotateVersion
      <4>3. store' = store /\ meta' = meta
        BY <1>12 DEF S!RotateVersion
      <4> DEFINE old == [i \in 1..Len(entries) |-> [entries[i] EXCEPT !.active = FALSE]]
                 new == S!Entry(op[t].num, op[t].value, TRUE)
      <4>4. entries' = Append(old, new)
        BY <1>12, <3>2 DEF S!RotateVersion
      <4>5. Len(old) = Len(entries) /\ DOMAIN old = 1..Len(entries)
        BY <1>3
      <4>6. Last' = new
        <5> HIDE DEF old, new
        <5> QED BY <1>3, <4>4, <4>5
      <4>7. new.value = op[t].value /\ new.version = op[t].num
        BY DEF S!Entry
      <4> HIDE DEF old, new, Last
      <4> QED BY <4>2, <4>3, <4>6, <4>7
    <3> QED BY <3>1, <3>2
  <2>4. \A u \in Pair \ {t} : op'[u] = op[u]
    BY <1>3, <1>12 DEF S!RotateVersion
  <2> QED BY <1>1, <2>1, <2>2, <2>3, <2>4, OneCallFrame
<1>13. ASSUME NEW t \in Pair, S!DeleteStore(t) PROVE OneCall'
  <2>1. Alone(t) /\ Midway(t)
    BY <1>2, <1>13 DEF S!DeleteStore
  <2>2. op'[t].at # "idle" => Midway(t)'
    BY <1>3, <1>13, <2>1 DEF S!DeleteStore, S!Fresh, S!Idle, S!NoMeta, SecretOp, SecretMeta
  <2>3. op'[t] = S!Idle => Settled'
    BY <1>3, <1>13, <2>1 DEF S!DeleteStore, S!Fresh, S!Idle, S!NoMeta, S!Entry, SecretOp, SecretMeta
  <2>4. \A u \in Pair \ {t} : op'[u] = op[u]
    BY <1>3, <1>13 DEF S!DeleteStore
  <2> QED BY <1>1, <2>1, <2>2, <2>3, <2>4, OneCallFrame
<1>14. ASSUME NEW t \in Pair, S!get_secret_metadata(t) PROVE OneCall'
  <2>1. Alone(t) /\ Midway(t)
    BY <1>2, <1>14 DEF S!get_secret_metadata
  <2>2. op'[t].at # "idle" => Midway(t)'
    BY <1>3, <1>14, <2>1 DEF S!get_secret_metadata, S!Fresh, S!Idle, S!NoMeta, SecretOp, SecretMeta
  <2>3. op'[t] = S!Idle => Settled'
    BY <1>3, <1>14, <2>1 DEF S!get_secret_metadata, S!Fresh, S!Idle, S!NoMeta, S!Entry, SecretOp, SecretMeta
  <2>4. \A u \in Pair \ {t} : op'[u] = op[u]
    BY <1>3, <1>14 DEF S!get_secret_metadata
  <2> QED BY <1>1, <2>1, <2>2, <2>3, <2>4, OneCallFrame
<1>15. ASSUME NEW t \in Pair, S!Return(t) PROVE OneCall'
  <2>1. Alone(t) /\ Midway(t)
    BY <1>2, <1>15 DEF S!Return
  <2>2. op'[t].at # "idle" => Midway(t)'
    BY <1>3, <1>15, <2>1 DEF S!Return, S!Fresh, S!Idle, S!NoMeta, SecretOp, SecretMeta
  <2>3. op'[t] = S!Idle => Settled'
    BY <1>3, <1>15, <2>1 DEF S!Return, S!Fresh, S!Idle, S!NoMeta, S!Entry, SecretOp, SecretMeta
  <2>4. \A u \in Pair \ {t} : op'[u] = op[u]
    BY <1>3, <1>15 DEF S!Return
  <2> QED BY <1>1, <2>1, <2>2, <2>3, <2>4, OneCallFrame
<1>16. CASE S!rotate_master_key
  BY <1>1, <1>16 DEF S!rotate_master_key, OneCall, Alone
<1>17. CASE S!schedule_rotation \/ S!cancel_rotation
  <2>1. meta'.version = meta.version /\ meta'.given = meta.given /\ (meta # S!NoMeta \/ meta' = meta)
    BY <1>3, <1>17 DEF S!schedule_rotation, S!cancel_rotation, SecretMeta, S!NoMeta
  <2> QED BY <1>1, <1>17, <2>1 DEF S!schedule_rotation, S!cancel_rotation, OneCall, Alone
<1>18. CASE UNCHANGED S!vars
  BY <1>1, <1>18 DEF S!vars, OneCall, Alone
<1> QED BY <1>4, <1>5, <1>6, <1>7, <1>8, <1>9, <1>10, <1>11, <1>12, <1>13, <1>14, <1>15, <1>16, <1>17, <1>18 DEF S!Next

\* What the invariant says of a secret at rest and of what is read with it.
LEMMA SecretAnswers == SecretInv => S!ActiveVersionStored /\ S!ReadTogether
<1> SUFFICES ASSUME SecretInv PROVE S!ActiveVersionStored /\ S!ReadTogether
  OBVIOUS
<1>1. SecretBase /\ OneCall
  BY DEF SecretInv
<1>2. S!ActiveVersionStored
  BY <1>1 DEF S!ActiveVersionStored, SecretBase, OneCall, Settled, Last
<1>3. ASSUME NEW t \in Pair, op[t].at = "got", ~overlap, entries # <<>>
      PROVE  \E i \in DOMAIN entries : entries[i].value = op[t].value /\ (entries[i].version = op[t].meta.version \/ op[t].meta.given)
  <2>1. Len(entries) \in Nat /\ Len(entries) > 0 /\ DOMAIN entries = 1..Len(entries)
    BY <1>1, <1>3, EntryType DEF SecretBase, SecretTypes
  <2>2. Last.value = op[t].value /\ (Last.version = op[t].meta.version \/ op[t].meta.given)
    BY <1>1, <1>3, <2>1 DEF OneCall, Midway
  <2> QED BY <2>1, <2>2 DEF Last
<1> QED BY <1>2, <1>3 DEF S!ReadTogether

\* Rotations of credentials and of secrets, however they overlap with
\* revocations, clean-ups, deletions and each other, leave versions in order
\* with the newest alone active; whoever was revoked stays out (rotate_credential,
\* security.rs:2603; rotate_secret, security.rs:2065); a value at rest and a
\* value read go with their version; and roles are nested (from_role, security.rs:2410).
LEMMA RotationsSafe ==
  /\ C!Spec => []C!RotationSound
  /\ S!Spec => [](S!ActiveVersionStored /\ S!ReadTogether)
  /\ C!RolesNested
<1>1. C!Spec => []C!RotationSound
  <2>1. C!Init => RotationInv
    BY DEF C!Init, RotationInv, RotationTypes, C!NoCredential, Credential
  <2> QED BY <2>1, RotationStep, RotationAnswers, PTL DEF C!Spec
<1>2. S!Spec => [](S!ActiveVersionStored /\ S!ReadTogether)
  <2>1. S!Init => SecretInv
    <3> SUFFICES ASSUME S!Init PROVE SecretInv
      OBVIOUS
    <3>1. \A t \in Pair : op[t] = S!Idle /\ op[t].at = "idle"
      BY DEF S!Init, S!Idle
    <3>2. meta \in SecretMeta /\ overlap \in BOOLEAN
      BY DEF S!Init, S!NoMeta, SecretMeta
    <3>3. entries \in Seq(SecretEntry) /\ Len(entries) = 0 /\ store \in Nat /\ values \in Nat
      BY DEF S!Init
    <3>4. op \in [Pair -> SecretOp]
      BY <3>1 DEF S!Init, SecretOp
    <3>5. SecretTypes
      BY <3>2, <3>3, <3>4 DEF SecretTypes
    <3> QED BY <3>1, <3>3, <3>5 DEF SecretInv, SecretBase, OneCall, Settled
  <2> QED BY <2>1, SecretStep, SecretAnswers, PTL DEF S!Spec
<1>3. C!RolesNested
  <2>1. DOMAIN C!RoleOrder = 1..5
    BY DEF C!RoleOrder
  <2>2. C!RoleOrder[1] = "None" /\ C!RoleOrder[2] = "Viewer" /\ C!RoleOrder[3] = "Editor" /\ C!RoleOrder[4] = "Admin" /\ C!RoleOrder[5] = "System"
    BY DEF C!RoleOrder
  <2> QED BY <2>1, <2>2 DEF C!RolesNested, C!from_role, C!can, C!check_permission
<1> QED BY <1>1, <1>2, <1>3

-----------------------------------------------------------------------------
(* Credentials: backup codes and time-based codes.                         *)

\* A draw has codes, and their number fits in the counter's width.
CodesAssumption == CodeCount \in Nat \ {0} /\ MaxCode \in Nat /\ U32 \in Nat /\ CodeCount < U32

\* The codes of the first draw.
FirstDraw == 1..CodeCount

\* A code is in used_codes as soon as it was accepted; while one set of codes
\* was drawn, every used code is of that set.
CodesInv ==
  /\ used \subseteq C!Codes /\ codes \in [Pair -> SUBSET C!Codes] /\ draws \in Nat
  /\ \A ch \in challenges : ch.plugin \in Pair
  /\ accepted = [c \in C!Codes |-> IF c \in used THEN 1 ELSE 0]
  /\ draws = 0 => used = {} /\ \A p \in Pair : codes[p] = {}
  /\ draws = 1 => /\ used \subseteq FirstDraw
                  /\ \A p \in Pair : codes[p] = {} \/ codes[p] = FirstDraw

LEMMA FirstQuotient ==
  ASSUME NEW a \in Nat, NEW k \in Nat \ {0}
  PROVE  a \div k = 0 <=> a < k
  OBVIOUS

LEMMA CodesStep ==
  ASSUME CodesAssumption, CodesInv, [C!MfaNext]_C!mfa_vars
  PROVE  CodesInv'
<1> USE DEF CodesInv
<1>1. CASE C!MfaTick
  BY <1>1 DEF C!MfaTick
<1>2. ASSUME NEW p \in Pair, C!SetMfa(p) PROVE CodesInv'
  BY <1>2 DEF C!SetMfa
<1>3. ASSUME NEW p \in Pair, C!generate_codes(p) PROVE CodesInv'
  <2> DEFINE drawn == {c \in C!Codes : (c - 1) \div CodeCount = draws}
  <2>1. draws = 0 => drawn = FirstDraw
    <3> SUFFICES ASSUME draws = 0 PROVE drawn = FirstDraw
      OBVIOUS
    <3>1. CodeCount <= MaxCode
      BY <1>3 DEF C!generate_codes, CodesAssumption
    <3>2. \A c \in C!Codes : (c - 1) \div CodeCount = 0 <=> c - 1 < CodeCount
      BY FirstQuotient DEF C!Codes, CodesAssumption
    <3> QED BY <3>1, <3>2 DEF C!Codes, FirstDraw, CodesAssumption
  <2>2. drawn \subseteq C!Codes /\ codes' = [codes EXCEPT ![p] = drawn] /\ draws' = draws + 1
    BY <1>3 DEF C!generate_codes
  <2>3. UNCHANGED <<used, challenges, accepted>>
    BY <1>3 DEF C!generate_codes
  <2> HIDE DEF drawn
  <2> QED BY <2>1, <2>2, <2>3
<1>4. ASSUME NEW p \in Pair, NEW m \in C!Methods, C!create_challenge(p, m) PROVE CodesInv'
  BY <1>4 DEF C!create_challenge
<1>5. ASSUME NEW ch \in challenges, NEW c \in C!Codes, C!verify_challenge(ch, c), UNCHANGED <<enabled, codes, draws, second>>
      PROVE  CodesInv'
  <2>1. \A x \in challenges' : x.plugin \in Pair
    <3>1. challenges' \subseteq challenges \cup {[ch EXCEPT !.attempts = @ + 1]}
      BY <1>5 DEF C!verify_challenge
    <3>2. [ch EXCEPT !.attempts = @ + 1].plugin = ch.plugin
      OBVIOUS
    <3> QED BY <3>1, <3>2
  <2>2. CASE used' = used /\ accepted' = accepted
    BY <1>5, <2>1, <2>2
  <2>3. CASE C!Accepts(ch.plugin, c) /\ used' = used \cup {c} /\ accepted' = [accepted EXCEPT ![c] = @ + 1]
    <3>1. c \in codes[ch.plugin] /\ c \notin used /\ ch.plugin \in Pair
      BY <2>3 DEF C!Accepts
    <3>2. accepted' = [x \in C!Codes |-> IF x \in used' THEN 1 ELSE 0]
      BY <2>3, <3>1
    <3>3. draws # 0 /\ (draws = 1 => c \in FirstDraw)
      BY <3>1
    <3> QED BY <1>5, <2>1, <2>3, <3>2, <3>3
  <2> QED BY <1>5, <2>2, <2>3 DEF C!verify_challenge
<1>6. CASE UNCHANGED C!mfa_vars
  BY <1>6 DEF C!mfa_vars
<1> QED BY <1>1, <1>2, <1>3, <1>4, <1>5, <1>6 DEF C!MfaNext, C!VerifyChallenge

\* The subtraction of remaining_codes does not wrap around within one draw.
LEMMA CodesAnswers == CodesAssumption /\ CodesInv => C!BackupCodesSound
<1> SUFFICES ASSUME CodesAssumption, CodesInv PROVE C!BackupCodesSound
  OBVIOUS
<1>1. \A c \in C!Codes : accepted[c] <= 1
  BY DEF CodesInv
<1>2. ASSUME NEW p \in Pair, draws <= 1 PROVE C!remaining_codes(p) = Cardinality(codes[p] \ used)
  <2>1. CASE codes[p] = {}
    BY <2>1, FS_EmptySet DEF C!remaining_codes
  <2>2. CASE codes[p] # {}
    <3>1. codes[p] = FirstDraw /\ used \subseteq FirstDraw
      BY <1>2, <2>2 DEF CodesInv
    <3>2. IsFiniteSet(FirstDraw) /\ Cardinality(FirstDraw) = CodeCount
      BY FS_Interval DEF FirstDraw, CodesAssumption
    <3>3. IsFiniteSet(used) /\ Cardinality(used) \in Nat /\ Cardinality(used) <= CodeCount
      BY <3>1, <3>2, FS_Subset, FS_CardinalityType
    <3>4. Cardinality(FirstDraw \ used) = CodeCount - Cardinality(used)
      <4>1. Cardinality(FirstDraw \ used) = Cardinality(FirstDraw) - Cardinality(FirstDraw \cap used)
        BY <3>2, FS_Difference
      <4>2. FirstDraw \cap used = used
        BY <3>1
      <4> QED BY <3>2, <4>1, <4>2
    <3>5. (CodeCount - Cardinality(used)) % U32 = CodeCount - Cardinality(used)
      BY <3>3 DEF CodesAssumption
    <3> QED BY <2>2, <3>1, <3>4, <3>5, SameCardinality DEF C!remaining_codes
  <2> QED BY <2>1, <2>2
<1> QED BY <1>1, <1>2, SameCardinality DEF C!BackupCodesSound

\* A time-based code is of an interval of 30 seconds.
LEMMA TimedCodes == C!TotpWindow
<1>0. C!Moments \subseteq Nat
  BY DEF C!Moments, C!Interval
<1> SUFFICES ASSUME NEW made \in C!Moments, NEW checked \in C!Moments, NEW other \in BOOLEAN PROVE C!InWindow(made, checked, other)
  BY DEF C!TotpWindow
<1> DEFINE n == checked \div 30
           m == made \div 30
<1>1. /\ n \in Nat /\ m \in Nat
      /\ 30 * n <= checked /\ checked < 30 * n + 30 /\ 30 * m <= made /\ made < 30 * m + 30
  BY <1>0
<1>2. C!generate_code("a", made) = <<"a", m>> /\ C!time_counter(checked) = n /\ C!window_size_seconds = 30
  BY DEF C!generate_code, C!time_counter, C!Interval, C!window_size_seconds, C!window_size
<1> HIDE DEF n, m
<1>3. C!verify_code(IF other THEN "b" ELSE "a", <<"a", m>>, checked) <=> ~other /\ (m = n \/ m = n + 1 \/ m = n - 1)
  BY <1>1, <1>2 DEF C!verify_code, C!window_size
<1> QED BY <1>0, <1>1, <1>2, <1>3 DEF C!InWindow, C!Interval

\* A backup code is accepted once, for any number of plugins and challenges,
\* and remaining_codes is exact while one set was drawn (verify_challenge,
\* security.rs:3411); a time-based code is good in its window (security.rs:3153).
LEMMA CodesSafe == CodesAssumption => (C!MfaSpec => []C!BackupCodesSound /\ C!TotpWindow)
<1> SUFFICES ASSUME CodesAssumption PROVE C!MfaSpec => []C!BackupCodesSound /\ C!TotpWindow
  OBVIOUS
<1>1. C!MfaInit => CodesInv
  BY DEF C!MfaInit, CodesInv
<1>2. CodesInv /\ [C!MfaNext]_C!mfa_vars => CodesInv'
  BY CodesStep
<1>3. CodesInv => C!BackupCodesSound
  BY CodesAnswers
<1> QED BY <1>1, <1>2, <1>3, TimedCodes, PTL DEF C!MfaSpec

-----------------------------------------------------------------------------
(* Authz: how old a cached answer can be.                                  *)

GrantHistories == [Roles -> [BOOLEAN -> Nat]]
RoleHistories == [Users \X Roles -> [BOOLEAN -> Nat]]

AuthzTypes ==
  /\ grants \subseteq Roles /\ assigned \in [Users -> SUBSET Roles]
  /\ cache \in [Users -> [granted : BOOLEAN, age : Nat]]
  /\ asker \in [Pair -> {"idle", "compute", "roles", "store"}] /\ ask \in [Pair -> Users]
  /\ names \in [Pair -> SUBSET Roles] /\ answer \in [Pair -> [granted : BOOLEAN, age : Nat]]
  /\ was_granting \in GrantHistories /\ was_assigned \in RoleHistories

\* What holds now was so no time ago.
HistoryCurrent ==
  /\ \A r \in Roles : /\ r \in grants => was_granting[r][TRUE] = 0
                      /\ r \notin grants => was_granting[r][FALSE] = 0
  /\ \A u \in Users, r \in Roles : /\ r \in assigned[u] => was_assigned[<<u, r>>][TRUE] = 0
                                   /\ r \notin assigned[u] => was_assigned[<<u, r>>][FALSE] = 0

\* Roles (as in G) and assignments (as in B) of the last n units of time that
\* explain an answer.
Explains(G, B, u, n, yes) ==
  /\ yes => \E r \in Roles : G[r][TRUE] <= n /\ B[<<u, r>>][TRUE] <= n
  /\ ~yes => \A r \in Roles : G[r][FALSE] <= n \/ B[<<u, r>>][FALSE] <= n

\* ... and assignments that explain the names an asker has read.
Assigns(B, u, n, R) ==
  \A r \in Roles : (r \in R => B[<<u, r>>][TRUE] <= n) /\ (r \notin R => B[<<u, r>>][FALSE] <= n)

\* An asker's names, then its answer, are of the time it has spent since; a cached
\* answer is older by the time its asker took.
AskerInv(t) ==
  /\ asker[t] \in {"roles", "store"} => answer[t].age <= MaxLag
  /\ asker[t] = "roles" => Assigns(was_assigned, ask[t], answer[t].age, names[t])
  /\ asker[t] = "store" => Explains(was_granting, was_assigned, ask[t], answer[t].age, answer[t].granted)

CacheInv(u) == cache[u].age <= Ttl => Explains(was_granting, was_assigned, u, cache[u].age + MaxLag, cache[u].granted)

AuthzInv == /\ AuthzTypes /\ HistoryCurrent
            /\ \A t \in Pair : AskerInv(t)
            /\ \A u \in Users : CacheInv(u)

\* The histories after a change or after time.
LEMMA HistoryStep ==
  ASSUME Ttl \in Nat, MaxLag \in Nat, AuthzTypes, NEW d \in {0, 1},
         NEW g \in SUBSET Roles, NEW a \in [Users -> SUBSET Roles], Z!Recorded(g, a, d)
  PROVE  /\ was_granting' \in GrantHistories /\ was_assigned' \in RoleHistories
         /\ \A r \in Roles, b \in BOOLEAN : was_granting'[r][b] <= was_granting[r][b] + d
         /\ \A r \in Roles : /\ r \in g => was_granting'[r][TRUE] = 0
                             /\ r \notin g => was_granting'[r][FALSE] = 0
         /\ \A x \in Users \X Roles, b \in BOOLEAN : was_assigned'[x][b] <= was_assigned[x][b] + d
         /\ \A u \in Users, r \in Roles : /\ r \in a[u] => was_assigned'[<<u, r>>][TRUE] = 0
                                          /\ r \notin a[u] => was_assigned'[<<u, r>>][FALSE] = 0
<1>1. \A n \in Nat : Z!Capped(n) \in Nat /\ Z!Capped(n) <= n
  BY DEF Z!Capped, Z!Horizon
<1>2. \A r \in Roles, b \in BOOLEAN : was_granting[r][b] \in Nat
  BY DEF AuthzTypes, GrantHistories
<1>3. \A x \in Users \X Roles, b \in BOOLEAN : was_assigned[x][b] \in Nat
  BY DEF AuthzTypes, RoleHistories
<1>4. \A r \in Roles, b \in BOOLEAN : was_granting'[r][b] = IF b = (r \in g) THEN 0 ELSE Z!Capped(was_granting[r][b] + d)
  BY DEF Z!Recorded
<1>5. \A x \in Users \X Roles, b \in BOOLEAN :
        was_assigned'[x][b] = IF b = (x[2] \in a[x[1]]) THEN 0 ELSE Z!Capped(was_assigned[x][b] + d)
  BY DEF Z!Recorded
<1>6. was_granting' \in GrantHistories
  BY <1>1, <1>2 DEF Z!Recorded, GrantHistories
<1>7. was_assigned' \in RoleHistories
  BY <1>1, <1>3 DEF Z!Recorded, RoleHistories
<1>8. \A r \in Roles, b \in BOOLEAN : was_granting'[r][b] <= was_granting[r][b] + d
  BY <1>1, <1>2, <1>4
<1>9. \A x \in Users \X Roles, b \in BOOLEAN : was_assigned'[x][b] <= was_assigned[x][b] + d
  BY <1>1, <1>3, <1>5
<1>10. ASSUME NEW r \in Roles
       PROVE  /\ r \in g => was_granting'[r][TRUE] = 0
              /\ r \notin g => was_granting'[r][FALSE] = 0
  <2>1. was_granting'[r][FALSE] = IF FALSE = (r \in g) THEN 0 ELSE Z!Capped(was_granting[r][FALSE] + d)
    BY <1>4
  <2>2. was_granting'[r][TRUE] = IF TRUE = (r \in g) THEN 0 ELSE Z!Capped(was_granting[r][TRUE] + d)
    BY <1>4
  <2>3. ((FALSE = (r \in g)) <=> r \notin g) /\ ((TRUE = (r \in g)) <=> r \in g)
    OBVIOUS
  <2> QED BY <2>1, <2>2, <2>3, Zenon
<1>11. ASSUME NEW u \in Users, NEW r \in Roles
       PROVE  /\ r \in a[u] => was_assigned'[<<u, r>>][TRUE] = 0
              /\ r \notin a[u] => was_assigned'[<<u, r>>][FALSE] = 0
  <2>0. <<u, r>> \in Users \X Roles /\ <<u, r>>[1] = u /\ <<u, r>>[2] = r
    OBVIOUS
  <2>1. was_assigned'[<<u, r>>][FALSE] = IF FALSE = (r \in a[u]) THEN 0 ELSE Z!Capped(was_assigned[<<u, r>>][FALSE] + d)
    BY <1>5, <2>0
  <2>2. was_assigned'[<<u, r>>][TRUE] = IF TRUE = (r \in a[u]) THEN 0 ELSE Z!Capped(was_assigned[<<u, r>>][TRUE] + d)
    BY <1>5, <2>0
  <2>3. ((FALSE = (r \in a[u])) <=> r \notin a[u]) /\ ((TRUE = (r \in a[u])) <=> r \in a[u])
    OBVIOUS
  <2> QED BY <2>1, <2>2, <2>3, Zenon
<1> QED BY <1>6, <1>7, <1>8, <1>9, <1>10, <1>11

\* An answer, or names, explained by the last n units of time are, d units
\* later, explained by the last n + d units.
LEMMA ExplainsAfter ==
  ASSUME NEW u \in Users, NEW d \in {0, 1}, NEW n \in Nat,
         NEW G \in GrantHistories, NEW H \in GrantHistories, NEW B \in RoleHistories, NEW E \in RoleHistories,
         \A r \in Roles, b \in BOOLEAN : H[r][b] <= G[r][b] + d,
         \A x \in Users \X Roles, b \in BOOLEAN : E[x][b] <= B[x][b] + d
  PROVE  /\ \A yes \in BOOLEAN : Explains(G, B, u, n, yes) => Explains(H, E, u, n + d, yes)
         /\ \A R \in SUBSET Roles : Assigns(B, u, n, R) => Assigns(E, u, n + d, R)
<1>1. \A r \in Roles, b \in BOOLEAN : G[r][b] \in Nat /\ H[r][b] \in Nat
  BY DEF GrantHistories
<1>2. \A r \in Roles, b \in BOOLEAN : B[<<u, r>>][b] \in Nat /\ E[<<u, r>>][b] \in Nat
  BY DEF RoleHistories
<1>3. \A r \in Roles, b \in BOOLEAN : /\ G[r][b] <= n => H[r][b] <= n + d
                                      /\ B[<<u, r>>][b] <= n => E[<<u, r>>][b] <= n + d
  BY <1>1, <1>2
<1>4. TRUE \in BOOLEAN /\ FALSE \in BOOLEAN
  OBVIOUS
<1>5. \A yes \in BOOLEAN : Explains(G, B, u, n, yes) => Explains(H, E, u, n + d, yes)
  BY <1>3, <1>4, Zenon DEF Explains
<1>6. \A R \in SUBSET Roles : Assigns(B, u, n, R) => Assigns(E, u, n + d, R)
  BY <1>3, <1>4, Zenon DEF Assigns
<1> QED BY <1>5, <1>6

LEMMA ExplainsLonger ==
  ASSUME NEW u \in Users, NEW n \in Nat, NEW m \in Nat, n <= m, NEW G \in GrantHistories, NEW B \in RoleHistories,
         NEW yes \in BOOLEAN, Explains(G, B, u, n, yes)
  PROVE  Explains(G, B, u, m, yes)
<1>1. \A r \in Roles, b \in BOOLEAN : G[r][b] \in Nat /\ B[<<u, r>>][b] \in Nat
  BY DEF GrantHistories, RoleHistories
<1>2. \A r \in Roles, b \in BOOLEAN : (G[r][b] <= n => G[r][b] <= m) /\ (B[<<u, r>>][b] <= n => B[<<u, r>>][b] <= m)
  BY <1>1
<1>3. TRUE \in BOOLEAN /\ FALSE \in BOOLEAN
  OBVIOUS
<1> QED BY <1>2, <1>3, Zenon DEF Explains

\* What a change of roles or assignments leaves of askers and caches.
LEMMA ChangeFrame ==
  ASSUME Ttl \in Nat, MaxLag \in Nat, AuthzInv, AuthzTypes', UNCHANGED <<asker, ask, names, answer>>,
         \A u \in Users : cache'[u] = cache[u] \/ cache'[u] = Z!NoEntry,
         \A r \in Roles, b \in BOOLEAN : was_granting'[r][b] <= was_granting[r][b] + 0,
         \A x \in Users \X Roles, b \in BOOLEAN : was_assigned'[x][b] <= was_assigned[x][b] + 0
  PROVE  (\A t \in Pair : AskerInv(t)') /\ (\A u \in Users : CacheInv(u)')
<1>1. /\ was_granting \in GrantHistories /\ was_assigned \in RoleHistories
      /\ was_granting' \in GrantHistories /\ was_assigned' \in RoleHistories
  BY DEF AuthzInv, AuthzTypes
<1>2. ASSUME NEW u \in Users, NEW n \in Nat
      PROVE  /\ \A yes \in BOOLEAN : Explains(was_granting, was_assigned, u, n, yes)
                                         => Explains(was_granting', was_assigned', u, n, yes)
             /\ \A R \in SUBSET Roles : Assigns(was_assigned, u, n, R) => Assigns(was_assigned', u, n, R)
  <2>1. n + 0 = n
    OBVIOUS
  <2> QED BY <1>1, <2>1, ExplainsAfter
<1>3. ASSUME NEW t \in Pair PROVE AskerInv(t)'
  <2>1. ask[t] \in Users /\ answer[t].age \in Nat /\ answer[t].granted \in BOOLEAN /\ names[t] \in SUBSET Roles /\ AskerInv(t)
    BY DEF AuthzInv, AuthzTypes
  <2> QED BY <1>2, <2>1 DEF AskerInv
<1>4. ASSUME NEW u \in Users PROVE CacheInv(u)'
  <2>1. cache[u].age \in Nat /\ cache[u].granted \in BOOLEAN /\ CacheInv(u)
    BY DEF AuthzInv, AuthzTypes
  <2>2. CASE cache'[u] = cache[u]
    BY <1>2, <2>1, <2>2 DEF CacheInv
  <2>3. CASE cache'[u] = Z!NoEntry
    BY <2>3 DEF CacheInv, Z!NoEntry, Z!Horizon
  <2> QED BY <2>2, <2>3
<1> QED BY <1>3, <1>4

LEMMA AuthzStep ==
  ASSUME Ttl \in Nat, MaxLag \in Nat, AuthzInv, [Z!Next]_Z!vars
  PROVE  AuthzInv'
<1>1. /\ AuthzTypes /\ HistoryCurrent /\ (\A t \in Pair : AskerInv(t)) /\ (\A u \in Users : CacheInv(u))
      /\ was_granting \in GrantHistories /\ was_assigned \in RoleHistories
      /\ Z!Horizon \in Nat /\ Z!Horizon > Ttl /\ Z!NoEntry \in [granted : BOOLEAN, age : Nat]
  BY DEF AuthzInv, AuthzTypes, Z!Horizon, Z!NoEntry
<1>2. ASSUME NEW r \in Roles, Z!register_role(r) PROVE AuthzInv'
  <2>1. PICK g \in SUBSET Roles : grants' = g /\ Z!Recorded(g, assigned, 0)
    BY <1>1, <1>2 DEF Z!register_role, AuthzTypes
  <2>2. UNCHANGED <<assigned, cache, asker, ask, names, answer>>
    BY <1>2 DEF Z!register_role, Z!asker
  <2>3. /\ was_granting' \in GrantHistories /\ was_assigned' \in RoleHistories
        /\ \A q \in Roles, b \in BOOLEAN : was_granting'[q][b] <= was_granting[q][b] + 0
        /\ \A x \in Users \X Roles, b \in BOOLEAN : was_assigned'[x][b] <= was_assigned[x][b] + 0
        /\ HistoryCurrent'
    <3>1. assigned \in [Users -> SUBSET Roles]
      BY <1>1 DEF AuthzTypes
    <3> QED BY <1>1, <2>1, <2>2, <3>1, HistoryStep DEF HistoryCurrent
  <2>4. AuthzTypes'
    BY <1>1, <2>1, <2>2, <2>3 DEF AuthzTypes
  <2> QED BY <2>2, <2>3, <2>4, ChangeFrame DEF AuthzInv
<1>3. ASSUME NEW u \in Users, NEW R \in SUBSET Roles, Z!assign_roles(u, R) PROVE AuthzInv'
  <2>1. /\ assigned' = [assigned EXCEPT ![u] = R] /\ cache' = [cache EXCEPT ![u] = Z!NoEntry]
        /\ Z!Recorded(grants, assigned', 0) /\ UNCHANGED <<grants, asker, ask, names, answer>>
    BY <1>3 DEF Z!assign_roles, Z!asker
  <2>2. assigned' \in [Users -> SUBSET Roles] /\ grants \in SUBSET Roles
    BY <1>1, <2>1 DEF AuthzTypes
  <2>3. /\ was_granting' \in GrantHistories /\ was_assigned' \in RoleHistories
        /\ \A q \in Roles, b \in BOOLEAN : was_granting'[q][b] <= was_granting[q][b] + 0
        /\ \A x \in Users \X Roles, b \in BOOLEAN : was_assigned'[x][b] <= was_assigned[x][b] + 0
        /\ HistoryCurrent'
    BY <1>1, <2>1, <2>2, HistoryStep DEF HistoryCurrent
  <2>4. AuthzTypes'
    BY <1>1, <2>1, <2>2, <2>3 DEF AuthzTypes
  <2>5. \A v \in Users : cache'[v] = cache[v] \/ cache'[v] = Z!NoEntry
    BY <1>1, <2>1 DEF AuthzTypes
  <2> QED BY <2>1, <2>3, <2>4, <2>5, ChangeFrame DEF AuthzInv
<1>4. ASSUME NEW U \in SUBSET Users, Z!invalidate(U) PROVE AuthzInv'
  <2>1. /\ cache' = [u \in Users |-> IF u \in U THEN Z!NoEntry ELSE cache[u]]
        /\ UNCHANGED <<grants, assigned, asker, ask, names, answer, was_granting, was_assigned>>
    BY <1>4 DEF Z!invalidate, Z!asker, Z!history
  <2>2. AuthzTypes'
    BY <1>1, <2>1 DEF AuthzTypes
  <2>3. HistoryCurrent' /\ (\A t \in Pair : AskerInv(t)')
    BY <1>1, <2>1 DEF HistoryCurrent, AskerInv
  <2>4. \A u \in Users : CacheInv(u)'
    <3>1. ~(Z!NoEntry.age <= Ttl)
      BY <1>1 DEF Z!NoEntry
    <3>2. \A u \in Users : cache'[u] = cache[u] \/ cache'[u] = Z!NoEntry
      BY <2>1
    <3> QED BY <1>1, <2>1, <3>1, <3>2 DEF CacheInv
  <2> QED BY <2>2, <2>3, <2>4 DEF AuthzInv
<1>5. ASSUME NEW t \in Pair, NEW u \in Users, Z!Ask(t, u) PROVE AuthzInv'
  <2>1. /\ ask' = [ask EXCEPT ![t] = u] /\ asker' = [asker EXCEPT ![t] = "compute"]
        /\ UNCHANGED <<grants, assigned, cache, names, answer, was_granting, was_assigned>>
    BY <1>5 DEF Z!Ask, Z!Goto, Z!checker, Z!history
  <2>2. AuthzTypes' /\ HistoryCurrent' /\ (\A v \in Users : CacheInv(v)')
    BY <1>1, <2>1 DEF AuthzTypes, HistoryCurrent, CacheInv
  <2>3. \A s \in Pair : AskerInv(s)'
    BY <1>1, <2>1 DEF AuthzTypes, AskerInv
  <2> QED BY <2>2, <2>3 DEF AuthzInv
<1>6. ASSUME NEW t \in Pair, Z!ReadNames(t) PROVE AuthzInv'
  <2>1. /\ names' = [names EXCEPT ![t] = assigned[ask[t]]] /\ answer' = [answer EXCEPT ![t].age = 0]
        /\ asker' = [asker EXCEPT ![t] = "roles"]
        /\ UNCHANGED <<grants, assigned, cache, ask, was_granting, was_assigned>>
    BY <1>6 DEF Z!ReadNames, Z!Goto, Z!checker, Z!history
  <2>2. AuthzTypes' /\ HistoryCurrent' /\ (\A v \in Users : CacheInv(v)')
    BY <1>1, <2>1 DEF AuthzTypes, HistoryCurrent, CacheInv
  <2>3. \A s \in Pair \ {t} : AskerInv(s)'
    BY <1>1, <2>1 DEF AuthzTypes, AskerInv
  <2>4. AskerInv(t)'
    <3>0. ask[t] \in Users
      BY <1>1 DEF AuthzTypes
    <3>1. Assigns(was_assigned, ask[t], 0, assigned[ask[t]])
      <4>1. \A u \in Users : Assigns(was_assigned, u, 0, assigned[u])
        <5>1. 0 <= 0
          OBVIOUS
        <5> QED BY <1>1, <5>1, Zenon DEF HistoryCurrent, Assigns
      <4> QED BY <3>0, <4>1
    <3>2. answer'[t].age = 0 /\ asker'[t] = "roles" /\ names'[t] = assigned[ask[t]]
      BY <1>1, <2>1 DEF AuthzTypes
    <3> QED BY <2>1, <3>1, <3>2 DEF AskerInv
  <2> QED BY <2>2, <2>3, <2>4 DEF AuthzInv
<1>7. ASSUME NEW t \in Pair, Z!ReadRoles(t) PROVE AuthzInv'
  <2> DEFINE found == Z!Granted(names[t], grants)
  <2>1. /\ answer' = [answer EXCEPT ![t].granted = found] /\ asker' = [asker EXCEPT ![t] = "store"]
        /\ asker[t] = "roles"
        /\ UNCHANGED <<grants, assigned, cache, ask, names, was_granting, was_assigned>>
    BY <1>7 DEF Z!ReadRoles, Z!Goto, Z!checker, Z!history
  <2>2. found \in BOOLEAN
    BY DEF Z!Granted
  <2>3. AuthzTypes' /\ HistoryCurrent' /\ (\A v \in Users : CacheInv(v)')
    BY <1>1, <2>1, <2>2 DEF AuthzTypes, HistoryCurrent, CacheInv
  <2>4. \A s \in Pair \ {t} : AskerInv(s)'
    BY <1>1, <2>1 DEF AuthzTypes, AskerInv
  <2>5. AskerInv(t)'
    <3>1. answer[t].age \in Nat /\ answer[t].age <= MaxLag /\ Assigns(was_assigned, ask[t], answer[t].age, names[t])
      BY <1>1, <2>1 DEF AuthzTypes, AskerInv
    <3>2. Explains(was_granting, was_assigned, ask[t], answer[t].age, found)
      <4>1. names[t] \subseteq Roles
        BY <1>1 DEF AuthzTypes
      <4>2. \A r \in Roles : /\ r \in grants => was_granting[r][TRUE] <= answer[t].age
                             /\ r \notin grants => was_granting[r][FALSE] <= answer[t].age
        <5>1. 0 <= answer[t].age
          BY <3>1
        <5> QED BY <1>1, <5>1, Zenon DEF HistoryCurrent
      <4>3. found <=> \E r \in Roles : r \in names[t] /\ r \in grants
        BY <4>1 DEF Z!Granted
      <4> HIDE DEF found
      <4> QED BY <3>1, <4>2, <4>3, Zenon DEF Explains, Assigns
    <3>3. asker'[t] = "store" /\ answer'[t].age = answer[t].age /\ answer'[t].granted = found
      BY <1>1, <2>1 DEF AuthzTypes
    <3> HIDE DEF found
    <3> QED BY <2>1, <3>1, <3>2, <3>3 DEF AskerInv
  <2> QED BY <2>3, <2>4, <2>5 DEF AuthzInv
<1>8. ASSUME NEW t \in Pair, Z!Store(t) PROVE AuthzInv'
  <2>1. /\ cache' = [cache EXCEPT ![ask[t]] = [granted |-> answer[t].granted, age |-> 0]]
        /\ answer' = [answer EXCEPT ![t] = [granted |-> FALSE, age |-> 0]]
        /\ names' = [names EXCEPT ![t] = {}] /\ asker' = [asker EXCEPT ![t] = "idle"] /\ asker[t] = "store"
        /\ UNCHANGED <<grants, assigned, ask, was_granting, was_assigned>>
    BY <1>8 DEF Z!Store, Z!Goto, Z!history
  <2>2. /\ ask[t] \in Users /\ answer[t].age \in Nat /\ answer[t].granted \in BOOLEAN
        /\ answer[t].age <= MaxLag /\ Explains(was_granting, was_assigned, ask[t], answer[t].age, answer[t].granted)
    BY <1>1, <2>1 DEF AuthzTypes, AskerInv
  <2>3. AuthzTypes' /\ HistoryCurrent'
    BY <1>1, <2>1, <2>2 DEF AuthzTypes, HistoryCurrent
  <2>4. \A s \in Pair : AskerInv(s)'
    BY <1>1, <2>1 DEF AuthzTypes, AskerInv
  <2>5. \A v \in Users \ {ask[t]} : CacheInv(v)'
    BY <1>1, <2>1 DEF AuthzTypes, CacheInv
  <2>6. CacheInv(ask[t])'
    <3>1. Explains(was_granting, was_assigned, ask[t], MaxLag, answer[t].granted)
      BY <1>1, <2>2, ExplainsLonger
    <3>2. cache'[ask[t]].age = 0 /\ cache'[ask[t]].granted = answer[t].granted
      BY <1>1, <2>1, <2>2 DEF AuthzTypes
    <3> QED BY <2>1, <3>1, <3>2 DEF CacheInv
  <2>7. \A v \in Users : CacheInv(v)'
    BY <2>1, <2>5, <2>6
  <2> QED BY <2>3, <2>4, <2>7 DEF AuthzInv
<1>9. CASE Z!log
  BY <1>1, <1>9 DEF Z!log, Z!checker, Z!asker, Z!history, AuthzInv, AuthzTypes, HistoryCurrent, AskerInv, CacheInv
<1>10. CASE Z!Tick
  <2>1. /\ \A t \in Pair : asker[t] \in {"roles", "store"} => answer[t].age < MaxLag
        /\ cache' = [u \in Users |-> [cache[u] EXCEPT !.age = Z!Capped(@ + 1)]]
        /\ answer' = [t \in Pair |-> IF asker[t] \in {"roles", "store"} THEN [answer[t] EXCEPT !.age = @ + 1] ELSE answer[t]]
        /\ Z!Recorded(grants, assigned, 1)
        /\ UNCHANGED <<grants, assigned, asker, ask, names>>
    BY <1>10 DEF Z!Tick
  <2>2. \A n \in Nat : Z!Capped(n) \in Nat /\ (Z!Capped(n) <= Ttl => Z!Capped(n) = n)
    BY <1>1 DEF Z!Capped
  <2>3. /\ was_granting' \in GrantHistories /\ was_assigned' \in RoleHistories /\ HistoryCurrent'
        /\ \A r \in Roles, b \in BOOLEAN : was_granting'[r][b] <= was_granting[r][b] + 1
        /\ \A x \in Users \X Roles, b \in BOOLEAN : was_assigned'[x][b] <= was_assigned[x][b] + 1
    <3>1. assigned \in [Users -> SUBSET Roles] /\ grants \in SUBSET Roles
      BY <1>1 DEF AuthzTypes
    <3> QED BY <1>1, <2>1, <3>1, HistoryStep DEF HistoryCurrent
  <2>4. AuthzTypes'
    <3>1. cache' \in [Users -> [granted : BOOLEAN, age : Nat]]
      <4>1. \A u \in Users : cache[u] \in [granted : BOOLEAN, age : Nat] /\ Z!Capped(cache[u].age + 1) \in Nat
        BY <1>1, <2>2 DEF AuthzTypes
      <4> QED BY <2>1, <4>1
    <3>2. answer' \in [Pair -> [granted : BOOLEAN, age : Nat]]
      BY <1>1, <2>1 DEF AuthzTypes
    <3> QED BY <1>1, <2>1, <2>3, <3>1, <3>2 DEF AuthzTypes
  <2>5. ASSUME NEW u \in Users, NEW n \in Nat
        PROVE  /\ \A yes \in BOOLEAN : Explains(was_granting, was_assigned, u, n, yes)
                                           => Explains(was_granting', was_assigned', u, n + 1, yes)
               /\ \A R \in SUBSET Roles : Assigns(was_assigned, u, n, R) => Assigns(was_assigned', u, n + 1, R)
    BY <1>1, <2>3, ExplainsAfter
  <2>6. ASSUME NEW t \in Pair PROVE AskerInv(t)'
    <3>1. /\ ask[t] \in Users /\ answer[t].age \in Nat /\ answer[t].granted \in BOOLEAN /\ names[t] \in SUBSET Roles
          /\ AskerInv(t)
      BY <1>1 DEF AuthzTypes
    <3>2. CASE asker[t] \in {"roles", "store"}
      <4>1. answer'[t].age = answer[t].age + 1 /\ answer'[t].granted = answer[t].granted /\ answer[t].age < MaxLag
        BY <1>1, <2>1, <3>2 DEF AuthzTypes
      <4> QED BY <2>1, <2>5, <3>1, <3>2, <4>1 DEF AskerInv
    <3>3. CASE asker[t] \notin {"roles", "store"}
      BY <2>1, <3>3 DEF AskerInv
    <3> QED BY <3>2, <3>3
  <2>7. ASSUME NEW u \in Users PROVE CacheInv(u)'
    <3>1. cache[u].age \in Nat /\ cache[u].granted \in BOOLEAN /\ CacheInv(u)
      BY <1>1 DEF AuthzTypes
    <3>2. cache'[u].granted = cache[u].granted /\ cache'[u].age = Z!Capped(cache[u].age + 1)
      BY <1>1, <2>1 DEF AuthzTypes
    <3> SUFFICES ASSUME cache'[u].age <= Ttl
                 PROVE  Explains(was_granting', was_assigned', u, cache'[u].age + MaxLag, cache'[u].granted)
      BY DEF CacheInv
    <3>3. cache'[u].age = cache[u].age + 1 /\ cache[u].age <= Ttl /\ cache'[u].age + MaxLag = cache[u].age + MaxLag + 1
      BY <2>2, <3>1, <3>2
    <3>4. Explains(was_granting, was_assigned, u, cache[u].age + MaxLag, cache[u].granted) /\ cache[u].age + MaxLag \in Nat
      BY <3>1, <3>3 DEF CacheInv
    <3> QED BY <2>5, <3>1, <3>2, <3>3, <3>4
  <2> QED BY <2>3, <2>4, <2>6, <2>7 DEF AuthzInv
<1>11. CASE UNCHANGED Z!vars
  BY <1>1, <1>11 DEF Z!vars, Z!checker, Z!asker, Z!history, AuthzInv, AuthzTypes, HistoryCurrent, AskerInv, CacheInv
<1> QED
  BY <1>2, <1>3, <1>4, <1>5, <1>6, <1>7, <1>8, <1>9, <1>10, <1>11 DEF Z!Next, Z!Change, Z!Check

\* A cached answer follows from roles and assignments of the last Ttl, and the
\* time its asker took to store it, for any number of users, roles and askers
\* and whatever changes overlap has_permission (PermissionCache::get, authz.rs:157).
LEMMA StalenessSafe == Ttl \in Nat /\ MaxLag \in Nat => (Z!Spec => []Z!BoundedStaleness)
<1> SUFFICES ASSUME Ttl \in Nat, MaxLag \in Nat PROVE Z!Spec => []Z!BoundedStaleness
  OBVIOUS
<1>1. Z!Init => AuthzInv
  <2> SUFFICES ASSUME Z!Init PROVE AuthzInv
    OBVIOUS
  <2>1. Z!Horizon \in Nat /\ Z!Horizon > Ttl
    BY DEF Z!Horizon
  <2>2. was_granting \in GrantHistories /\ was_assigned \in RoleHistories
    BY <2>1 DEF Z!Init, GrantHistories, RoleHistories
  <2>3. AuthzTypes
    BY <2>1, <2>2 DEF Z!Init, AuthzTypes, Z!NoEntry
  <2>4. HistoryCurrent
    BY DEF Z!Init, HistoryCurrent
  <2>5. \A t \in Pair : AskerInv(t)
    BY DEF Z!Init, AskerInv
  <2>6. \A u \in Users : CacheInv(u)
    BY <2>1 DEF Z!Init, CacheInv, Z!NoEntry
  <2> QED BY <2>3, <2>4, <2>5, <2>6 DEF AuthzInv
<1>2. AuthzInv /\ [Z!Next]_Z!vars => AuthzInv'
  BY AuthzStep
<1>3. AuthzInv => Z!BoundedStaleness
  <2> SUFFICES ASSUME AuthzInv, NEW u \in Users, Z!Hit(u)
               PROVE  IF cache[u].granted
                      THEN \E r \in Roles : Z!Lately(was_granting[r])[TRUE] /\ Z!Lately(was_assigned[<<u, r>>])[TRUE]
                      ELSE \A r \in Roles : Z!Lately(was_granting[r])[FALSE] \/ Z!Lately(was_assigned[<<u, r>>])[FALSE]
    BY DEF Z!BoundedStaleness
  <2>1. /\ cache[u].age \in Nat /\ cache[u].granted \in BOOLEAN /\ cache[u].age <= Ttl
        /\ was_granting \in GrantHistories /\ was_assigned \in RoleHistories
    BY DEF Z!Hit, AuthzInv, AuthzTypes
  <2>2. Explains(was_granting, was_assigned, u, cache[u].age + MaxLag, cache[u].granted)
    BY <2>1 DEF AuthzInv, CacheInv
  <2>3. Explains(was_granting, was_assigned, u, Ttl + MaxLag, cache[u].granted)
    <3>1. cache[u].age + MaxLag \in Nat /\ Ttl + MaxLag \in Nat /\ cache[u].age + MaxLag <= Ttl + MaxLag
      BY <2>1
    <3> QED BY <2>1, <2>2, <3>1, ExplainsLonger
  <2>4. \A f : Z!Lately(f)[TRUE] = (f[TRUE] <= Ttl + MaxLag) /\ Z!Lately(f)[FALSE] = (f[FALSE] <= Ttl + MaxLag)
    BY DEF Z!Lately
  <2> QED BY <2>3, <2>4 DEF Explains
<1> QED BY <1>1, <1>2, <1>3, PTL DEF Z!Spec

-----------------------------------------------------------------------------
(* AuditLog: replication.                                                  *)

\* A line in plain JSON is told apart from the others, and a batch has a size.
AuditAssumption == BatchSize \in Nat /\ Plain \notin Pair /\ Plain # Garbage

AuditLine == [ev : F!Events, key : Pair \cup {Plain, Garbage}]

\* What a batch read after the first n lines covers: as many lines as it has
\* events, and of those every one in plain JSON, a repeated event included.
LEMMA BatchCovers ==
  ASSUME AuditAssumption, file \in Seq(AuditLine), NEW n \in Nat, n <= Len(file)
  PROVE  LET b == F!Batch(n)  m == F!Cardinality(b)
         IN  /\ m \in Nat /\ n + m <= Len(file) /\ b \subseteq F!Events
             /\ \A i \in n + 1..n + m : file[i].key = Plain => file[i].ev \in b
<1> DEFINE L == Len(file)
           fresh == {i \in n + 1..L : file[i].key = Plain /\ \A j \in n + 1..i - 1 : file[j] # file[i]}
           upto(i) == {j \in fresh : j <= i}
           T == {i \in fresh : Cardinality(upto(i)) <= BatchSize}
           b == {file[i].ev : i \in T}
           m == Cardinality(b)
<1>0. BatchSize \in Nat /\ L \in Nat /\ n <= L
  BY DEF AuditAssumption
<1>1. \A i \in 1..L : file[i].ev \in F!Events
  <2>1. \A i \in 1..L : file[i] \in AuditLine
    OBVIOUS
  <2> QED BY <2>1 DEF AuditLine
<1>2. F!Batch(n) = b /\ F!Cardinality(F!Batch(n)) = m
  BY SameCardinality DEF F!Batch
<1>3. fresh \subseteq n + 1..L /\ T \subseteq fresh /\ \A i : upto(i) \subseteq fresh
  OBVIOUS
<1>a. ASSUME NEW i \in n + 1..L, file[i].key = Plain, \A j \in n + 1..i - 1 : file[j] # file[i]
      PROVE  i \in fresh
  BY <1>a
<1>b. \A i \in fresh : Cardinality(upto(i)) <= BatchSize <=> i \in T
  OBVIOUS
<1>c. \A i, j : j \in upto(i) <=> j \in fresh /\ j <= i
  OBVIOUS
<1>d. \A i \in T : file[i].ev \in b
  OBVIOUS
<1>e. \A e \in b : \E i \in T : e = file[i].ev
  OBVIOUS
<1> HIDE DEF L, fresh, upto, T, m
<1>4. \A k \in Nat : n <= k => IsFiniteSet(n + 1..k) /\ Cardinality(n + 1..k) = k - n
  <2>1. \A x, y \in Int : IsFiniteSet(x..y) /\ Cardinality(x..y) = IF x > y THEN 0 ELSE y - x + 1
    BY FS_Interval
  <2>2. TAKE k \in Nat
  <2>3. HAVE n <= k
  <2>4. n + 1 \in Int /\ k \in Int
    OBVIOUS
  <2>5. IsFiniteSet(n + 1..k) /\ Cardinality(n + 1..k) = IF n + 1 > k THEN 0 ELSE k - (n + 1) + 1
    BY <2>1, <2>4
  <2>6. (IF n + 1 > k THEN 0 ELSE k - (n + 1) + 1) = k - n
    BY <2>3
  <2> QED BY <2>5, <2>6
<1>5. IsFiniteSet(fresh) /\ IsFiniteSet(T) /\ Cardinality(T) \in Nat /\ Cardinality(T) <= L - n
  <2>1. IsFiniteSet(n + 1..L) /\ Cardinality(n + 1..L) = L - n
    BY <1>0, <1>4
  <2>2. T \subseteq n + 1..L
    BY <1>3
  <2>3. IsFiniteSet(fresh)
    BY <1>3, <2>1, FS_Subset
  <2>4. IsFiniteSet(T) /\ Cardinality(T) <= Cardinality(n + 1..L)
    BY <2>1, <2>2, FS_Subset
  <2>5. Cardinality(T) \in Nat
    BY <2>4, FS_CardinalityType
  <2> QED BY <2>1, <2>3, <2>4, <2>5
<1>6. \A i : IsFiniteSet(upto(i)) /\ Cardinality(upto(i)) \in Nat
  <2>1. \A i : IsFiniteSet(upto(i))
    BY <1>3, <1>5, FS_Subset
  <2> QED BY <2>1, FS_CardinalityType
<1>7. m \in Nat /\ m <= Cardinality(T)
  <2> DEFINE f == [i \in T |-> file[i].ev]
  <2>1. f \in Surjection(T, b)
    BY <1>d, <1>e DEF Surjection
  <2> HIDE DEF f, b
  <2>2. IsFiniteSet(b) /\ Cardinality(b) <= Cardinality(T)
    BY <1>5, <2>1, FS_Surjection
  <2> QED BY <2>1, <2>2, FS_CardinalityType DEF m
<1> HIDE DEF b
<1>8. Cardinality(T) <= BatchSize
  <2>1. CASE T = {}
    <3>1. Cardinality(T) = 0
      BY <2>1, FS_EmptySet
    <3> QED BY <1>0, <3>1
  <2>2. CASE T # {}
    <3>1. T \subseteq 0..L
      BY <1>0, <1>3
    <3>2. PICK q \in T : \A y \in T : y <= q
      BY <1>0, <2>2, <3>1, Greatest
    <3>3. T \subseteq upto(q)
      BY <1>3, <1>c, <3>2
    <3>4. Cardinality(T) <= Cardinality(upto(q))
      BY <1>6, <3>3, FS_Subset
    <3>5. Cardinality(upto(q)) <= BatchSize
      BY <1>3, <1>b, <3>2
    <3> QED BY <1>0, <1>5, <1>6, <3>4, <3>5
  <2> QED BY <2>1, <2>2
<1>9. ASSUME NEW i \in n + 1..n + m, file[i].key = Plain PROVE file[i].ev \in b
  <2> DEFINE same == {k \in n + 1..i : file[k] = file[i]}
  <2>1. i \in same /\ same \subseteq Nat /\ i <= L
    <3>1. i \in Nat /\ n + 1 <= i /\ i <= n + m /\ m <= L - n
      BY <1>0, <1>5, <1>7
    <3> QED BY <1>0, <1>7, <3>1
  <2>2. PICK j \in same : \A k \in same : j <= k
    BY <2>1, Least
  <2>3. j \in n + 1..i /\ file[j] = file[i] /\ \A k \in n + 1..j - 1 : file[k] # file[j]
    BY <2>2
  <2>4. j \in Nat /\ n + 1 <= j /\ j <= i /\ i <= n + m /\ i \in Nat
    BY <1>7, <2>3
  <2>5. j \in fresh
    BY <1>0, <1>9, <1>a, <2>1, <2>3, <2>4
  <2>6. upto(j) \subseteq n + 1..j
    <3>1. ASSUME NEW k \in upto(j) PROVE k \in n + 1..j
      <4>1. k \in n + 1..L /\ k <= j
        BY <1>3, <1>c
      <4> QED BY <1>0, <2>4, <4>1
    <3> QED BY <3>1
  <2>7. Cardinality(upto(j)) <= j - n
    <3>1. IsFiniteSet(n + 1..j) /\ Cardinality(n + 1..j) = j - n
      BY <1>4, <2>4
    <3>2. Cardinality(upto(j)) <= Cardinality(n + 1..j)
      BY <2>6, <3>1, FS_Subset
    <3> QED BY <3>1, <3>2
  <2>8. Cardinality(upto(j)) <= BatchSize
    <3>1. Cardinality(upto(j)) \in Nat
      BY <1>6
    <3> QED BY <1>0, <1>5, <1>7, <1>8, <2>4, <2>7, <3>1
  <2>9. j \in T
    BY <1>b, <2>5, <2>8
  <2> QED BY <1>d, <2>3, <2>9
<1>10. b \subseteq F!Events
  BY <1>0, <1>1, <1>3, <1>e
<1>11. n + m <= L
  BY <1>0, <1>5, <1>7
<1> QED BY <1>2, <1>7, <1>9, <1>10, <1>11 DEF L

\* The JSON lines among the first n are with the remote store of r.
Sent(r, n) == \A i \in 1..Len(file) : file[i].key = Plain /\ i <= n => file[i].ev \in uploaded[r]

\* The batch b covers the JSON lines it makes the task count after the first n.
Holds(n, b) == LET m == F!Cardinality(b)
               IN  /\ m \in Nat /\ n + m <= Len(file)
                   /\ \A i \in n + 1..n + m : file[i].key = Plain => file[i].ev \in b

TaskInv(r) == \/ rep[r] = F!Off
              \/ /\ rep[r] \in [pc : {"read", "save", "saving"}, offset : Nat]
                 /\ rep[r].offset <= Len(file) /\ Sent(r, rep[r].offset)
              \/ /\ rep[r] \in [pc : {"send"}, offset : Nat, batch : SUBSET F!Events, retries : Nat]
                 /\ rep[r].offset <= Len(file) /\ Sent(r, rep[r].offset)
                 /\ Holds(rep[r].offset, rep[r].batch)

SavedInv(r) == checkpoint[r] # F!Torn =>
                 checkpoint[r] \in Nat /\ checkpoint[r] <= Len(file) /\ Sent(r, checkpoint[r])

\* A purge that wrote has moved lines; what encryption writes is not JSON.
JobInv == /\ job.op = "purge" => job.at = "truncate"
          /\ job.op = "encrypt" => /\ job.rest \in Seq(AuditLine)
                                   /\ \A i \in 1..Len(job.rest) : job.rest[i].key # Plain

AuditInv == ~moved =>
  /\ file \in Seq(AuditLine) /\ exists = TRUE
  /\ JobInv
  /\ DOMAIN rep = Replicas /\ DOMAIN checkpoint = Replicas /\ DOMAIN uploaded = Replicas
  /\ \A r \in Replicas : TaskInv(r) /\ SavedInv(r)

\* A longer log whose lines are the old ones or no JSON keeps what is known of
\* a task that did nothing.
LEMMA GrowsKeeps ==
  ASSUME NEW r, file \in Seq(AuditLine), file' \in Seq(AuditLine), Len(file) <= Len(file'),
         \A i \in 1..Len(file) : file'[i] = file[i] \/ file'[i].key # Plain,
         rep[r]' = rep[r], checkpoint[r]' = checkpoint[r], uploaded[r]' = uploaded[r],
         TaskInv(r), SavedInv(r)
  PROVE  TaskInv(r)' /\ SavedInv(r)'
<1>0. Len(file) \in Nat /\ Len(file') \in Nat
  OBVIOUS
<1>1. ASSUME NEW n \in Nat, n <= Len(file), Sent(r, n) PROVE Sent(r, n)'
  BY <1>0, <1>1 DEF Sent
<1>2. ASSUME NEW n \in Nat, NEW b, Holds(n, b) PROVE Holds(n, b)'
  <2> DEFINE m == F!Cardinality(b)
  <2>1. m \in Nat /\ n + m <= Len(file) /\ \A i \in n + 1..n + m : file[i].key = Plain => file[i].ev \in b
    BY <1>2 DEF Holds
  <2> HIDE DEF m
  <2>2. n + m <= Len(file')
    BY <1>0, <2>1
  <2>3. ASSUME NEW i \in n + 1..n + m, file'[i].key = Plain PROVE file'[i].ev \in b
    <3>1. i \in 1..Len(file)
      BY <1>0, <2>1
    <3>2. file'[i] = file[i]
      BY <2>3, <3>1
    <3> QED BY <2>1, <2>3, <3>2
  <2> QED BY <2>1, <2>2, <2>3 DEF Holds, m
<1>3. SavedInv(r)'
  <2>1. CASE checkpoint[r] = F!Torn
    BY <2>1 DEF SavedInv, F!Torn
  <2>2. CASE checkpoint[r] # F!Torn
    <3>1. checkpoint[r] \in Nat /\ checkpoint[r] <= Len(file) /\ Sent(r, checkpoint[r])
      BY <2>2 DEF SavedInv
    <3> QED BY <1>0, <1>1, <3>1 DEF SavedInv
  <2> QED BY <2>1, <2>2
<1>4. TaskInv(r)'
  BY <1>0, <1>1, <1>2 DEF TaskInv, F!Off, F!Events
<1> QED BY <1>3, <1>4

\* What a step of a replication task keeps of it, and of its checkpoint.
LEMMA TaskStep ==
  ASSUME AuditAssumption, file \in Seq(AuditLine), exists = TRUE,
         DOMAIN rep = Replicas, DOMAIN checkpoint = Replicas, DOMAIN uploaded = Replicas,
         NEW r \in Replicas, TaskInv(r), SavedInv(r), F!Replicate(r)
  PROVE  TaskInv(r)' /\ SavedInv(r)' /\ file' = file
<1>0. Len(file) \in Nat /\ file' = file
  <2>1. F!Replicate(r) => F!logVars' = F!logVars
    BY DEF F!Replicate, F!Start, F!ReadBatch, F!Upload, F!UploadFails, F!SaveTruncate, F!SaveFails, F!Save
  <2> QED BY <2>1 DEF F!logVars
<1>1. CASE F!Start(r)
  <2>1. /\ rep[r]' = [pc |-> "read", offset |-> IF checkpoint[r] = F!Torn THEN 0 ELSE checkpoint[r]]
        /\ checkpoint' = checkpoint /\ uploaded' = uploaded
    BY <1>1 DEF F!Start
  <2>2. SavedInv(r)'
    BY <1>0, <2>1 DEF SavedInv, Sent, F!Torn
  <2>3. CASE checkpoint[r] = F!Torn
    <3>1. rep[r]' = [pc |-> "read", offset |-> 0]
      BY <2>1, <2>3
    <3>2. Sent(r, 0)
      BY DEF Sent
    <3> QED BY <1>0, <2>1, <2>2, <3>1, <3>2 DEF TaskInv, Sent
  <2>4. CASE checkpoint[r] # F!Torn
    <3>1. rep[r]' = [pc |-> "read", offset |-> checkpoint[r]]
      BY <2>1, <2>4
    <3>2. checkpoint[r] \in Nat /\ checkpoint[r] <= Len(file) /\ Sent(r, checkpoint[r])
      BY <2>4 DEF SavedInv
    <3> QED BY <1>0, <2>1, <2>2, <3>1, <3>2 DEF TaskInv, Sent
  <2> QED BY <1>0, <2>3, <2>4
<1>2. CASE F!ReadBatch(r)
  <2> DEFINE n == rep[r].offset
             b == F!Batch(n)
  <2>1. /\ rep[r]' = [pc |-> "send", offset |-> n, batch |-> b, retries |-> 0]
        /\ checkpoint' = checkpoint /\ uploaded' = uploaded
    BY <1>2 DEF F!ReadBatch
  <2>2. n \in Nat /\ n <= Len(file) /\ Sent(r, n)
    BY <1>2 DEF TaskInv, F!ReadBatch, F!Off
  <2>3. Holds(n, b) /\ b \subseteq F!Events
    BY <2>2, BatchCovers DEF Holds
  <2> HIDE DEF n, b
  <2>4. SavedInv(r)'
    BY <1>0, <2>1 DEF SavedInv, Sent, F!Torn
  <2>5. /\ rep[r]' \in [pc : {"send"}, offset : Nat, batch : SUBSET F!Events, retries : Nat]
        /\ rep[r].offset' = n /\ rep[r].batch' = b
    BY <2>1, <2>2, <2>3
  <2>6. Sent(r, rep[r].offset)' /\ Holds(rep[r].offset, rep[r].batch)'
    BY <1>0, <2>1, <2>2, <2>3, <2>5 DEF Sent, Holds
  <2>7. TaskInv(r)'
    BY <1>0, <2>2, <2>5, <2>6 DEF TaskInv, F!Events
  <2> QED BY <1>0, <2>4, <2>7
<1>3. CASE F!Upload(r)
  <2> DEFINE n == rep[r].offset
             b == rep[r].batch
             m == F!Cardinality(b)
  <2>1. /\ rep[r]' = [pc |-> "save", offset |-> n + m]
        /\ checkpoint' = checkpoint /\ uploaded'[r] = uploaded[r] \cup b
    BY <1>3 DEF F!Upload
  <2>2. n \in Nat /\ n <= Len(file) /\ Sent(r, n) /\ Holds(n, b)
    BY <1>3 DEF TaskInv, F!Upload, F!Off
  <2>3. /\ m \in Nat /\ n + m <= Len(file)
        /\ \A i \in n + 1..n + m : file[i].key = Plain => file[i].ev \in b
    BY <2>2 DEF Holds
  <2> HIDE DEF n, b, m
  <2>4. ASSUME NEW i \in 1..Len(file), file[i].key = Plain, i <= n + m PROVE file[i].ev \in uploaded'[r]
    <3>1. CASE i <= n
      BY <2>1, <2>2, <2>4, <3>1 DEF Sent
    <3>2. CASE ~ (i <= n)
      <4>1. i \in n + 1..n + m
        BY <1>0, <2>2, <2>3, <2>4, <3>2
      <4> QED BY <2>1, <2>3, <2>4, <4>1
    <3> QED BY <3>1, <3>2
  <2>5. SavedInv(r)'
    BY <1>0, <2>1 DEF SavedInv, Sent, F!Torn
  <2>6. TaskInv(r)'
    <3>1. Sent(r, rep[r].offset)'
      BY <1>0, <2>1, <2>4 DEF Sent
    <3>2. rep[r]' \in [pc : {"read", "save", "saving"}, offset : Nat] /\ rep[r].offset' <= Len(file')
      BY <1>0, <2>1, <2>2, <2>3
    <3> QED BY <3>1, <3>2 DEF TaskInv
  <2> QED BY <1>0, <2>5, <2>6
<1>4. CASE F!UploadFails(r)
  <2>1. /\ checkpoint' = checkpoint /\ uploaded' = uploaded
        /\ rep[r]' = IF rep[r].retries < MaxRetries
                       THEN [rep[r] EXCEPT !.retries = @ + 1]
                       ELSE [pc |-> "read", offset |-> rep[r].offset]
    BY <1>4 DEF F!UploadFails
  <2>2. /\ rep[r] \in [pc : {"send"}, offset : Nat, batch : SUBSET F!Events, retries : Nat]
        /\ rep[r].offset <= Len(file) /\ Sent(r, rep[r].offset) /\ Holds(rep[r].offset, rep[r].batch)
    BY <1>4 DEF TaskInv, F!UploadFails, F!Off
  <2>3. SavedInv(r)'
    BY <1>0, <2>1 DEF SavedInv, Sent, F!Torn
  <2>4. CASE rep[r].retries < MaxRetries
    <3>1. /\ rep[r]' \in [pc : {"send"}, offset : Nat, batch : SUBSET F!Events, retries : Nat]
          /\ rep[r].offset' = rep[r].offset /\ rep[r].batch' = rep[r].batch
      BY <2>1, <2>2, <2>4
    <3>2. Sent(r, rep[r].offset)' /\ Holds(rep[r].offset, rep[r].batch)'
      BY <1>0, <2>1, <2>2, <3>1 DEF Sent, Holds
    <3>3. TaskInv(r)'
      BY <1>0, <2>2, <3>1, <3>2 DEF TaskInv, F!Events
    <3> QED BY <1>0, <2>3, <3>3
  <2>5. CASE ~ (rep[r].retries < MaxRetries)
    <3>1. rep[r]' = [pc |-> "read", offset |-> rep[r].offset]
      BY <2>1, <2>5
    <3>2. TaskInv(r)'
      BY <1>0, <2>1, <2>2, <3>1 DEF TaskInv, Sent
    <3> QED BY <1>0, <2>3, <3>2
  <2> QED BY <2>4, <2>5
<1>5. CASE F!SaveTruncate(r)
  <2>1. /\ rep[r]' = [rep[r] EXCEPT !.pc = "saving"] /\ uploaded' = uploaded
        /\ checkpoint[r]' = F!Torn
    BY <1>5 DEF F!SaveTruncate
  <2>2. rep[r] \in [pc : {"read", "save", "saving"}, offset : Nat] /\ rep[r].offset <= Len(file) /\ Sent(r, rep[r].offset)
    BY <1>5 DEF TaskInv, F!SaveTruncate, F!Off
  <2>3. rep[r]' = [pc |-> "saving", offset |-> rep[r].offset]
    BY <2>1, <2>2
  <2> QED BY <1>0, <2>1, <2>2, <2>3 DEF TaskInv, SavedInv, Sent, F!Torn
<1>6. CASE F!SaveFails(r)
  <2>1. /\ rep[r]' = [pc |-> "read", offset |-> rep[r].offset] /\ uploaded' = uploaded
        /\ checkpoint' = checkpoint
    BY <1>6 DEF F!SaveFails
  <2>2. rep[r] \in [pc : {"read", "save", "saving"}, offset : Nat] /\ rep[r].offset <= Len(file) /\ Sent(r, rep[r].offset)
    BY <1>6 DEF TaskInv, F!SaveFails, F!Off
  <2> QED BY <1>0, <2>1, <2>2 DEF TaskInv, SavedInv, Sent, F!Torn
<1>7. CASE F!Save(r)
  <2>1. /\ rep[r]' = [pc |-> "read", offset |-> rep[r].offset] /\ uploaded' = uploaded
        /\ checkpoint[r]' = rep[r].offset
    BY <1>7 DEF F!Save
  <2>2. rep[r] \in [pc : {"read", "save", "saving"}, offset : Nat] /\ rep[r].offset <= Len(file) /\ Sent(r, rep[r].offset)
    BY <1>7 DEF TaskInv, F!Save, F!Off
  <2> QED BY <1>0, <2>1, <2>2 DEF TaskInv, SavedInv, Sent, F!Torn
<1> QED BY <1>1, <1>2, <1>3, <1>4, <1>5, <1>6, <1>7 DEF F!Replicate

\* What a maintenance step leaves of the log when it moves no line.
LEMMA MaintainKeeps ==
  ASSUME AuditAssumption, file \in Seq(AuditLine), exists = TRUE, JobInv, F!Maintain, ~moved'
  PROVE  /\ file' \in Seq(AuditLine) /\ exists' = TRUE /\ JobInv'
         /\ Len(file) <= Len(file')
         /\ \A i \in 1..Len(file) : file'[i] = file[i] \/ file'[i].key # Plain
         /\ rep' = rep /\ checkpoint' = checkpoint /\ uploaded' = uploaded
<1>0. Len(file) \in Nat /\ Plain \notin Pair /\ Plain # Garbage
  BY DEF AuditAssumption
<1>1. CASE F!PurgeRead
  <2>1. job'.op = "purge" /\ job'.at = "truncate"
    BY <1>1 DEF F!PurgeRead
  <2> QED BY <1>0, <1>1, <2>1 DEF F!PurgeRead, F!logVars, F!repVars, JobInv
<1>2. CASE F!PurgeTruncate \/ F!RotateCreate \/ F!RotateRename
  BY <1>2 DEF F!PurgeTruncate, F!RotateCreate, F!RotateRename
<1>3. CASE F!PurgeWrite
  BY <1>3 DEF F!PurgeWrite, JobInv
<1>4. CASE F!EncryptRead
  <2>1. PICK k \in Pair : job' = [op |-> "encrypt", keys |-> <<k>>, rest |-> F!Encrypted(file, k)]
    BY <1>4 DEF F!EncryptRead
  <2> DEFINE e == F!Encrypted(file, k)
  <2>2. \A i \in 1..Len(file) : file[i] \in AuditLine
    OBVIOUS
  <2>3. \A i \in 1..Len(file) : e[i] \in AuditLine /\ e[i].key # Plain
    BY <1>0, <2>2 DEF AuditLine, F!Encrypted, F!Line
  <2>4. DOMAIN e = 1..Len(file) /\ e = [i \in 1..Len(file) |-> e[i]]
    BY DEF F!Encrypted
  <2> HIDE DEF e
  <2>5. e \in [1..Len(file) -> AuditLine]
    BY <2>3, <2>4
  <2>6. e \in Seq(AuditLine) /\ Len(e) = Len(file)
    BY <1>0, <2>5
  <2>7. job'.op = "encrypt" /\ job'.rest = e
    BY <2>1 DEF e
  <2>8. JobInv'
    BY <2>3, <2>6, <2>7 DEF JobInv
  <2> QED BY <1>0, <1>4, <2>8 DEF F!EncryptRead, F!logVars, F!repVars
<1>5. CASE F!RotateKeyRead
  <2>1. PICK k \in Pair : job' = [op |-> "encrypt", keys |-> <<k>> \o enc,
                                  rest |-> [i \in 1..Len(file) |-> F!Line(file[i].ev, k)]]
    BY <1>5 DEF F!RotateKeyRead
  <2> DEFINE e == [i \in 1..Len(file) |-> F!Line(file[i].ev, k)]
  <2>2. \A i \in 1..Len(file) : file[i] \in AuditLine
    OBVIOUS
  <2>3. \A i \in 1..Len(file) : e[i] \in AuditLine /\ e[i].key # Plain
    BY <1>0, <2>2 DEF AuditLine, F!Line
  <2>4. DOMAIN e = 1..Len(file) /\ e = [i \in 1..Len(file) |-> e[i]]
    OBVIOUS
  <2>7. job'.op = "encrypt" /\ job'.rest = e
    BY <2>1
  <2> HIDE DEF e
  <2>5. e \in [1..Len(file) -> AuditLine]
    BY <2>3, <2>4
  <2>6. e \in Seq(AuditLine) /\ Len(e) = Len(file)
    BY <1>0, <2>5
  <2>8. JobInv'
    BY <2>3, <2>6, <2>7 DEF JobInv
  <2> QED BY <1>0, <1>5, <2>8 DEF F!RotateKeyRead, F!logVars, F!repVars
<1>6. CASE F!Replace
  <2>1. /\ file' = job.rest /\ exists' = TRUE /\ job.op = "encrypt" /\ job' = F!Idle
        /\ ~ (Len(job.rest) < Len(file))
        /\ rep' = rep /\ checkpoint' = checkpoint /\ uploaded' = uploaded
    BY <1>6 DEF F!Replace, F!repVars
  <2>2. job.rest \in Seq(AuditLine) /\ \A i \in 1..Len(job.rest) : job.rest[i].key # Plain
    BY <2>1 DEF JobInv
  <2>3. JobInv'
    BY <2>1 DEF JobInv, F!Idle
  <2>4. Len(job.rest) \in Nat
    BY <2>2
  <2> QED BY <1>0, <2>1, <2>2, <2>3, <2>4
<1>7. CASE F!RotateRemove
  <2>1. job'.op = "rotate"
    BY <1>7 DEF F!RotateRemove
  <2> QED BY <1>0, <1>7, <2>1 DEF F!RotateRemove, F!logVars, F!repVars, JobInv
<1>8. CASE F!Configure
  BY <1>0, <1>8 DEF F!Configure, F!logVars, F!repVars, JobInv
<1> QED BY <1>1, <1>2, <1>3, <1>4, <1>5, <1>6, <1>7, <1>8 DEF F!Maintain

\* As long as no line has moved, no JSON line below the offset or the
\* checkpoint of a replication task is missing in its remote store, for any
\* number of tasks, lines, retries and crashes.
LEMMA CheckpointsSafe == AuditAssumption => (F!Spec => []F!CheckpointSound)
<1> SUFFICES ASSUME AuditAssumption PROVE F!Spec => []F!CheckpointSound
  OBVIOUS
<1>1. F!Init => AuditInv
  <2> SUFFICES ASSUME F!Init PROVE AuditInv
    OBVIOUS
  <2>1. /\ file = <<>> /\ exists = TRUE /\ job = F!Idle
        /\ DOMAIN rep = Replicas /\ DOMAIN checkpoint = Replicas /\ DOMAIN uploaded = Replicas
        /\ \A r \in Replicas : rep[r] = F!Off /\ checkpoint[r] = F!Torn
    BY DEF F!Init
  <2>2. JobInv
    BY <2>1 DEF JobInv, F!Idle
  <2>3. \A r \in Replicas : TaskInv(r) /\ SavedInv(r)
    BY <2>1 DEF TaskInv, SavedInv
  <2> QED BY <2>1, <2>2, <2>3 DEF AuditInv
<1>2. AuditInv /\ [F!Next]_F!vars => AuditInv'
  <2> SUFFICES ASSUME AuditInv, [F!Next]_F!vars, ~moved' PROVE AuditInv'
    BY DEF AuditInv
  <2>1. ~moved
    BY DEF F!Next, F!vars, F!write, F!Maintain, F!PurgeRead, F!PurgeTruncate, F!PurgeWrite, F!EncryptRead,
           F!RotateKeyRead, F!Replace, F!RotateRemove, F!RotateRename, F!RotateCreate, F!Configure, F!Crash,
           F!Replicate, F!Start, F!ReadBatch, F!Upload, F!UploadFails, F!SaveTruncate, F!SaveFails, F!Save
  <2>2. /\ file \in Seq(AuditLine) /\ exists = TRUE /\ JobInv
        /\ DOMAIN rep = Replicas /\ DOMAIN checkpoint = Replicas /\ DOMAIN uploaded = Replicas
        /\ \A r \in Replicas : TaskInv(r) /\ SavedInv(r)
    BY <2>1 DEF AuditInv
  <2>3. ASSUME NEW e \in F!Events, F!write(e) PROVE AuditInv'
    <3>1. /\ file' = file \o <<F!Line(e, Plain)>> /\ exists' = TRUE /\ job' = job
          /\ rep' = rep /\ checkpoint' = checkpoint /\ uploaded' = uploaded
      BY <2>2, <2>3 DEF F!write, F!repVars
    <3>2. F!Line(e, Plain) \in AuditLine
      BY DEF F!Line, AuditLine
    <3>3. /\ file' \in Seq(AuditLine) /\ Len(file) <= Len(file')
          /\ \A i \in 1..Len(file) : file'[i] = file[i]
      BY <2>2, <3>1, <3>2
    <3>4. \A r \in Replicas : TaskInv(r)' /\ SavedInv(r)'
      BY <2>2, <3>1, <3>3, GrowsKeeps
    <3>5. JobInv'
      BY <2>2, <3>1 DEF JobInv
    <3> QED BY <2>2, <3>1, <3>3, <3>4, <3>5 DEF AuditInv
  <2>4. CASE F!Maintain
    <3>1. /\ file' \in Seq(AuditLine) /\ exists' = TRUE /\ JobInv'
          /\ Len(file) <= Len(file')
          /\ \A i \in 1..Len(file) : file'[i] = file[i] \/ file'[i].key # Plain
          /\ rep' = rep /\ checkpoint' = checkpoint /\ uploaded' = uploaded
      BY <2>2, <2>4, MaintainKeeps
    <3>2. \A r \in Replicas : TaskInv(r)' /\ SavedInv(r)'
      BY <2>2, <3>1, GrowsKeeps
    <3> QED BY <2>2, <3>1, <3>2 DEF AuditInv
  <2>5. ASSUME NEW r \in Replicas, F!Replicate(r) PROVE AuditInv'
    <3>1. TaskInv(r)' /\ SavedInv(r)' /\ file' = file
      BY <2>2, <2>5, TaskStep
    <3>2. /\ exists' = exists /\ job' = job
          /\ DOMAIN rep' = Replicas /\ DOMAIN checkpoint' = Replicas /\ DOMAIN uploaded' = Replicas
          /\ \A q \in Replicas \ {r} : rep[q]' = rep[q] /\ checkpoint[q]' = checkpoint[q] /\ uploaded[q]' = uploaded[q]
      BY <2>2, <2>5 DEF F!Replicate, F!Start, F!ReadBatch, F!Upload, F!UploadFails, F!SaveTruncate, F!SaveFails,
                        F!Save, F!logVars
    <3>3. Len(file) \in Nat /\ file' \in Seq(AuditLine)
      BY <2>2, <3>1
    <3>4. \A q \in Replicas \ {r} : TaskInv(q)' /\ SavedInv(q)'
      BY <2>2, <3>1, <3>2, <3>3, GrowsKeeps
    <3>5. JobInv'
      BY <2>2, <3>2 DEF JobInv
    <3> QED BY <2>2, <3>1, <3>2, <3>3, <3>4, <3>5 DEF AuditInv
  <2>6. CASE F!Crash
    <3>1. /\ file' = file /\ exists' = TRUE /\ job' = F!Idle /\ rep' = [r \in Replicas |-> F!Off]
          /\ checkpoint' = checkpoint /\ uploaded' = uploaded
      BY <2>6 DEF F!Crash
    <3>2. JobInv'
      BY <3>1 DEF JobInv, F!Idle
    <3>3. \A r \in Replicas : TaskInv(r)'
      BY <3>1 DEF TaskInv, F!Off
    <3>4. \A r \in Replicas : SavedInv(r)'
      BY <2>2, <3>1 DEF SavedInv, Sent, F!Torn
    <3> QED BY <2>2, <3>1, <3>2, <3>3, <3>4 DEF AuditInv
  <2>7. CASE UNCHANGED F!vars
    <3>1. /\ file' = file /\ exists' = exists /\ job' = job /\ rep' = rep
          /\ checkpoint' = checkpoint /\ uploaded' = uploaded
      BY <2>7 DEF F!vars
    <3>2. \A r \in Replicas : TaskInv(r)' /\ SavedInv(r)'
      BY <2>2, <3>1, GrowsKeeps
    <3>3. JobInv'
      BY <2>2, <3>1 DEF JobInv
    <3> QED BY <2>2, <3>1, <3>2, <3>3 DEF AuditInv
  <2> QED BY <2>3, <2>4, <2>5, <2>6, <2>7 DEF F!Next
<1>3. AuditInv => F!CheckpointSound
  <2> SUFFICES ASSUME AuditInv, ~moved, NEW r \in Replicas, NEW i \in 1..Len(file), file[i].key = Plain
               PROVE  /\ checkpoint[r] # F!Torn /\ i <= checkpoint[r] => file[i].ev \in uploaded[r]
                      /\ rep[r].pc # "off" /\ i <= rep[r].offset => file[i].ev \in uploaded[r]
    BY DEF F!CheckpointSound
  <2>1. TaskInv(r) /\ SavedInv(r)
    BY DEF AuditInv
  <2>2. checkpoint[r] # F!Torn /\ i <= checkpoint[r] => file[i].ev \in uploaded[r]
    BY <2>1 DEF SavedInv, Sent
  <2>3. rep[r].pc # "off" /\ i <= rep[r].offset => file[i].ev \in uploaded[r]
    BY <2>1 DEF TaskInv, Sent, F!Off
  <2> QED BY <2>2, <2>3
<1> QED BY <1>1, <1>2, <1>3, PTL DEF F!Spec

-----------------------------------------------------------------------------
(* Approvals.                                                              *)

ApprovalAssumption == /\ IsFiniteSet(Pair) /\ Pair # {}
                      /\ MaxPending \in Nat /\ Expiration \in Nat /\ MaxIds \in Nat

Request == [id : 1..MaxIds, plugin : Pair, cap : Capabilities, expires : Nat,
            status : {"Pending", "Approved", "Denied", "Expired"}]

\* The threads with a request in hand, that goes to a map or to a list.
Holding == {t \in Pair : task[t].at \in {"store", "grant"}}
Storing(p) == {t \in Pair : task[t].at = "store" /\ task[t].new.plugin = p}
PendingOf(p) == {a \in pending : a.plugin = p}

ApprovalTypes ==
  /\ pending \subseteq Request /\ IsFiniteSet(pending) /\ approved \in Seq(Request)
  /\ task \in [Pair -> {A!Idle} \cup [at : {"store", "grant"}, new : Request] \cup [at : {"clean"}, new : Nat]]
  /\ ids \in Nat /\ day \in Nat /\ DOMAIN decided = 1..MaxIds

\* The number of a request is used, and found in one place.
OnePlace ==
  /\ \A a \in pending : a.id <= ids
  /\ \A i \in DOMAIN approved : approved[i].id <= ids
  /\ \A t \in Holding : task[t].new.id <= ids
  /\ \A a, b \in pending : a.id = b.id => a = b
  /\ \A i, j \in DOMAIN approved : approved[i].id = approved[j].id => i = j
  /\ \A t, u \in Holding : task[t].new.id = task[u].new.id => t = u
  /\ \A a \in pending, i \in DOMAIN approved : a.id # approved[i].id
  /\ \A a \in pending, t \in Holding : a.id # task[t].new.id
  /\ \A i \in DOMAIN approved, t \in Holding : approved[i].id # task[t].new.id

InForce ==
  /\ \A i \in DOMAIN approved : approved[i].status = "Approved" => decided[approved[i].id] = "approved"
  /\ \A t \in Pair : task[t].at = "grant" => decided[task[t].new.id] = "approved"

\* A thread that passed the check counts against the limit until it is through.
WithinLimit == \A p : Cardinality(PendingOf(p)) + Cardinality(Storing(p)) <= MaxPending + Cardinality(Pair) - 1

ApprovalInv == ApprovalTypes /\ OnePlace /\ InForce /\ WithinLimit

LEMMA ApprovalsFinite ==
  ASSUME ApprovalAssumption, NEW p
  PROVE  /\ Cardinality(Pair) \in Nat /\ Cardinality(Pair) >= 1
         /\ IsFiniteSet(Storing(p)) /\ Cardinality(Storing(p)) \in Nat
         /\ IsFiniteSet(pending) => IsFiniteSet(PendingOf(p)) /\ Cardinality(PendingOf(p)) \in Nat
<1>1. IsFiniteSet(Pair) /\ Pair # {}
  BY DEF ApprovalAssumption
<1>2. Cardinality(Pair) \in Nat /\ Cardinality(Pair) # 0
  BY <1>1, FS_CardinalityType, FS_EmptySet
<1>3. Storing(p) \subseteq Pair /\ PendingOf(p) \subseteq pending
  BY DEF Storing, PendingOf
<1>4. IsFiniteSet(Storing(p)) /\ Cardinality(Storing(p)) \in Nat
  BY <1>1, <1>3, FS_Subset, FS_CardinalityType
<1>5. IsFiniteSet(pending) => IsFiniteSet(PendingOf(p)) /\ Cardinality(PendingOf(p)) \in Nat
  BY <1>3, FS_Subset, FS_CardinalityType
<1> QED BY <1>2, <1>4, <1>5

\* Where neither set gains an element the limit is kept.
LEMMA LimitShrinks ==
  ASSUME ApprovalAssumption, IsFiniteSet(pending), WithinLimit, NEW p,
         PendingOf(p)' \subseteq PendingOf(p), Storing(p)' \subseteq Storing(p)
  PROVE  (Cardinality(PendingOf(p)) + Cardinality(Storing(p)) <= MaxPending + Cardinality(Pair) - 1)'
<1> DEFINE a == PendingOf(p)
           b == Storing(p)
           c == Cardinality(Pair)
<1>1. /\ IsFiniteSet(a) /\ IsFiniteSet(b) /\ Cardinality(a) \in Nat /\ Cardinality(b) \in Nat
      /\ c \in Nat /\ MaxPending \in Nat
  BY ApprovalsFinite DEF ApprovalAssumption
<1>2. Cardinality(a) + Cardinality(b) <= MaxPending + c - 1
  BY DEF WithinLimit
<1> DEFINE x == a'
           y == b'
<1>3. x \subseteq a /\ y \subseteq b
  OBVIOUS
<1> HIDE DEF x, y, a, b, c
<1>4. Cardinality(x) \in Nat /\ Cardinality(y) \in Nat /\ Cardinality(x) <= Cardinality(a) /\ Cardinality(y) <= Cardinality(b)
  BY <1>1, <1>3, FS_Subset, FS_CardinalityType
<1>5. Cardinality(x) + Cardinality(y) <= MaxPending + c - 1
  BY <1>1, <1>2, <1>4
<1> QED BY <1>5 DEF x, y, a, b, c

LEMMA RequestStep ==
  ASSUME ApprovalAssumption, ApprovalInv, NEW t \in Pair, NEW p \in Pair, NEW c \in Capabilities,
         A!request_approval(t, p, c)
  PROVE  ApprovalInv'
<1> USE DEF ApprovalInv
<1> DEFINE new == [id |-> ids + 1, plugin |-> p, cap |-> c, expires |-> day + Expiration, status |-> "Pending"]
<1>1. /\ task[t] = A!Idle /\ ids < MaxIds /\ ids' = ids + 1
      /\ Cardinality(PendingOf(p)) < MaxPending
      /\ task' = [task EXCEPT ![t] = [at |-> "store", new |-> new]]
      /\ pending' = pending /\ approved' = approved /\ day' = day /\ decided' = decided
  BY SameCardinality DEF A!request_approval, PendingOf
<1>2. new \in Request /\ new.id = ids + 1 /\ new.plugin = p
  BY <1>1 DEF ApprovalTypes, ApprovalAssumption, Request
<1> HIDE DEF new
<1>3. ApprovalTypes'
  BY <1>1, <1>2 DEF ApprovalTypes, Request
<1>4. /\ task'[t].at = "store" /\ task'[t].new = new /\ task[t].at = "idle"
      /\ \A u \in Pair \ {t} : task'[u] = task[u]
  BY <1>1 DEF ApprovalTypes, A!Idle
<1>5. t \notin Holding /\ Holding' = Holding \cup {t}
  BY <1>4 DEF Holding
<1>6. OnePlace'
  <2>1. /\ \A a \in pending : a.id \in Nat /\ a.id <= ids
        /\ \A i \in DOMAIN approved : approved[i].id \in Nat /\ approved[i].id <= ids
        /\ \A u \in Holding : task[u].new.id \in Nat /\ task[u].new.id <= ids
    <3>1. \A r \in Request : r.id \in Nat
      BY DEF Request
    <3>2. \A u \in Holding : task[u].new \in Request
      BY DEF ApprovalTypes, Holding, A!Idle
    <3>3. \A i \in DOMAIN approved : approved[i] \in Request
      BY DEF ApprovalTypes
    <3> QED BY <3>1, <3>2, <3>3 DEF OnePlace, ApprovalTypes
  <2>2. ids \in Nat
    BY DEF ApprovalTypes
  <2>3. \A u \in Holding : task'[u] = task[u]
    BY <1>4, <1>5 DEF Holding
  <2> QED BY <1>1, <1>2, <1>4, <1>5, <2>1, <2>2, <2>3 DEF OnePlace
<1>7. InForce'
  BY <1>1, <1>4 DEF InForce
<1>8. WithinLimit'
  <2> SUFFICES ASSUME NEW q PROVE (Cardinality(PendingOf(q)) + Cardinality(Storing(q)) <= MaxPending + Cardinality(Pair) - 1)'
    BY DEF WithinLimit
  <2>1. PendingOf(q)' = PendingOf(q)
    BY <1>1 DEF PendingOf
  <2>2. CASE q # p
    <3>1. Storing(q)' \subseteq Storing(q)
      BY <1>2, <1>4, <2>2 DEF Storing
    <3>2. IsFiniteSet(pending)
      BY DEF ApprovalTypes
    <3> QED BY <2>1, <3>1, <3>2, LimitShrinks
  <2>3. CASE q = p
    <3> DEFINE y == Storing(q)'
    <3>1. y \subseteq Pair /\ IsFiniteSet(Pair) /\ IsFiniteSet(pending) /\ MaxPending \in Nat
      BY DEF Storing, ApprovalAssumption, ApprovalTypes
    <3>2. Cardinality(PendingOf(q)) \in Nat /\ Cardinality(PendingOf(q)) < MaxPending /\ Cardinality(Pair) \in Nat
      BY <1>1, <2>3, <3>1, ApprovalsFinite
    <3> HIDE DEF y
    <3>3. Cardinality(y) \in Nat /\ Cardinality(y) <= Cardinality(Pair)
      BY <3>1, FS_Subset, FS_CardinalityType
    <3>4. Cardinality(PendingOf(q)) + Cardinality(y) <= MaxPending + Cardinality(Pair) - 1
      BY <3>1, <3>2, <3>3
    <3> QED BY <2>1, <3>4 DEF y
  <2> QED BY <2>2, <2>3
<1> QED BY <1>3, <1>6, <1>7, <1>8

LEMMA StoreStep ==
  ASSUME ApprovalAssumption, ApprovalInv, NEW t \in Pair, A!StorePending(t)
  PROVE  ApprovalInv'
<1> USE DEF ApprovalInv
<1> DEFINE x == task[t].new
<1>1. /\ task[t].at = "store" /\ pending' = pending \cup {x}
      /\ task' = [task EXCEPT ![t] = A!Idle]
      /\ ids' = ids /\ approved' = approved /\ day' = day /\ decided' = decided
  BY DEF A!StorePending
<1>2. x \in Request /\ t \in Holding
  BY <1>1 DEF ApprovalTypes, Holding, A!Idle
<1>3. /\ task'[t].at = "idle" /\ \A u \in Pair \ {t} : task'[u] = task[u]
  BY <1>1 DEF ApprovalTypes, A!Idle
<1>4. Holding' = Holding \ {t}
  BY <1>3 DEF Holding
<1>5. x \notin pending
  BY <1>2 DEF OnePlace
<1> HIDE DEF x
<1>6. ApprovalTypes'
  <2>1. IsFiniteSet(pending \cup {x})
    BY FS_AddElement DEF ApprovalTypes
  <2> QED BY <1>1, <1>2, <2>1 DEF ApprovalTypes, Request
<1>7. OnePlace'
  <2>1. \A u \in Holding \ {t} : task'[u] = task[u] /\ task[u].new.id # x.id
    BY <1>2, <1>3 DEF OnePlace, Holding, x
  <2>2. /\ x.id <= ids /\ \A a \in pending : a.id # x.id
        /\ \A i \in DOMAIN approved : approved[i].id # x.id
    BY <1>2 DEF OnePlace, x
  <2> QED BY <1>1, <1>4, <2>1, <2>2 DEF OnePlace
<1>8. InForce'
  BY <1>1, <1>3 DEF InForce
<1>9. WithinLimit'
  <2> SUFFICES ASSUME NEW q PROVE (Cardinality(PendingOf(q)) + Cardinality(Storing(q)) <= MaxPending + Cardinality(Pair) - 1)'
    BY DEF WithinLimit
  <2>0. IsFiniteSet(pending) /\ MaxPending \in Nat
    BY DEF ApprovalTypes, ApprovalAssumption
  <2>1. CASE q # x.plugin
    <3>1. PendingOf(q)' \subseteq PendingOf(q)
      BY <1>1, <2>1 DEF PendingOf
    <3>2. Storing(q)' \subseteq Storing(q)
      BY <1>3 DEF Storing
    <3> QED BY <2>0, <3>1, <3>2, LimitShrinks
  <2>2. CASE q = x.plugin
    <3> DEFINE a == PendingOf(q)
               b == Storing(q)
               c == Cardinality(Pair)
    <3>1. PendingOf(q)' = a \cup {x}
      BY <1>1, <2>2 DEF PendingOf
    <3>2. Storing(q)' = b \ {t} /\ t \in b
      BY <1>1, <1>3, <2>2 DEF Storing, x
    <3>3. x \notin a
      BY <1>5 DEF PendingOf
    <3>4. IsFiniteSet(a) /\ IsFiniteSet(b) /\ Cardinality(a) \in Nat /\ Cardinality(b) \in Nat /\ c \in Nat
      BY <2>0, ApprovalsFinite
    <3>5. Cardinality(a) + Cardinality(b) <= MaxPending + c - 1
      BY DEF WithinLimit
    <3> HIDE DEF a, b, c
    <3>6. Cardinality(a \cup {x}) = Cardinality(a) + 1
      BY <3>3, <3>4, FS_AddElement
    <3>7. Cardinality(b \ {t}) = Cardinality(b) - 1
      BY <3>2, <3>4, FS_RemoveElement
    <3>8. Cardinality(a \cup {x}) + Cardinality(b \ {t}) <= MaxPending + c - 1
      BY <3>4, <3>5, <3>6, <3>7
    <3> QED BY <3>1, <3>2, <3>8 DEF c
  <2> QED BY <2>1, <2>2
<1> QED BY <1>6, <1>7, <1>8, <1>9

LEMMA ApproveStep ==
  ASSUME ApprovalAssumption, ApprovalInv, NEW t \in Pair, NEW a \in pending, A!approve(t, a)
  PROVE  ApprovalInv'
<1> USE DEF ApprovalInv
<1> DEFINE x == [a EXCEPT !.status = "Approved"]
<1>1. /\ task[t] = A!Idle /\ pending' = pending \ {a}
      /\ task' = [task EXCEPT ![t] = [at |-> "grant", new |-> x]]
      /\ decided' = [decided EXCEPT ![a.id] = "approved"]
      /\ ids' = ids /\ approved' = approved /\ day' = day
  BY DEF A!approve
<1>2. a \in Request /\ x \in Request /\ x.id = a.id /\ a.id \in 1..MaxIds
  BY DEF ApprovalTypes, Request
<1> HIDE DEF x
<1>3. /\ task'[t].at = "grant" /\ task'[t].new = x /\ task[t].at = "idle"
      /\ \A u \in Pair \ {t} : task'[u] = task[u]
  BY <1>1 DEF ApprovalTypes, A!Idle
<1>4. t \notin Holding /\ Holding' = Holding \cup {t}
  BY <1>3 DEF Holding
<1>5. ApprovalTypes'
  <2>1. IsFiniteSet(pending \ {a})
    BY FS_RemoveElement DEF ApprovalTypes
  <2> QED BY <1>1, <1>2, <2>1 DEF ApprovalTypes, Request
<1>6. OnePlace'
  <2>1. \A u \in Holding : task'[u] = task[u] /\ task[u].new.id # x.id
    BY <1>2, <1>3, <1>4 DEF OnePlace, Holding
  <2>2. /\ x.id <= ids /\ \A b \in pending \ {a} : b.id # x.id
        /\ \A i \in DOMAIN approved : approved[i].id # x.id
    BY <1>2 DEF OnePlace
  <2> QED BY <1>1, <1>3, <1>4, <2>1, <2>2 DEF OnePlace
<1>7. InForce'
  <2>1. \A i \in DOMAIN approved : decided'[approved[i].id] = decided[approved[i].id]
    <3>1. \A i \in DOMAIN approved : approved[i].id \in 1..MaxIds /\ approved[i].id # a.id
      <4>1. \A i \in DOMAIN approved : approved[i] \in Request
        BY DEF ApprovalTypes
      <4>2. \A r \in Request : r.id \in 1..MaxIds
        BY DEF Request
      <4> QED BY <4>1, <4>2 DEF OnePlace
    <3> QED BY <1>1, <3>1 DEF ApprovalTypes
  <2>2. \A u \in Pair \ {t} : task[u].at = "grant" => decided'[task[u].new.id] = decided[task[u].new.id]
    <3>1. \A u \in Pair \ {t} : task[u].at = "grant" => task[u].new.id \in 1..MaxIds /\ task[u].new.id # a.id
      BY DEF OnePlace, ApprovalTypes, Request, Holding, A!Idle
    <3> QED BY <1>1, <3>1 DEF ApprovalTypes
  <2>3. decided'[x.id] = "approved"
    BY <1>1, <1>2 DEF ApprovalTypes
  <2> QED BY <1>1, <1>3, <2>1, <2>2, <2>3 DEF InForce
<1>8. WithinLimit'
  <2>1. \A q : PendingOf(q)' \subseteq PendingOf(q) /\ Storing(q)' \subseteq Storing(q)
    BY <1>1, <1>3 DEF PendingOf, Storing
  <2>2. IsFiniteSet(pending)
    BY DEF ApprovalTypes
  <2> QED BY <2>1, <2>2, LimitShrinks DEF WithinLimit
<1> QED BY <1>5, <1>6, <1>7, <1>8

LEMMA GrantStep ==
  ASSUME ApprovalAssumption, ApprovalInv, NEW t \in Pair, A!Grant(t)
  PROVE  ApprovalInv'
<1> USE DEF ApprovalInv
<1> DEFINE x == task[t].new
           n == Len(approved)
<1>1. /\ task[t].at = "grant" /\ approved' = Append(approved, x)
      /\ task' = [task EXCEPT ![t] = A!Idle]
      /\ ids' = ids /\ pending' = pending /\ day' = day /\ decided' = decided
  BY DEF A!Grant
<1>2. x \in Request /\ t \in Holding
  BY <1>1 DEF ApprovalTypes, Holding, A!Idle
<1>3. task'[t].at = "idle" /\ \A u \in Pair \ {t} : task'[u] = task[u]
  BY <1>1 DEF ApprovalTypes, A!Idle
<1>4. Holding' = Holding \ {t}
  BY <1>3 DEF Holding
<1>5. /\ \A u \in Holding \ {t} : task'[u] = task[u] /\ task[u].new.id # x.id
      /\ x.id <= ids /\ \A a \in pending : a.id # x.id
      /\ \A i \in DOMAIN approved : approved[i].id # x.id
      /\ decided[x.id] = "approved"
  BY <1>1, <1>2, <1>3 DEF OnePlace, Holding, InForce
<1> HIDE DEF x
<1>6. ApprovalTypes'
  BY <1>1, <1>2 DEF ApprovalTypes
<1>7. /\ DOMAIN approved' = DOMAIN approved \cup {n + 1} /\ n + 1 \notin DOMAIN approved /\ approved'[n + 1] = x
      /\ \A i \in DOMAIN approved : approved'[i] = approved[i]
  BY <1>1, <1>2 DEF ApprovalTypes
<1> HIDE DEF n
<1>8. OnePlace'
  BY <1>1, <1>4, <1>5, <1>7 DEF OnePlace
<1>9. InForce'
  BY <1>1, <1>3, <1>5, <1>7 DEF InForce
<1>10. WithinLimit'
  <2>1. \A q : PendingOf(q)' \subseteq PendingOf(q) /\ Storing(q)' \subseteq Storing(q)
    BY <1>1, <1>3 DEF PendingOf, Storing
  <2>2. IsFiniteSet(pending)
    BY DEF ApprovalTypes
  <2> QED BY <2>1, <2>2, LimitShrinks DEF WithinLimit
<1> QED BY <1>6, <1>8, <1>9, <1>10

LEMMA DenyStep ==
  ASSUME ApprovalAssumption, ApprovalInv, NEW a \in pending, A!deny(a)
  PROVE  ApprovalInv'
<1> USE DEF ApprovalInv
<1> DEFINE x == [a EXCEPT !.status = "Denied"]
<1>1. /\ pending' = (pending \ {a}) \cup {x} /\ decided' = [decided EXCEPT ![a.id] = "denied"]
      /\ ids' = ids /\ approved' = approved /\ day' = day /\ task' = task
  BY DEF A!deny
<1>2. a \in Request /\ x \in Request /\ x.id = a.id /\ x.plugin = a.plugin /\ a.id \in 1..MaxIds
  BY DEF ApprovalTypes, Request
<1> HIDE DEF x
<1>3. IsFiniteSet(pending) /\ IsFiniteSet(pending \ {a})
  BY FS_RemoveElement DEF ApprovalTypes
<1>4. ApprovalTypes'
  <2>1. IsFiniteSet((pending \ {a}) \cup {x})
    BY <1>3, FS_AddElement
  <2> QED BY <1>1, <1>2, <2>1 DEF ApprovalTypes
<1>5. Holding' = Holding
  BY <1>1 DEF Holding
<1>6. OnePlace'
  <2>1. /\ x.id <= ids /\ \A b \in pending \ {a} : b.id # x.id
        /\ \A i \in DOMAIN approved : approved[i].id # x.id
        /\ \A t \in Holding : task[t].new.id # x.id
    BY <1>2 DEF OnePlace
  <2> QED BY <1>1, <1>5, <2>1 DEF OnePlace
<1>7. InForce'
  <2>1. \A i \in DOMAIN approved : approved[i].id # a.id
    BY DEF OnePlace
  <2>2. \A t \in Pair : task[t].at = "grant" => task[t].new.id # a.id
    BY DEF OnePlace, Holding
  <2>3. \A n : n # a.id /\ decided[n] = "approved" /\ n \in 1..MaxIds => decided'[n] = "approved"
    BY <1>1 DEF ApprovalTypes
  <2>4. \A i \in DOMAIN approved : approved[i].id \in 1..MaxIds
    <3>1. \A i \in DOMAIN approved : approved[i] \in Request
      BY DEF ApprovalTypes
    <3> QED BY <3>1 DEF Request
  <2>5. \A t \in Pair : task[t].at = "grant" => task[t].new.id \in 1..MaxIds
    <3>1. \A t \in Pair : task[t].at = "grant" => task[t].new \in Request
      BY DEF ApprovalTypes, A!Idle
    <3> QED BY <3>1 DEF Request
  <2> QED BY <1>1, <2>1, <2>2, <2>3, <2>4, <2>5 DEF InForce
<1>8. WithinLimit'
  <2> SUFFICES ASSUME NEW q PROVE (Cardinality(PendingOf(q)) + Cardinality(Storing(q)) <= MaxPending + Cardinality(Pair) - 1)'
    BY DEF WithinLimit
  <2>1. Storing(q)' = Storing(q)
    BY <1>1 DEF Storing
  <2>2. CASE q # a.plugin
    <3>1. PendingOf(q)' \subseteq PendingOf(q)
      BY <1>1, <1>2, <2>2 DEF PendingOf
    <3> QED BY <1>3, <2>1, <3>1, LimitShrinks
  <2>3. CASE q = a.plugin
    <3> DEFINE c == PendingOf(q)
               rest == c \ {a}
               b == Cardinality(Storing(q))
               l == MaxPending + Cardinality(Pair) - 1
    <3>1. PendingOf(q)' = rest \cup {x} /\ a \in c
      BY <1>1, <1>2, <2>3 DEF PendingOf
    <3>2. IsFiniteSet(c) /\ Cardinality(c) \in Nat /\ b \in Nat /\ l \in Int
      BY <1>3, ApprovalsFinite DEF ApprovalAssumption
    <3>3. Cardinality(c) + b <= l
      BY DEF WithinLimit
    <3> HIDE DEF c, b, l
    <3>4. IsFiniteSet(rest) /\ Cardinality(rest) = Cardinality(c) - 1
      BY <3>1, <3>2, FS_RemoveElement
    <3> HIDE DEF rest
    <3>5. Cardinality(rest) \in Nat /\ (Cardinality(rest \cup {x}) = Cardinality(rest) \/ Cardinality(rest \cup {x}) = Cardinality(rest) + 1)
      BY <3>4, FS_AddElement, FS_CardinalityType
    <3>6. Cardinality(rest \cup {x}) + b <= l
      BY <3>2, <3>3, <3>4, <3>5
    <3> QED BY <2>1, <3>1, <3>6 DEF b, l
  <2> QED BY <2>2, <2>3
<1> QED BY <1>4, <1>6, <1>7, <1>8

\* Lists whose entries keep their numbers, and where none comes in force.
LEMMA ListStep ==
  ASSUME ApprovalAssumption, ApprovalInv, NEW e, approved' \in Seq(Request), DOMAIN approved' = DOMAIN approved,
         \A i \in DOMAIN approved : approved'[i].id = approved[i].id,
         \A i \in DOMAIN approved : approved'[i].status = "Approved" => approved[i].status = "Approved" /\ approved[i].id # e,
         DOMAIN decided' = 1..MaxIds,
         \A n \in 1..MaxIds : n # e => decided'[n] = decided[n],
         \A t \in Holding : task[t].new.id # e,
         pending' \subseteq pending, ids' = ids, day' \in Nat,
         task' \in [Pair -> {A!Idle} \cup [at : {"store", "grant"}, new : Request] \cup [at : {"clean"}, new : Nat]],
         \A t \in Pair : task'[t] = task[t] \/ task'[t].at \notin {"store", "grant"}
  PROVE  ApprovalInv'
<1> USE DEF ApprovalInv
<1>1. IsFiniteSet(pending) /\ IsFiniteSet(pending')
  BY FS_Subset DEF ApprovalTypes
<1>2. ApprovalTypes'
  BY <1>1 DEF ApprovalTypes
<1>3. Holding' \subseteq Holding /\ \A t \in Holding' : task'[t] = task[t]
  BY DEF Holding
<1>4. OnePlace'
  BY <1>3 DEF OnePlace
<1>5. InForce'
  <2>1. ASSUME NEW i \in DOMAIN approved, approved'[i].status = "Approved" PROVE decided'[approved'[i].id] = "approved"
    <3>1. approved[i].status = "Approved" /\ approved[i].id # e /\ approved'[i].id = approved[i].id
      BY <2>1
    <3>2. approved[i] \in Request
      BY DEF ApprovalTypes
    <3>3. approved[i].id \in 1..MaxIds
      BY <3>2 DEF Request
    <3> QED BY <3>1, <3>3 DEF InForce
  <2>2. ASSUME NEW t \in Pair, task'[t].at = "grant" PROVE decided'[task'[t].new.id] = "approved"
    <3>1. task'[t] = task[t] /\ t \in Holding
      BY <2>2 DEF Holding
    <3>2. task[t].new \in Request
      BY <2>2, <3>1 DEF ApprovalTypes, A!Idle
    <3>3. task[t].new.id \in 1..MaxIds
      BY <3>2 DEF Request
    <3> QED BY <2>2, <3>1, <3>3 DEF InForce
  <2> QED BY <2>1, <2>2 DEF InForce
<1>6. WithinLimit'
  <2>1. \A q : PendingOf(q)' \subseteq PendingOf(q) /\ Storing(q)' \subseteq Storing(q)
    BY DEF PendingOf, Storing
  <2> QED BY <1>1, <2>1, LimitShrinks DEF WithinLimit
<1> QED BY <1>2, <1>4, <1>5, <1>6

LEMMA RevokeStep ==
  ASSUME ApprovalAssumption, ApprovalInv, NEW i \in DOMAIN approved, A!revoke(i)
  PROVE  ApprovalInv'
<1> DEFINE e == approved[i].id
<1>1. /\ approved' = [approved EXCEPT ![i].status = "Expired"] /\ decided' = [decided EXCEPT ![e] = "revoked"]
      /\ pending' = pending /\ ids' = ids /\ day' = day /\ task' = task
  BY DEF A!revoke
<1>2. ApprovalTypes /\ OnePlace /\ approved \in Seq(Request) /\ approved[i] \in Request
  BY DEF ApprovalInv, ApprovalTypes
<1>3. [approved[i] EXCEPT !.status = "Expired"] \in Request
  BY <1>2 DEF Request
<1>4. approved' = [approved EXCEPT ![i] = [approved[i] EXCEPT !.status = "Expired"]]
  BY <1>1
<1>5. approved' \in Seq(Request) /\ DOMAIN approved' = DOMAIN approved
  BY <1>2, <1>3, <1>4
<1>6. /\ approved'[i].id = e /\ approved'[i].status = "Expired"
      /\ \A j \in DOMAIN approved : j # i => approved'[j] = approved[j]
  BY <1>2, <1>4 DEF Request
<1>7. \A j \in DOMAIN approved : j # i => approved[j].id # e
  BY <1>2 DEF OnePlace
<1>8. DOMAIN decided' = 1..MaxIds /\ \A n \in 1..MaxIds : n # e => decided'[n] = decided[n]
  BY <1>1, <1>2 DEF ApprovalTypes
<1>9. \A t \in Holding : task[t].new.id # e
  BY <1>2 DEF OnePlace
<1> HIDE DEF e
<1>10. \A j \in DOMAIN approved : approved'[j].status = "Approved" => approved[j].status = "Approved" /\ approved[j].id # e
  BY <1>6, <1>7
<1>11. \A j \in DOMAIN approved : approved'[j].id = approved[j].id
  BY <1>6 DEF e
<1>12. day' \in Nat /\ task' \in [Pair -> {A!Idle} \cup [at : {"store", "grant"}, new : Request] \cup [at : {"clean"}, new : Nat]]
  BY <1>1, <1>2 DEF ApprovalTypes
<1> QED BY <1>1, <1>5, <1>8, <1>9, <1>10, <1>11, <1>12, ListStep

\* The clean-up, the clock and a step of nobody.
LEMMA CleanStep ==
  ASSUME ApprovalAssumption, ApprovalInv,
         \/ A!Tick \/ UNCHANGED A!vars
         \/ \E t \in Pair : A!CleanPending(t) \/ A!CleanApproved(t)
  PROVE  ApprovalInv'
<1> DEFINE Tasks == [Pair -> {A!Idle} \cup [at : {"store", "grant"}, new : Request] \cup [at : {"clean"}, new : Nat]]
<1>1. /\ ApprovalTypes /\ OnePlace /\ approved \in Seq(Request) /\ day \in Nat /\ task \in Tasks /\ DOMAIN decided = 1..MaxIds
      /\ \A i \in DOMAIN approved : approved[i] \in Request
  BY DEF ApprovalInv, ApprovalTypes
<1>2. /\ \A i \in DOMAIN approved : approved[i].id # 0
      /\ \A t \in Holding : task[t].new.id # 0
  <2>1. \A r \in Request : r.id # 0
    BY DEF Request
  <2>2. \A t \in Holding : task[t].new \in Request
    BY <1>1 DEF Holding, A!Idle
  <2> QED BY <1>1, <2>1, <2>2
<1>3. CASE A!Tick \/ UNCHANGED A!vars
  <2>1. /\ pending' = pending /\ approved' = approved /\ task' = task /\ ids' = ids /\ decided' = decided
        /\ day' \in Nat
    BY <1>1, <1>3 DEF A!Tick, A!vars
  <2> HIDE DEF Tasks
  <2> QED BY <1>1, <1>2, <2>1, ListStep DEF Tasks
<1>4. ASSUME NEW t \in Pair, A!CleanPending(t) PROVE ApprovalInv'
  <2>1. /\ pending' \subseteq pending /\ approved' = approved /\ ids' = ids /\ decided' = decided /\ day' = day
        /\ task' = [task EXCEPT ![t] = [at |-> "clean", new |-> day]]
    BY <1>4 DEF A!CleanPending
  <2>2. task' \in Tasks
    BY <1>1, <2>1
  <2>3. \A u \in Pair : task'[u] = task[u] \/ task'[u].at \notin {"store", "grant"}
    BY <1>1, <2>1
  <2> HIDE DEF Tasks
  <2> QED BY <1>1, <1>2, <2>1, <2>2, <2>3, ListStep DEF Tasks
<1>5. ASSUME NEW t \in Pair, A!CleanApproved(t) PROVE ApprovalInv'
  <2> DEFINE Cleaned(i) == IF approved[i].expires <= task[t].new THEN [approved[i] EXCEPT !.status = "Expired"] ELSE approved[i]
  <2>1. /\ pending' = pending /\ ids' = ids /\ decided' = decided /\ day' = day
        /\ task' = [task EXCEPT ![t] = A!Idle] /\ approved' = [i \in DOMAIN approved |-> Cleaned(i)]
    BY <1>5 DEF A!CleanApproved
  <2>2. task' \in Tasks
    BY <1>1, <2>1
  <2>3. \A u \in Pair : task'[u] = task[u] \/ task'[u].at \notin {"store", "grant"}
    BY <1>1, <2>1 DEF A!Idle
  <2>4. \A i \in DOMAIN approved : /\ Cleaned(i) \in Request /\ Cleaned(i).id = approved[i].id
                                   /\ Cleaned(i).status = "Approved" => approved[i].status = "Approved"
    BY <1>1 DEF Request
  <2> HIDE DEF Cleaned, Tasks
  <2>5. DOMAIN approved' = DOMAIN approved /\ approved' \in Seq(Request) /\ \A i \in DOMAIN approved : approved'[i] = Cleaned(i)
    <3>1. DOMAIN approved = 1..Len(approved) /\ Len(approved) \in Nat
      BY <1>1
    <3>2. approved' \in [1..Len(approved) -> Request]
      BY <2>1, <2>4, <3>1
    <3> QED BY <2>1, <3>1, <3>2
  <2>6. \A i \in DOMAIN approved : /\ approved'[i].id = approved[i].id
                                   /\ approved'[i].status = "Approved" => approved[i].status = "Approved" /\ approved[i].id # 0
    BY <1>2, <2>4, <2>5
  <2> QED BY <1>1, <1>2, <2>1, <2>2, <2>3, <2>5, <2>6, ListStep DEF Tasks
<1> QED BY <1>3, <1>4, <1>5

\* A request is in one place, what is in force was approved last, and requests
\* that overlap exceed the limit by one each at most, for any number of
\* threads, plugins and requests.
LEMMA ApprovalsSafe == ApprovalAssumption => (A!Spec => []A!ApprovalsSound)
<1> SUFFICES ASSUME ApprovalAssumption PROVE A!Spec => []A!ApprovalsSound
  OBVIOUS
<1>1. A!Init => ApprovalInv
  <2> SUFFICES ASSUME A!Init PROVE ApprovalInv
    OBVIOUS
  <2>1. /\ pending = {} /\ approved = <<>> /\ task = [t \in Pair |-> A!Idle] /\ ids = 0 /\ day = 0
        /\ decided = [i \in 1..MaxIds |-> None]
    BY DEF A!Init
  <2>2. \A t \in Pair : task[t].at = "idle"
    BY <2>1 DEF A!Idle
  <2>3. ApprovalTypes
    BY <2>1, FS_EmptySet DEF ApprovalTypes
  <2>4. Holding = {} /\ \A p : PendingOf(p) = {} /\ Storing(p) = {}
    BY <2>1, <2>2 DEF Holding, PendingOf, Storing
  <2>5. OnePlace /\ InForce
    BY <2>1, <2>2, <2>4 DEF OnePlace, InForce
  <2>6. WithinLimit
    <3>1. Cardinality(Pair) \in Nat /\ Cardinality(Pair) >= 1 /\ MaxPending \in Nat
      BY ApprovalsFinite DEF ApprovalAssumption
    <3>2. \A p : Cardinality(PendingOf(p)) = 0 /\ Cardinality(Storing(p)) = 0
      BY <2>4, FS_EmptySet
    <3> QED BY <3>1, <3>2 DEF WithinLimit
  <2> QED BY <2>3, <2>5, <2>6 DEF ApprovalInv
<1>2. ApprovalInv /\ [A!Next]_A!vars => ApprovalInv'
  BY RequestStep, StoreStep, ApproveStep, GrantStep, DenyStep, RevokeStep, CleanStep DEF A!Next
<1>3. ApprovalInv => A!ApprovalsSound
  <2> SUFFICES ASSUME ApprovalInv PROVE A!ApprovalsSound
    OBVIOUS
  <2> DEFINE granting == {t \in Pair : task[t].at = "grant"}
             waiting == {a.id : a \in pending}
  <2>1. granting \subseteq Holding /\ OnePlace /\ InForce
    BY DEF Holding, ApprovalInv
  <2>2. \A i \in DOMAIN approved :
          /\ approved[i].id \notin waiting
          /\ \A j \in DOMAIN approved : approved[i].id = approved[j].id => i = j
          /\ \A t \in granting : task[t].new.id # approved[i].id
    BY <2>1 DEF OnePlace
  <2>3. \A t \in granting : /\ task[t].new.id \notin waiting
                            /\ \A u \in granting : task[t].new.id = task[u].new.id => t = u
    BY <2>1 DEF OnePlace
  <2>4. \A p \in Pair, c \in Capabilities :
          A!is_capability_approved(p, c) =>
            \E i \in DOMAIN approved : decided[approved[i].id] = "approved" /\ approved[i].plugin = p /\ approved[i].cap = c
    BY <2>1 DEF InForce, A!is_capability_approved
  <2>5. \A p \in Pair : Cardinality(PendingOf(p)) <= MaxPending + Cardinality(Pair) - 1
    <3>1. IsFiniteSet(pending) /\ MaxPending \in Nat
      BY DEF ApprovalInv, ApprovalTypes, ApprovalAssumption
    <3> TAKE p \in Pair
    <3>2. Cardinality(PendingOf(p)) \in Nat /\ Cardinality(Storing(p)) \in Nat /\ Cardinality(Pair) \in Nat
      BY <3>1, ApprovalsFinite
    <3>3. Cardinality(PendingOf(p)) + Cardinality(Storing(p)) <= MaxPending + Cardinality(Pair) - 1
      BY DEF ApprovalInv, WithinLimit
    <3> QED BY <3>1, <3>2, <3>3
  <2>6. \A p \in Pair : A!Cardinality({a \in pending : a.plugin = p}) <= MaxPending + A!Cardinality(Pair) - 1
    BY <2>5, SameCardinality DEF PendingOf
  <2> QED BY <2>2, <2>3, <2>4, <2>6 DEF A!ApprovalsSound
<1> QED BY <1>1, <1>2, <1>3, PTL DEF A!Spec

-----------------------------------------------------------------------------
(* AccessControl.                                                          *)

\* A path pattern is of one of the four forms; an identifier is no longer than
\* an input.
AccessAssumption == /\ \A q \in PathPatterns : q = [dir |-> q.dir, form |-> q.form] /\ q.form \in {"all", "star", "slash", "exact"}
                    /\ MaxIdentifier \in Nat /\ MaxInput \in Nat /\ MaxIdentifier <= MaxInput

\* What was granted is what the lists give, entry by entry.
AccessInv ==
  /\ DOMAIN net = Owners /\ DOMAIN fs = Owners /\ DOMAIN granted = Owners
  /\ \A p \in Owners :
       /\ net[p] \in Seq(X!HostPermission) /\ fs[p] \in Seq(X!PathPermission)
       /\ \A x : x \in granted[p] <=> \/ \E i \in DOMAIN net[p] : x \in X!HostGrant(net[p][i])
                                      \/ \E i \in DOMAIN fs[p] : x \in X!PathGrant(fs[p][i])

LEMMA GrantKinds == /\ \A q, x : x \in X!HostGrant(q) => x[1] = "host"
                    /\ \A q, x : x \in X!PathGrant(q) => x[1] = "path"
<1>1. \A q, x : x \in X!HostGrant(q) => x[1] = "host"
  BY DEF X!HostGrant
<1>2. \A q, x : x \in X!PathGrant(q) => x[1] = "path"
  BY DEF X!PathGrant
<1> QED BY <1>1, <1>2

LEMMA AccessStep ==
  ASSUME AccessInv, [X!Next]_X!vars
  PROVE  AccessInv'
<1> USE DEF AccessInv
<1>0. \A p \in Owners : /\ DOMAIN net[p] = 1..Len(net[p]) /\ Len(net[p]) \in Nat
                        /\ DOMAIN fs[p] = 1..Len(fs[p]) /\ Len(fs[p]) \in Nat
  OBVIOUS
<1>1. CASE UNCHANGED X!vars
  BY <1>1 DEF X!vars
<1>2. ASSUME NEW p \in Owners, X!remove_plugin(p) PROVE AccessInv'
  <2>1. /\ net' = [net EXCEPT ![p] = <<>>] /\ fs' = [fs EXCEPT ![p] = <<>>] /\ granted' = [granted EXCEPT ![p] = {}]
    BY <1>2 DEF X!remove_plugin
  <2>2. \A o \in Owners : o # p => net'[o] = net[o] /\ fs'[o] = fs[o] /\ granted'[o] = granted[o]
    BY <2>1
  <2>3. net'[p] = <<>> /\ fs'[p] = <<>> /\ granted'[p] = {}
    BY <2>1
  <2> QED BY <2>1, <2>2, <2>3, SMTT(30)
<1>3. ASSUME NEW p \in Owners, NEW q \in X!HostPermission, X!net_register_permissions(p, q) PROVE AccessInv'
  <2>1. /\ net' = [net EXCEPT ![p] = <<q>>] /\ fs' = fs
        /\ granted' = [granted EXCEPT ![p] = (granted[p] \ X!OfHosts(granted[p])) \cup X!HostGrant(q)]
    BY <1>3 DEF X!net_register_permissions
  <2>2. \A o \in Owners : o # p => net'[o] = net[o] /\ granted'[o] = granted[o]
    BY <2>1
  <2>3. net'[p] = <<q>> /\ granted'[p] = (granted[p] \ X!OfHosts(granted[p])) \cup X!HostGrant(q)
    BY <2>1
  <2>4. net'[p] \in Seq(X!HostPermission) /\ DOMAIN net'[p] = {1} /\ net'[p][1] = q
    BY <2>3
  <2>5. ASSUME NEW x PROVE x \in granted'[p] <=> \/ \E i \in DOMAIN net'[p] : x \in X!HostGrant(net'[p][i])
                                                 \/ \E i \in DOMAIN fs'[p] : x \in X!PathGrant(fs'[p][i])
    <3>1. x \in granted[p] \ X!OfHosts(granted[p]) <=> x \in granted[p] /\ x[1] # "host"
      BY DEF X!OfHosts
    <3>2. x \in granted[p] /\ x[1] # "host" <=> \E i \in DOMAIN fs[p] : x \in X!PathGrant(fs[p][i])
      BY GrantKinds
    <3> QED BY <2>1, <2>3, <2>4, <3>1, <3>2
  <2> QED BY <2>1, <2>2, <2>4, <2>5
<1>4. ASSUME NEW p \in Owners, NEW q \in X!HostPermission, X!net_add_permission(p, q) PROVE AccessInv'
  <2>1. /\ net' = [net EXCEPT ![p] = Append(net[p], q)] /\ fs' = fs
        /\ granted' = [granted EXCEPT ![p] = granted[p] \cup X!HostGrant(q)]
    BY <1>4 DEF X!net_add_permission
  <2>2. \A o \in Owners : o # p => net'[o] = net[o] /\ granted'[o] = granted[o]
    BY <2>1
  <2>3. net'[p] = Append(net[p], q) /\ granted'[p] = granted[p] \cup X!HostGrant(q)
    BY <2>1
  <2> DEFINE n == Len(net[p]) + 1
  <2>4. /\ net'[p] \in Seq(X!HostPermission) /\ DOMAIN net'[p] = DOMAIN net[p] \cup {n} /\ net'[p][n] = q
        /\ \A i \in DOMAIN net[p] : net'[p][i] = net[p][i]
    BY <1>0, <2>3
  <2> HIDE DEF n
  <2>5. ASSUME NEW x PROVE x \in granted'[p] <=> \/ \E i \in DOMAIN net'[p] : x \in X!HostGrant(net'[p][i])
                                                 \/ \E i \in DOMAIN fs'[p] : x \in X!PathGrant(fs'[p][i])
    BY <2>1, <2>3, <2>4
  <2> QED BY <2>1, <2>2, <2>4, <2>5
<1>5. ASSUME NEW p \in Owners, NEW q \in X!PathPermission, X!fs_register_permissions(p, q) PROVE AccessInv'
  <2>1. /\ fs' = [fs EXCEPT ![p] = <<q>>] /\ net' = net
        /\ granted' = [granted EXCEPT ![p] = X!OfHosts(granted[p]) \cup X!PathGrant(q)]
    BY <1>5 DEF X!fs_register_permissions
  <2>2. \A o \in Owners : o # p => fs'[o] = fs[o] /\ granted'[o] = granted[o]
    BY <2>1
  <2>3. fs'[p] = <<q>> /\ granted'[p] = X!OfHosts(granted[p]) \cup X!PathGrant(q)
    BY <2>1
  <2>4. fs'[p] \in Seq(X!PathPermission) /\ DOMAIN fs'[p] = {1} /\ fs'[p][1] = q
    BY <2>3
  <2>5. ASSUME NEW x PROVE x \in granted'[p] <=> \/ \E i \in DOMAIN net'[p] : x \in X!HostGrant(net'[p][i])
                                                 \/ \E i \in DOMAIN fs'[p] : x \in X!PathGrant(fs'[p][i])
    <3>1. x \in X!OfHosts(granted[p]) <=> x \in granted[p] /\ x[1] = "host"
      BY DEF X!OfHosts
    <3>2. x \in granted[p] /\ x[1] = "host" <=> \E i \in DOMAIN net[p] : x \in X!HostGrant(net[p][i])
      BY GrantKinds
    <3> QED BY <2>1, <2>3, <2>4, <3>1, <3>2
  <2> QED BY <2>1, <2>2, <2>4, <2>5
<1>6. ASSUME NEW p \in Owners, NEW q \in X!PathPermission, X!fs_add_permission(p, q) PROVE AccessInv'
  <2>1. /\ fs' = [fs EXCEPT ![p] = Append(fs[p], q)] /\ net' = net
        /\ granted' = [granted EXCEPT ![p] = granted[p] \cup X!PathGrant(q)]
    BY <1>6 DEF X!fs_add_permission
  <2>2. \A o \in Owners : o # p => fs'[o] = fs[o] /\ granted'[o] = granted[o]
    BY <2>1
  <2>3. fs'[p] = Append(fs[p], q) /\ granted'[p] = granted[p] \cup X!PathGrant(q)
    BY <2>1
  <2> DEFINE n == Len(fs[p]) + 1
  <2>4. /\ fs'[p] \in Seq(X!PathPermission) /\ DOMAIN fs'[p] = DOMAIN fs[p] \cup {n} /\ fs'[p][n] = q
        /\ \A i \in DOMAIN fs[p] : fs'[p][i] = fs[p][i]
    BY <1>0, <2>3
  <2> HIDE DEF n
  <2>5. ASSUME NEW x PROVE x \in granted'[p] <=> \/ \E i \in DOMAIN net'[p] : x \in X!HostGrant(net'[p][i])
                                                 \/ \E i \in DOMAIN fs'[p] : x \in X!PathGrant(fs'[p][i])
    BY <2>1, <2>3, <2>4
  <2> QED BY <2>1, <2>2, <2>4, <2>5
<1> QED BY <1>1, <1>2, <1>3, <1>4, <1>5, <1>6 DEF X!Next

\* A permission is to give a host and a port exactly when it covers them.
LEMMA HostGrantCovers ==
  ASSUME NEW q \in X!HostPermission, NEW h \in Hosts, NEW port \in Ports
  PROVE  <<"host", h, port>> \in X!HostGrant(q) <=> X!Covers(q, h, port)
<1> DEFINE G == {<<"host", hh, pp>> : hh \in {hh \in Hosts : X!host_matches_pattern(hh, q.host)},
                                      pp \in IF q.ports = {} THEN Ports ELSE q.ports}
<1>1. <<"host", h, port>> \in G <=> X!host_matches_pattern(h, q.host) /\ (q.ports = {} \/ port \in q.ports)
  OBVIOUS
<1>2. X!HostGrant(q) = IF X!Approved(q.status) THEN G ELSE {}
  BY DEF X!HostGrant
<1> HIDE DEF G
<1> QED BY <1>1, <1>2 DEF X!Covers

\* And a path and a mode exactly when the path is the directory or below it.
LEMMA PathGrantCovers ==
  ASSUME NEW q, NEW d \in Paths, NEW m \in X!Modes
  PROVE  <<"path", d, m>> \in X!PathGrant(q) <=>
           X!Approved(q.status) /\ (q.path.form = "all" \/ X!IsPrefix(q.path.dir, d)) /\ X!mode_compatible(q.mode, m)
<1> DEFINE G == {<<"path", dd, mm>> : dd \in {dd \in Paths : q.path.form = "all" \/ X!IsPrefix(q.path.dir, dd)},
                                      mm \in {mm \in X!Modes : X!mode_compatible(q.mode, mm)}}
<1>1. <<"path", d, m>> \in G <=> (q.path.form = "all" \/ X!IsPrefix(q.path.dir, d)) /\ X!mode_compatible(q.mode, m)
  OBVIOUS
<1>2. X!PathGrant(q) = IF X!Approved(q.status) THEN G ELSE {}
  BY DEF X!PathGrant
<1> HIDE DEF G
<1> QED BY <1>1, <1>2

LEMMA AccessAnswers == AccessAssumption /\ AccessInv => X!AccessSound
<1> SUFFICES ASSUME AccessAssumption, AccessInv, NEW p \in Owners
    PROVE /\ \A h \in Hosts, port \in Ports :
               X!net_check_access(p, h, port) <=>
                 /\ \A b \in Blocked : ~X!host_matches_pattern(h, b)
                 /\ \/ <<"host", h, port>> \in granted[p]
                    \/ \E g \in GlobalHosts : X!host_matches_pattern(h, g)
          /\ \A d \in Paths, m \in X!Modes :
               /\ X!fs_check_access(p, d, m) => \/ <<"path", d, m>> \in granted[p]
                                                \/ \E i \in DOMAIN fs[p] : fs[p][i].path.form = "star"
                                                \/ m = "Read" /\ \E g \in GlobalReads : X!starts_with(d, g)
               /\ <<"path", d, m>> \in granted[p] =>
                    \/ X!fs_check_access(p, d, m)
                    \/ \E i \in DOMAIN fs[p] : fs[p][i].path = [dir |-> d, form |-> "slash"]
  BY DEF X!AccessSound
<1>1. ASSUME NEW i \in DOMAIN net[p] PROVE net[p][i] \in X!HostPermission
  BY <1>1 DEF AccessInv
<1>2. ASSUME NEW i \in DOMAIN fs[p]
      PROVE fs[p][i].path = [dir |-> fs[p][i].path.dir, form |-> fs[p][i].path.form] /\ fs[p][i].path.form \in {"all", "star", "slash", "exact"}
  <2>1. fs[p][i] \in X!PathPermission
    BY <1>2 DEF AccessInv
  <2>2. fs[p][i].path \in PathPatterns
    BY <2>1 DEF X!PathPermission
  <2> QED BY <2>2 DEF AccessAssumption
<1>3. ASSUME NEW h \in Hosts, NEW port \in Ports
      PROVE <<"host", h, port>> \in granted[p] <=> \E i \in DOMAIN net[p] : X!Covers(net[p][i], h, port)
  <2> DEFINE x == <<"host", h, port>>
  <2>1. \A q : ~(x \in X!PathGrant(q))
    BY GrantKinds
  <2>2. x \in granted[p] <=> \E i \in DOMAIN net[p] : x \in X!HostGrant(net[p][i])
    BY <2>1 DEF AccessInv
  <2>3. \A i \in DOMAIN net[p] : x \in X!HostGrant(net[p][i]) <=> X!Covers(net[p][i], h, port)
    BY <1>1, HostGrantCovers
  <2> HIDE DEF x
  <2>4. x \in granted[p] <=> \E i \in DOMAIN net[p] : X!Covers(net[p][i], h, port)
    BY <2>2, <2>3
  <2> QED BY <2>4 DEF x
<1>4. ASSUME NEW d \in Paths, NEW m \in X!Modes
      PROVE <<"path", d, m>> \in granted[p] <=>
              \E i \in DOMAIN fs[p] : /\ X!Approved(fs[p][i].status)
                                      /\ fs[p][i].path.form = "all" \/ X!IsPrefix(fs[p][i].path.dir, d)
                                      /\ X!mode_compatible(fs[p][i].mode, m)
  <2> DEFINE x == <<"path", d, m>>
  <2>1. \A q : ~(x \in X!HostGrant(q))
    BY GrantKinds
  <2>2. x \in granted[p] <=> \E i \in DOMAIN fs[p] : x \in X!PathGrant(fs[p][i])
    BY <2>1 DEF AccessInv
  <2>3. \A q : x \in X!PathGrant(q) <=>
           X!Approved(q.status) /\ (q.path.form = "all" \/ X!IsPrefix(q.path.dir, d)) /\ X!mode_compatible(q.mode, m)
    BY PathGrantCovers
  <2> HIDE DEF x
  <2>4. x \in granted[p] <=> 
              \E i \in DOMAIN fs[p] : /\ X!Approved(fs[p][i].status)
                                      /\ fs[p][i].path.form = "all" \/ X!IsPrefix(fs[p][i].path.dir, d)
                                      /\ X!mode_compatible(fs[p][i].mode, m)
    BY <2>2, <2>3
  <2> QED BY <2>4 DEF x
<1>5. ASSUME NEW h \in Hosts, NEW port \in Ports
      PROVE X!net_check_access(p, h, port) <=>
                 /\ \A b \in Blocked : ~X!host_matches_pattern(h, b)
                 /\ \/ <<"host", h, port>> \in granted[p]
                    \/ \E g \in GlobalHosts : X!host_matches_pattern(h, g)
  BY <1>3 DEF X!net_check_access
<1>6. ASSUME NEW d \in Paths, NEW m \in X!Modes
      PROVE /\ X!fs_check_access(p, d, m) => \/ <<"path", d, m>> \in granted[p]
                                             \/ \E i \in DOMAIN fs[p] : fs[p][i].path.form = "star"
                                             \/ m = "Read" /\ \E g \in GlobalReads : X!starts_with(d, g)
            /\ <<"path", d, m>> \in granted[p] =>
                 \/ X!fs_check_access(p, d, m)
                 \/ \E i \in DOMAIN fs[p] : fs[p][i].path = [dir |-> d, form |-> "slash"]
  <2>1. X!fs_check_access(p, d, m) <=>
          \/ m = "Read" /\ \E g \in GlobalReads : X!starts_with(d, g)
          \/ \E i \in DOMAIN fs[p] : /\ X!Approved(fs[p][i].status) /\ X!path_matches(d, fs[p][i].path)
                                     /\ X!mode_compatible(fs[p][i].mode, m)
    BY DEF X!fs_check_access
  <2>2. ASSUME NEW i \in DOMAIN fs[p]
        PROVE /\ X!path_matches(d, fs[p][i].path) =>
                   fs[p][i].path.form \in {"all", "star"} \/ X!IsPrefix(fs[p][i].path.dir, d)
              /\ (fs[p][i].path.form = "all" \/ X!IsPrefix(fs[p][i].path.dir, d)) =>
                   X!path_matches(d, fs[p][i].path) \/ fs[p][i].path = [dir |-> d, form |-> "slash"]
    <3> DEFINE y == fs[p][i].path
    <3>1. y = [dir |-> y.dir, form |-> y.form] /\ y.form \in {"all", "star", "slash", "exact"}
      BY <1>2
    <3> HIDE DEF y
    <3>2. /\ X!path_matches(d, y) => y.form \in {"all", "star"} \/ X!IsPrefix(y.dir, d)
          /\ (y.form = "all" \/ X!IsPrefix(y.dir, d)) => X!path_matches(d, y) \/ y = [dir |-> d, form |-> "slash"]
      BY <3>1 DEF X!path_matches, X!IsStrictPrefix, X!starts_with
    <3> QED BY <3>2 DEF y
  <2> QED BY <1>4, <2>1, <2>2
<1> QED BY <1>5, <1>6

LEMMA AccessSafe == AccessAssumption => (X!Spec => []X!AccessSound)
<1> SUFFICES ASSUME AccessAssumption PROVE X!Spec => []X!AccessSound
  OBVIOUS
<1>1. X!Init => AccessInv
  <2> SUFFICES ASSUME X!Init PROVE AccessInv
    OBVIOUS
  <2>1. \A p \in Owners : net[p] = <<>> /\ fs[p] = <<>> /\ granted[p] = {}
    BY DEF X!Init
  <2> DEFINE empty == <<>>
  <2>2. DOMAIN empty = {} /\ empty \in Seq(X!HostPermission) /\ empty \in Seq(X!PathPermission)
    OBVIOUS
  <2> QED BY <2>1, <2>2 DEF X!Init, AccessInv
<1>2. AccessInv /\ [X!Next]_X!vars => AccessInv'
  BY AccessStep
<1>3. AccessInv => X!AccessSound
  BY AccessAnswers
<1> QED BY <1>1, <1>2, <1>3, PTL DEF X!Spec

-----------------------------------------------------------------------------
(* AccessControl: policies of the sandbox and checks of texts.             *)

PoliciesInv == \A p \in DOMAIN policies : policies[p].memory \in Int

LEMMA PoliciesAnswer == PoliciesInv => X!PoliciesOrdered
<1> SUFFICES ASSUME PoliciesInv PROVE X!PoliciesOrdered
  OBVIOUS
<1>1. ASSUME NEW p \in Guests \ DOMAIN policies, NEW r \in Requests
      PROVE ~X!check_file_access(p, r, FALSE) /\ ~X!check_memory_limit(p, 0) /\ \A port \in Ports : ~X!check_network_access(p, port)
  BY DEF X!check_file_access, X!check_memory_limit, X!check_network_access
<1>2. ASSUME NEW p \in DOMAIN policies, NEW q \in DOMAIN policies, X!NoMore(policies[p], policies[q])
      PROVE /\ \A r \in Requests, w \in BOOLEAN : X!check_file_access(p, r, w) => X!check_file_access(q, r, w)
            /\ \A port \in Ports : X!check_network_access(p, port) => X!check_network_access(q, port)
            /\ \A m \in {0, 128, 129, 2048, 2049} : X!check_memory_limit(p, m) => X!check_memory_limit(q, m)
            /\ \A v \in {"PATH", "USER"} : X!can_access_env_var(policies[p], v) => X!can_access_env_var(policies[q], v)
  <2> DEFINE a == policies[p]
             b == policies[q]
  <2>1. /\ a.caps \subseteq b.caps /\ a.memory <= b.memory /\ a.paths \subseteq b.paths /\ a.ports \subseteq b.ports
        /\ a.env \subseteq b.env /\ a.memory \in Int /\ b.memory \in Int
    BY <1>2 DEF X!NoMore, PoliciesInv
  <2> HIDE DEF a, b
  <2>2. \A c : X!has_capability(a, c) => X!has_capability(b, c)
    BY <2>1 DEF X!has_capability
  <2>3. \A r : X!can_access_path(a, r) => X!can_access_path(b, r)
    BY <2>1 DEF X!can_access_path
  <2>4. \A r \in Requests, w \in BOOLEAN : X!check_file_access(p, r, w) => X!check_file_access(q, r, w)
    BY <2>2, <2>3 DEF X!check_file_access, a, b
  <2>5. \A port \in Ports : X!check_network_access(p, port) => X!check_network_access(q, port)
    BY <2>1, <2>2 DEF X!check_network_access, X!can_use_port, a, b
  <2>6. \A m \in {0, 128, 129, 2048, 2049} : m <= a.memory => m <= b.memory
    BY <2>1
  <2>7. \A m \in {0, 128, 129, 2048, 2049} : X!check_memory_limit(p, m) => X!check_memory_limit(q, m)
    BY <2>6 DEF X!check_memory_limit, a, b
  <2>8. \A v \in {"PATH", "USER"} : X!can_access_env_var(policies[p], v) => X!can_access_env_var(policies[q], v)
    BY <2>1 DEF X!can_access_env_var, a, b
  <2> QED BY <2>4, <2>5, <2>7, <2>8
<1> QED BY <1>1, <1>2 DEF X!PoliciesOrdered

LEMMA PoliciesSafe == X!SandboxSpec => []X!PoliciesOrdered
<1>1. X!SandboxInit => PoliciesInv
  BY DEF X!SandboxInit, PoliciesInv
<1>2. PoliciesInv /\ [X!SandboxNext]_policies => PoliciesInv'
  <2> SUFFICES ASSUME PoliciesInv, X!SandboxNext PROVE PoliciesInv'
    BY DEF PoliciesInv
  <2>1. PICK p \in Guests, policy \in X!Policies : X!register_plugin(p, policy)
    BY DEF X!SandboxNext
  <2>2. policy.memory \in Int
    <3>1. X!permissive.memory \in Int /\ X!restrictive.memory \in Int
      BY DEF X!permissive, X!restrictive
    <3>2. \A x \in X!Custom : x.memory \in {X!permissive.memory, X!restrictive.memory}
      <4>1. "memory" \in DOMAIN X!permissive /\ "memory" \in DOMAIN X!restrictive
        BY DEF X!permissive, X!restrictive
      <4> QED BY <4>1 DEF X!Custom
    <3> QED BY <3>1, <3>2 DEF X!Policies
  <2>3. policies' = [q \in DOMAIN policies \cup {p} |-> IF q = p THEN policy ELSE policies[q]]
    BY <2>1 DEF X!register_plugin
  <2> QED BY <2>2, <2>3 DEF PoliciesInv
<1>3. PoliciesInv => X!PoliciesOrdered
  BY PoliciesAnswer
<1> QED BY <1>1, <1>2, <1>3, PTL DEF X!SandboxSpec, X!sandbox_vars

\* The length of a text in bytes is a number.
LEMMA BytesType ==
  ASSUME NEW n \in Nat, NEW t \in [1..n -> Characters]
  PROVE  t \in Seq(Characters) /\ Len(t) = n /\ X!Bytes(t) \in Nat
<1>1. t \in Seq(Characters) /\ Len(t) = n
  OBVIOUS
<1>2. ASSUME NEW c PROVE X!Count(t, c) \in Nat
  <2> DEFINE places == {i \in DOMAIN t : t[i] = c}
  <2>1. places \subseteq 1..n /\ IsFiniteSet(1..n)
    BY FS_Interval
  <2>2. IsFiniteSet(places)
    BY <2>1, FS_Subset
  <2>3. Cardinality(places) \in Nat
    BY <2>2, FS_CardinalityType
  <2>4. X!Count(t, c) = Cardinality(places)
    BY DEF X!Count, X!Cardinality, Cardinality
  <2> QED BY <2>3, <2>4
<1>3. \A i, j, k, l \in Nat : n + 6 * i + 7 * j + 5 * k + l \in Nat
  OBVIOUS
<1>4. X!Bytes(t) = n + 6 * X!Count(t, "http://") + 7 * X!Count(t, "https://") + 5 * X!Count(t, "ftp://") + X!Count(t, "two bytes")
  BY <1>1 DEF X!Bytes
<1> DEFINE i == X!Count(t, "http://")
           j == X!Count(t, "https://")
           k == X!Count(t, "ftp://")
           l == X!Count(t, "two bytes")
<1>5. i \in Nat /\ j \in Nat /\ k \in Nat /\ l \in Nat
  BY <1>2
<1>6. X!Bytes(t) = n + 6 * i + 7 * j + 5 * k + l
  BY <1>4
<1> HIDE DEF i, j, k, l
<1>7. X!Bytes(t) \in Nat
  BY <1>3, <1>5, <1>6
<1> QED BY <1>1, <1>7

LEMMA ChecksHold == AccessAssumption => X!ChecksNested
<1> SUFFICES ASSUME AccessAssumption, NEW n \in 0..TextLength, NEW t \in [1..n -> Characters], n \in Nat
             PROVE  /\ X!validate_sql_identifier(t) => X!validate_file_path(t) /\ X!validate_command_arg(t)
                    /\ X!validate_command_arg(t) \/ X!validate_url(t) => X!validate_http_header(t)
                    /\ X!sanitize_for_logging(X!sanitize_for_logging(t)) = X!sanitize_for_logging(t)
                    /\ X!Sized(X!sanitize_for_logging(t)) => X!validate_http_header(X!sanitize_for_logging(t))
  BY DEF X!ChecksNested, X!Texts, AccessAssumption
<1>1. t \in Seq(Characters) /\ Len(t) = n /\ X!Bytes(t) \in Nat /\ DOMAIN t = 1..n
  BY BytesType
<1>2. MaxInput \in Nat /\ MaxIdentifier \in Nat /\ MaxIdentifier <= MaxInput
  BY DEF AccessAssumption
<1>3. ASSUME X!validate_sql_identifier(t) PROVE X!validate_file_path(t) /\ X!validate_command_arg(t)
  <2>1. t # <<>> /\ X!Bytes(t) <= MaxIdentifier /\ \A i \in DOMAIN t : t[i] \in {"a", "1", "two bytes", "_", "-"}
    BY <1>1, <1>3 DEF X!validate_sql_identifier, X!Holds
  <2>2. X!Sized(t)
    <3> DEFINE b == X!Bytes(t)
    <3>1. b \in Nat /\ b <= MaxIdentifier
      BY <1>1, <2>1
    <3> HIDE DEF b
    <3>2. b <= MaxInput
      BY <1>2, <3>1
    <3> QED BY <2>1, <3>2 DEF X!Sized, b
  <2>3. \A i \in DOMAIN t : t[i] \notin X!Metacharacters /\ t[i] # "." /\ t[i] # "/" /\ t[i] # "nul"
    BY <2>1 DEF X!Metacharacters
  <2>4. ~X!HoldsPair(t, ".", ".")
    BY <1>1, <2>3 DEF X!HoldsPair
  <2>5. ~X!Starts(t, "/")
    <3>1. t # <<>> => 1 \in DOMAIN t
      BY <1>1
    <3> QED BY <2>3, <3>1 DEF X!Starts
  <2> QED BY <2>2, <2>3, <2>4, <2>5 DEF X!validate_file_path, X!validate_command_arg, X!Holds
<1>4. X!validate_command_arg(t) \/ X!validate_url(t) => X!validate_http_header(t)
  BY DEF X!validate_command_arg, X!validate_url, X!validate_http_header, X!Holds, X!Metacharacters
<1> DEFINE m == IF n > MaxInput THEN MaxInput ELSE n
           s == [i \in 1..m |-> IF t[i] \in X!Control THEN "?" ELSE t[i]]
<1>5. X!sanitize_for_logging(t) = s
  BY <1>1 DEF X!sanitize_for_logging
<1>6. m \in Nat /\ m <= MaxInput
  BY <1>2
<1> HIDE DEF m
<1>7. \A i \in 1..m : s[i] \notin X!Control
  BY DEF X!Control
<1>8. Len(s) = m /\ DOMAIN s = 1..m
  BY <1>6
<1> HIDE DEF s
<1>9. X!sanitize_for_logging(s) = s
  <2>0. (IF Len(s) > MaxInput THEN MaxInput ELSE Len(s)) = m
    BY <1>2, <1>6, <1>8
  <2>1. X!sanitize_for_logging(s) = [i \in 1..m |-> IF s[i] \in X!Control THEN "?" ELSE s[i]]
    BY <2>0 DEF X!sanitize_for_logging
  <2>2. s = [i \in 1..m |-> s[i]]
    BY DEF s
  <2> QED BY <1>7, <2>1, <2>2
<1>10. X!Sized(s) => X!validate_http_header(s)
  BY <1>7, <1>8 DEF X!validate_http_header, X!Holds, X!Control
<1> QED BY <1>3, <1>4, <1>5, <1>9, <1>10

-----------------------------------------------------------------------------
(* The services side by side, as MCSecurity composes them.                 *)

\* A behaviour of the composition is one of every service.
LEMMA Projections ==
  Spec => C!Spec /\ C!MfaSpec /\ S!Spec /\ A!Spec /\ X!Spec /\ X!SandboxSpec /\ F!Spec /\ Z!Spec
<1>1. Init => C!Init /\ C!MfaInit /\ S!Init /\ A!Init /\ X!Init /\ X!SandboxInit /\ F!Init /\ Z!Init
  BY DEF Init
<1> USE DEF Next, vars, credential_vars, secret_vars, mfa_vars, approval_vars, access_vars, file_vars, memory_vars, authz_vars, audit_vars
<1>2. [Next]_vars => [C!Next]_C!vars
  BY DEF C!vars
<1>3. [Next]_vars => [C!MfaNext]_C!mfa_vars
  BY DEF C!mfa_vars
<1>4. [Next]_vars => [S!Next]_S!vars
  BY DEF S!vars
<1>5. [Next]_vars => [A!Next]_A!vars
  BY DEF A!vars
<1>6. [Next]_vars => [X!Next]_X!vars
  BY DEF X!vars
<1>7. [Next]_vars => [X!SandboxNext]_X!sandbox_vars
  BY DEF X!sandbox_vars
<1>8. [Next]_vars => [F!Next]_F!vars
  BY DEF F!vars
<1>9. [Next]_vars => [Z!Next]_Z!vars
  BY DEF Z!vars, Z!checker, Z!asker, Z!history, Z!auditlog
<1> HIDE DEF Next, vars, credential_vars, secret_vars, mfa_vars, approval_vars, access_vars, file_vars, memory_vars, authz_vars, audit_vars
<1> QED BY <1>1, <1>2, <1>3, <1>4, <1>5, <1>6, <1>7, <1>8, <1>9, PTL
        DEF Spec, C!Spec, C!MfaSpec, S!Spec, A!Spec, X!Spec, X!SandboxSpec, F!Spec, Z!Spec

\* Rotations of credentials and of secrets, however they overlap with
\* revocations, clean-ups, deletions and each other, leave versions in order
\* with the newest alone active; whoever was revoked stays out (rotate_credential,
\* security.rs:2603; rotate_secret, security.rs:2065); a value at rest and a
\* value read go with their version; and roles are nested (from_role, security.rs:2410).
THEOREM RotationsSound == Spec => []RotationSound
<1>1. C!RotationSound /\ S!ActiveVersionStored /\ S!ReadTogether /\ C!RolesNested => RotationSound
  BY DEF RotationSound
<1>2. C!RolesNested
  BY RotationsSafe
<1> QED BY <1>1, <1>2, RotationsSafe, Projections, PTL

\* A backup code is accepted once, for any number of plugins and challenges,
\* and remaining_codes is exact while one set was drawn (verify_challenge,
\* security.rs:3411); a time-based code is good in its window (security.rs:3153).
THEOREM CodesSound == Spec => []BackupCodesSound
<1>1. CodesAssumption
  BY SecurityAssumption DEF CodesAssumption
<1>2. C!BackupCodesSound => BackupCodesSound
  BY TimedCodes DEF BackupCodesSound
<1>3. C!MfaSpec => []C!BackupCodesSound
  BY <1>1, CodesSafe
<1> QED BY <1>2, <1>3, Projections, PTL

\* A cached answer follows from roles and assignments of the last Ttl, and the
\* time its asker took to store it, for any number of users, roles and askers
\* and whatever changes overlap has_permission (PermissionCache::get, authz.rs:157).
THEOREM StalenessBounded == Spec => []BoundedStaleness
<1>1. Z!Spec => []Z!BoundedStaleness
  BY SecurityAssumption, StalenessSafe
<1> QED BY <1>1, Projections, PTL DEF BoundedStaleness

\* As long as no line has moved, no JSON line below the offset or the
\* checkpoint of a replication task is missing in its remote store, for any
\* number of tasks, lines, retries and crashes (s3_replication_task, audit.rs:1596).
THEOREM CheckpointsSound == Spec => []CheckpointSound
<1>1. AuditAssumption
  BY SecurityAssumption DEF AuditAssumption
<1>2. F!Spec => []F!CheckpointSound
  BY <1>1, CheckpointsSafe
<1> QED BY <1>2, Projections, PTL DEF CheckpointSound

\* A request for a capability is in one place and in force only by an approval,
\* however approvals, denials, revocations and clean-ups overlap (approve,
\* security_rfc/policy.rs:205); plugins reach exactly the hosts, and no more paths
\* than, their permissions give (check_access, network.rs:94, filesystem.rs:88);
\* a policy that lists no more allows no more, and the checks of texts, of any
\* characters and length, are nested (security.rs:1079, 617).
THEOREM GrantsHold == Spec => []GrantsSound
<1>1. ApprovalAssumption /\ AccessAssumption
  BY SecurityAssumption DEF ApprovalAssumption, AccessAssumption
<1>2. A!ApprovalsSound /\ X!AccessSound /\ X!PoliciesOrdered => GrantsSound
  BY <1>1, ChecksHold DEF GrantsSound
<1>3. (A!Spec => []A!ApprovalsSound) /\ (X!Spec => []X!AccessSound)
  BY <1>1, ApprovalsSafe, AccessSafe
<1> QED BY <1>2, <1>3, PoliciesSafe, Projections, PTL
=============================================================================
