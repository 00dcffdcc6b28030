----------------------------- MODULE MCSecurity -----------------------------
(***************************************************************************)
(* Small instances of the security services and the audit logs of the ABI  *)
(* crate and of the permission checker, which share no state: subject says *)
(* which of them a behaviour is about, the others stand still.             *)
(***************************************************************************)
EXTENDS Integers, Sequences, FiniteSets, TLC

CONSTANTS Pair,  \* callers, threads, plugins and keys; two of them in the run
          Roles, NoRole, GracePeriod, Validity, MaxCredentials, MaxNow, MaxValue, GivenVersions,
          MaxCode, CodeCount, MaxAttempts, Timeout, MaxSecond, U32,
          Capabilities, MaxPending, Expiration, MaxIds, MaxDay, None,
          Owners, Hosts, HostPatterns, Blocked, GlobalHosts, Paths, PathPatterns, GlobalReads, Star,
          GivenModes, Ports, MaxPatterns,
          Guests, Requests, Characters, TextLength, MaxInput, MaxIdentifier, MinUrl,
          Replicas, MaxEvent, MaxLines, BatchSize, MaxRetries, MaxUpsets,
          MaxMemoryLines, Plain, Garbage,
          Kinds, Severities, MaxTime, MaxEvents, MaxPage, MaxWritten,
          Users, Ttl, MaxLag, MaxLogged

\* Limits and sizes are numbers; the codes of a draw can be counted in U32; a line
\* in plain JSON is none in a key's cipher; a path pattern has one of four forms;
\* an identifier is no longer than an input.
ASSUME SecurityAssumption ==
  /\ IsFiniteSet(Pair) /\ Pair # {} /\ MaxPending \in Nat /\ Expiration \in Nat /\ MaxIds \in Nat
  /\ CodeCount \in Nat \ {0} /\ MaxCode \in Nat /\ U32 \in Nat /\ CodeCount < U32
  /\ Ttl \in Nat /\ MaxLag \in Nat /\ BatchSize \in Nat /\ Plain \notin Pair /\ Plain # Garbage
  /\ \A q \in PathPatterns : q = [dir |-> q.dir, form |-> q.form] /\ q.form \in {"all", "star", "slash", "exact"}
  /\ GivenVersions \subseteq Nat
  /\ MaxIdentifier \in Nat /\ MaxInput \in Nat /\ MaxIdentifier <= MaxInput

VARIABLES subject,
  current, role, versions, history, issued, now, pc, revoked,
  store, meta, entries, op, values, overlap,
  enabled, codes, used, challenges, accepted, draws, second,
  pending, approved, task, ids, day, decided,
  net, fs, granted,
  file, exists, enc, job, rep, checkpoint, uploaded, moved, upsets, appends,
  events, written,
  grants, assigned, cache, asker, ask, names, answer, was_granting, was_assigned, recent, logged,
  policies

credential_vars == <<current, role, versions, history, issued, now, pc, revoked>>
secret_vars     == <<store, meta, entries, op, values, overlap>>
mfa_vars        == <<enabled, codes, used, challenges, accepted, draws, second>>
approval_vars   == <<pending, approved, task, ids, day, decided>>
access_vars     == <<net, fs, granted>>
file_vars       == <<file, exists, enc, job, rep, checkpoint, uploaded, moved, upsets, appends>>
memory_vars     == <<events, written>>
authz_vars      == <<grants, assigned, cache, asker, ask, names, answer, was_granting, was_assigned,
                     recent, logged>>
audit_vars      == <<file_vars, memory_vars>>
vars == <<subject, credential_vars, secret_vars, mfa_vars, approval_vars, access_vars, audit_vars,
          authz_vars, policies>>

\* Values of constants in the run.  Hosts 1, 2.1 and so on.
MCHosts        == {<<1>>, <<1, 2>>, <<3>>, <<4>>}
MCHostPatterns == {<<Star>>, <<1, Star>>, <<1, 2>>}
MCBlocked      == {<<3>>}
MCGlobalHosts  == {<<4>>}
\* Directory 1, a file in it, a sibling whose name starts with 1, a global one.
MCPaths        == {<<1>>, <<1, 2>>, <<11>>, <<2>>}
MCPathPatterns == [dir : {<<1>>}, form : {"exact", "slash", "star"}] \cup [dir : {<<>>}, form : {"all"}]
MCGlobalReads  == {<<2>>}
MCRequests     == {<<"/", "tmp">>, <<"/", "tmp", "x">>, <<"/", "tmp", "/", ".", ".">>, <<"a", ".", "/">>, <<"a">>, <<"/">>}

\* One plugin name contains the other; one text is the other in upper case.
PluginNames == {{0}, {0, 2}}
MessageTexts == {{0}, {1}}

C == INSTANCE Credentials WITH Callers <- Pair, Plugins <- Pair
S == INSTANCE Secrets WITH Threads <- Pair, versions <- entries, used <- values
A == INSTANCE Approvals WITH Plugins <- Pair, Threads <- Pair, pc <- task, now <- day, MaxNow <- MaxDay
X == INSTANCE AccessControl WITH Plugins <- Owners
F == INSTANCE AuditLog WITH Keys <- Pair, Names <- PluginNames, Texts <- MessageTexts
Z == INSTANCE Authz WITH Askers <- Pair, pc <- asker, events <- recent

Init ==
  /\ subject \in {"credentials", "secrets", "mfa", "approvals", "access", "file", "memory",
                  "authz", "sandbox"}
  /\ C!Init /\ S!Init /\ C!MfaInit /\ A!Init /\ X!Init /\ F!Init /\ F!MemoryInit /\ Z!Init /\ X!SandboxInit
  /\ subject # "file" => enc = <<>>

Next ==
  \/ /\ subject = "credentials" /\ C!Next
     /\ UNCHANGED <<subject, secret_vars, mfa_vars, approval_vars, access_vars, audit_vars, authz_vars, policies>>
  \/ /\ subject = "secrets" /\ S!Next
     /\ UNCHANGED <<subject, credential_vars, mfa_vars, approval_vars, access_vars, audit_vars, authz_vars, policies>>
  \/ /\ subject = "mfa" /\ C!MfaNext
     /\ UNCHANGED <<subject, credential_vars, secret_vars, approval_vars, access_vars, audit_vars, authz_vars, policies>>
  \/ /\ subject = "approvals" /\ A!Next
     /\ UNCHANGED <<subject, credential_vars, secret_vars, mfa_vars, access_vars, audit_vars, authz_vars, policies>>
  \/ /\ subject = "access" /\ X!Next
     /\ UNCHANGED <<subject, credential_vars, secret_vars, mfa_vars, approval_vars, audit_vars, authz_vars, policies>>
  \/ /\ subject = "file" /\ F!Next
     /\ UNCHANGED <<subject, credential_vars, secret_vars, mfa_vars, approval_vars, access_vars,
                    memory_vars, authz_vars, policies>>
  \/ /\ subject = "memory" /\ F!MemoryNext
     /\ UNCHANGED <<subject, credential_vars, secret_vars, mfa_vars, approval_vars, access_vars,
                    file_vars, authz_vars, policies>>
  \/ /\ subject = "authz" /\ Z!Next
     /\ UNCHANGED <<subject, credential_vars, secret_vars, mfa_vars, approval_vars, access_vars,
                    audit_vars, policies>>
  \/ /\ subject = "sandbox" /\ X!SandboxNext
     /\ UNCHANGED <<subject, credential_vars, secret_vars, mfa_vars, approval_vars, access_vars,
                    audit_vars, authz_vars>>

Spec == Init /\ [][Next]_vars

\* Neither of the two is told apart from the other.
Symmetry == Permutations(Pair)

\* Credentials and Secrets: no rotation undoes a revocation, versions stay in
\* order, and the newest version alone is active and is the stored value
\* (rotate_credential, security.rs:2603; rotate_secret, security.rs:2065); and
\* roles are nested (from_role, security.rs:2410).
RotationSound == C!RotationSound /\ S!ActiveVersionStored /\ S!ReadTogether /\ (issued = 0 /\ subject = "credentials" => C!RolesNested)

\* Credentials: a backup code is accepted once (verify_challenge, security.rs:3411), a
\* time-based one in its window (verify_code, security.rs:3153).
BackupCodesSound == C!BackupCodesSound /\ (draws = 0 /\ subject = "mfa" => C!TotpWindow)

\* Approvals and AccessControl: a request is in one place and in force only by
\* an approval, and plugins reach what their permissions give (approve,
\* security_rfc/policy.rs:205; check_access, security_rfc/network.rs:94 and
\* security_rfc/filesystem.rs:88); a sandbox policy that lists no more allows
\* no more, and checks of texts are nested (security.rs:1079, 617).
GrantsSound ==
  /\ A!ApprovalsSound
  /\ subject = "access" => X!AccessSound
  /\ subject = "sandbox" => X!PoliciesOrdered /\ (policies = <<>> => X!ChecksNested)

\* AuditLog: what a replication task counts as done is in the remote store
\* (s3_replication_task, audit.rs:1596; postgres_replication_task, audit.rs:1737).
CheckpointSound == F!CheckpointSound

\* AuditLog: the file answers a query as the in-memory log
\* does, and its buckets, counts, searches and combined filters agree
\* (FileAuditLog::read, audit.rs:1918; AuditLogBackend, audit.rs:387).
AnswersAgree == /\ subject = "file" => F!QueriesAgree
                /\ subject = "memory" => F!AnswersAgree

\* Authz: a cached answer follows from roles and assignments of the last Ttl
\* (PermissionCache::get, authz.rs:157).
BoundedStaleness == Z!BoundedStaleness
=============================================================================
