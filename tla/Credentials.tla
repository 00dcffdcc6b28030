---------------------------- MODULE Credentials -----------------------------
(***************************************************************************)
(* PluginAuthenticator of abi/src/security.rs: credentials and roles of    *)
(* plugins, and rotations, which several callers may run at once.  A       *)
(* rotation takes its locks one after the other; register_plugin, revoke   *)
(* and authenticate keep the credentials locked while they use the roles   *)
(* and are single steps.                                                   *)
(*                                                                         *)
(* A credential is its number and the time it was issued.                  *)
(***************************************************************************)
EXTENDS Sequences, Integers, FiniteSets

CONSTANTS Callers, Roles, NoRole, GracePeriod, Validity, MaxCredentials, MaxNow

VARIABLES current,  \* the plugin's credential, NoCredential when it has none
          role,     \* the plugin's role, NoRole when it has none
          versions, \* credential_versions of the plugin
          history,  \* rotations recorded: from and to version
          issued,   \* number of credentials made so far
          now,
          pc,       \* the rotation each caller is in
          revoked   \* history: revoke has returned, and no role was given since

vars == <<current, role, versions, history, issued, now, pc, revoked>>

NoCredential == [id |-> 0, at |-> 0]
Idle == [at |-> "idle"]

Init == /\ current = NoCredential /\ role = NoRole
        /\ versions = <<>> /\ history = {}
        /\ issued = 0 /\ now = 0
        /\ pc = [c \in Callers |-> Idle]
        /\ revoked = FALSE

\* PluginCredential::new
NewCredential == [id |-> issued + 1, at |-> now]
Issue == issued < MaxCredentials /\ issued' = issued + 1

is_expired(c) == now > c.at + Validity

\* Whether authenticate answers with a role.
authenticate == current # NoCredential /\ ~is_expired(current) /\ role # NoRole

is_in_grace_period(t) == now - t < GracePeriod

register_plugin == /\ Issue
                   /\ current' = NewCredential
                   /\ \E r \in Roles : role' = r
                   /\ revoked' = FALSE
                   /\ UNCHANGED <<versions, history, now, pc>>

set_role == /\ \E r \in Roles : role' = r
            /\ revoked' = FALSE
            /\ UNCHANGED <<current, versions, history, issued, now, pc>>

RevokeCredential == /\ current' = NoCredential
                    /\ revoked' = TRUE
                    /\ UNCHANGED <<role, versions, history, issued, now, pc>>

revoke == /\ current' = NoCredential /\ role' = NoRole
          /\ revoked' = TRUE
          /\ UNCHANGED <<versions, history, issued, now, pc>>

\* What a role may do; each has what the one before it has.
RoleOrder == <<"None", "Viewer", "Editor", "Admin", "System">>
can(r, act) ==
  r \in (CASE act = "read" -> {"Viewer", "Editor", "Admin", "System"} [] act = "write" -> {"Editor", "Admin", "System"}
           [] act = "admin" -> {"Admin", "System"} [] act = "system" -> {"System"})
from_role(r) ==
  CASE r = "None" -> {}
    [] r = "Viewer" -> {"read_config"}
    [] r = "Editor" -> {"read_config", "write_config", "access_network"}
    [] r = "Admin" -> {"read_config", "write_config", "read_secrets", "write_secrets", "access_network", "manage_plugins",
                       "access_audit_logs"}
    [] r = "System" -> {"read_config", "write_config", "read_secrets", "write_secrets", "access_network", "manage_plugins",
                        "access_audit_logs", "system_admin"}
check_permission(r, permission) == permission \in from_role(r)

\* rotate_credential reads the old credential and makes the new one ...
rotate_credential(c) == /\ pc[c] = Idle /\ current # NoCredential
                        /\ Issue
                        /\ pc' = [pc EXCEPT ![c] = [at |-> "version", new |-> NewCredential]]
                        /\ UNCHANGED <<current, role, versions, history, now, revoked>>

\* ... appends its version and puts the last one in its grace period ...
PushVersion(c) ==
  /\ pc[c].at = "version"
  /\ LET n   == Len(versions)
         num == IF n = 0 THEN 1 ELSE versions[n].version + 1
         old == [i \in 1..n |-> IF i = n THEN [versions[i] EXCEPT !.status = "Grace", !.retired = now]
                                ELSE versions[i]]
     IN /\ versions' = Append(old, [version |-> num, cred |-> pc[c].new,
                                    status |-> "Active", retired |-> 0])
        /\ pc' = [pc EXCEPT ![c] = [at |-> "insert", new |-> @.new, num |-> num]]
  /\ UNCHANGED <<current, role, history, issued, now, revoked>>

\* ... replaces the current credential, whatever became of it meanwhile ...
InsertCredential(c) == /\ pc[c].at = "insert"
                       /\ current' = pc[c].new
                       /\ pc' = [pc EXCEPT ![c].at = "record"]
                       /\ UNCHANGED <<role, versions, history, issued, now, revoked>>

\* ... and records the step from the last version but one.
Record(c) == /\ pc[c].at = "record"
             /\ LET n == Len(versions)
                IN  history' = history \cup
                      {[from |-> IF n > 1 THEN versions[n - 1].version ELSE 0, to |-> pc[c].num]}
             /\ pc' = [pc EXCEPT ![c] = Idle]
             /\ UNCHANGED <<current, role, versions, issued, now, revoked>>

\* The version authenticate_with_grace_period answers with, 0 when it fails.
GraceVersion ==
  LET usable == {i \in 1..Len(versions) :
                   \/ versions[i].status = "Active"
                   \/ /\ versions[i].status = "Grace"
                      /\ is_in_grace_period(versions[i].retired)
                      /\ ~is_expired(versions[i].cred)}
  IN  IF ~authenticate \/ usable = {} THEN 0
      ELSE versions[CHOOSE i \in usable : \A j \in usable : j <= i].version

\* Only Retired versions past their grace period are dropped.
is_dropped(v) == v.status = "Retired" /\ ~is_in_grace_period(v.retired)

cleanup_expired_credentials ==
  /\ versions' = IF \E i \in 1..Len(versions) : is_dropped(versions[i])
                 THEN SelectSeq(versions, LAMBDA v : ~is_dropped(v)) ELSE versions
  /\ UNCHANGED <<current, role, history, issued, now, pc, revoked>>

Tick == /\ now < MaxNow /\ now' = now + 1
        /\ UNCHANGED <<current, role, versions, history, issued, pc, revoked>>

Next == \/ register_plugin \/ set_role \/ revoke \/ cleanup_expired_credentials \/ Tick
        \/ \E c \in Callers : \/ rotate_credential(c) \/ PushVersion(c)
                              \/ InsertCredential(c) \/ Record(c)

Spec == Init /\ [][Next]_vars

-----------------------------------------------------------------------------
\* A revoked plugin is not authenticated, with or without the grace period,
\* even when a rotation that was under way puts a credential back
\* (revoke, rotate_credential); and whatever the overlap of rotations,
\* versions are numbered in order without gaps, the newest alone is active,
\* and it is the one authenticate_with_grace_period answers with.
RotationSound ==
  LET n == Len(versions) IN
    /\ revoked => ~authenticate /\ GraceVersion = 0
    /\ \A i \in 1..n : versions[i].version = i
                       /\ (versions[i].status = "Active" <=> i = n)
    /\ n > 0 /\ authenticate => GraceVersion = n

\* A higher role has every permission of a lower one and one more, and the
\* two tables of what a role may do agree (security.rs:2372, 2409).
RolesNested ==
  \A i \in DOMAIN RoleOrder :
    LET r == RoleOrder[i]
    IN  /\ i > 1 => from_role(RoleOrder[i - 1]) \subseteq from_role(r) /\ from_role(RoleOrder[i - 1]) # from_role(r)
        /\ can(r, "read") <=> check_permission(r, "read_config")
        /\ can(r, "write") <=> check_permission(r, "write_config")
        /\ can(r, "admin") <=> check_permission(r, "manage_plugins")
        /\ can(r, "system") <=> check_permission(r, "system_admin")

-----------------------------------------------------------------------------
(***************************************************************************)
(* MFAManager, BackupCodeProvider and the MFA methods of                   *)
(* PluginAuthenticator (abi/src/security.rs).  Every method is one step:   *)
(* verify_challenge holds the challenges, and verify_code the codes, to    *)
(* the end.                                                                *)
(*                                                                         *)
(* A challenge is named by its plugin and the second it was made in.  A    *)
(* backup code is a number; a draw takes the next ones.  A time-based code *)
(* changes no state and is what its secret and its interval make it; the   *)
(* factors are left out, no check consults them.                           *)
(***************************************************************************)

CONSTANTS Plugins, MaxCode, CodeCount, MaxAttempts, Timeout, MaxSecond, U32

VARIABLES enabled,    \* plugins with MFA switched on
          codes,      \* plugin -> stored backup codes
          used,       \* used_codes, of all plugins together
          challenges, \* <<plugin, second>> -> [method, attempts], in force
          accepted,   \* history: code -> times it was accepted
          draws,      \* history: calls of generate_codes
          second

mfa_vars == <<enabled, codes, used, challenges, accepted, draws, second>>

Methods == {"TOTP", "BackupCodes"}
Codes == 1..MaxCode

MfaInit == /\ enabled = {}
           /\ codes = [p \in Plugins |-> {}] /\ used = {}
           /\ challenges = {}
           /\ accepted = [c \in Codes |-> 0]
           /\ draws = 0 /\ second = 0

SetMfa(p) == /\ enabled' \in {enabled \cup {p}, enabled \ {p}}
             /\ UNCHANGED <<codes, used, challenges, accepted, draws, second>>

\* register_mfa_backup_codes: generate_codes replaces the plugin's codes.
generate_codes(p) ==
  /\ CodeCount * (draws + 1) <= MaxCode
  /\ draws' = draws + 1
  /\ codes' = [codes EXCEPT ![p] = {c \in Codes : (c - 1) \div CodeCount = draws}]
  /\ UNCHANGED <<enabled, used, challenges, accepted, second>>

\* create_challenge replaces a challenge of the same plugin and second.
create_challenge(p, m) ==
  /\ p \in enabled
  /\ challenges' = {c \in challenges : c.plugin # p \/ c.at # second}
                     \cup {[plugin |-> p, at |-> second, method |-> m, attempts |-> 0]}
  /\ UNCHANGED <<enabled, codes, used, accepted, draws, second>>

\* BackupCodeProvider::verify_code: a stored code that was not used before.
Accepts(p, c) == c \in codes[p] /\ c \notin used

VerifyUnlisted(ch, c) ==
  IF second > ch.at + Timeout \/ ch.attempts >= MaxAttempts
  THEN /\ challenges' = challenges \ {ch}
       /\ UNCHANGED <<used, accepted>>
  ELSE /\ challenges' = (challenges \ {ch}) \cup {[ch EXCEPT !.attempts = @ + 1]}
       /\ used' = used \cup {c}
       /\ accepted' = IF Accepts(ch.plugin, c) THEN [accepted EXCEPT ![c] = @ + 1] ELSE accepted

\* verify_challenge: expired or exhausted challenges are removed, others count
\* the attempt and check the code.
verify_challenge(ch, c) ==
  IF second > ch.at + Timeout \/ ch.attempts >= MaxAttempts
  THEN /\ challenges' = challenges \ {ch}
       /\ UNCHANGED <<used, accepted>>
  ELSE /\ challenges' = (challenges \ {ch}) \cup {[ch EXCEPT !.attempts = @ + 1]}
       /\ IF ch.method = "BackupCodes" /\ Accepts(ch.plugin, c)
            THEN used' = used \cup {c} /\ accepted' = [accepted EXCEPT ![c] = @ + 1]
            ELSE UNCHANGED <<used, accepted>>

\* verify_mfa_challenge, also as the second half of authenticate_with_mfa.
VerifyChallenge == /\ \E ch \in challenges, c \in Codes : verify_challenge(ch, c)
                   /\ UNCHANGED <<enabled, codes, draws, second>>

\* TOTPProvider: a code is of a secret and an interval of 30 seconds; a check also
\* tries the intervals up to window_size away, and none before the first.
Interval == 30
window_size == 1
time_counter(seconds) == seconds \div Interval
generate_code(secret, seconds) == <<secret, time_counter(seconds)>>
verify_code(secret, code, seconds) ==
  \E i \in 0..window_size :
    LET n == time_counter(seconds)
    IN  code \in {<<secret, IF n < i THEN 0 ELSE n - i>>, <<secret, n + i>>}
window_size_seconds == window_size * Interval

MfaTick == /\ second < MaxSecond /\ second' = second + 1
           /\ UNCHANGED <<enabled, codes, used, challenges, accepted, draws>>

MfaNext == \/ MfaTick \/ VerifyChallenge
           \/ \E p \in Plugins :
                \/ SetMfa(p) \/ generate_codes(p)
                \/ \E m \in Methods : create_challenge(p, m)

MfaSpec == MfaInit /\ [][MfaNext]_mfa_vars

-----------------------------------------------------------------------------
\* remaining_codes subtracts the used codes of all plugins, modulo U32 (2^32).
remaining_codes(p) == IF codes[p] = {} THEN 0 ELSE (CodeCount - Cardinality(used)) % U32

\* A backup code opens one challenge in its life, whatever challenges, new
\* codes and factors come between; and as long as one set of codes was drawn,
\* remaining_codes is the number of codes that can still be used.
BackupCodesSound ==
  /\ \A c \in Codes : accepted[c] <= 1
  /\ draws <= 1 => \A p \in Plugins : remaining_codes(p) = Cardinality(codes[p] \ used)

Moments == {Interval * k + d : k \in 0..3, d \in {0, 1, Interval - 1}}

InWindow(made, checked, other) ==
  LET late == IF checked > made THEN checked - made ELSE made - checked
      accepts == verify_code(IF other THEN "b" ELSE "a", generate_code("a", made), checked)
  IN  /\ accepts => ~other /\ late < window_size_seconds + Interval
      /\ ~other /\ late <= window_size_seconds => accepts

\* A time-based code is accepted for its own secret only, up to window_size
\* seconds early or late for certain, and never a whole interval beyond that
\* (TOTPProvider::verify_code, security.rs:3153).
TotpWindow == \A made, checked \in Moments, other \in BOOLEAN : InWindow(made, checked, other)
=============================================================================
