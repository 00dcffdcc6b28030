--------------------------- MODULE AccessControl ----------------------------
(***************************************************************************)
(* NetworkEnforcer and FilesystemEnforcer (abi/src/security_rfc): what     *)
(* plugins may reach, as permissions are registered, added and removed.    *)
(*                                                                         *)
(* A host is the sequence of its labels, the top one first; a host pattern *)
(* is a sequence that may end in Star (a leading * in the text).  A path,  *)
(* after resolve_vfs_path, is a sequence of names; a name n also starts    *)
(* the longer name n + 10.  A path pattern is [dir, form], with form       *)
(* "exact", "slash" (ends in "/"), "star" (ends in "/" and a star) or      *)
(* "all" (a star).                                                         *)
(***************************************************************************)
EXTENDS Integers, Sequences, FiniteSets, SequencesExt

CONSTANTS Plugins, Hosts, HostPatterns, Blocked, GlobalHosts,
          Paths, PathPatterns, GlobalReads, GivenModes, Ports, MaxPatterns, Star

VARIABLES net,     \* plugin -> host permissions, in order
          fs,      \* plugin -> path permissions, in order
          granted  \* history: what the permissions now registered were to give

vars == <<net, fs, granted>>

Modes == {"Read", "ReadWrite", "WriteOnly", "Append"}

Init == /\ net = [p \in Plugins |-> <<>>] /\ fs = [p \in Plugins |-> <<>>]
        /\ granted = [p \in Plugins |-> {}]

\* CapabilityStatus Approved and AutoApproved count, the others do not.
Approved(s) == s \in {"Approved", "AutoApproved"}

-----------------------------------------------------------------------------
\* host_matches_pattern: "*.example.com" also stands for "example.com".
host_matches_pattern(h, q) ==
  LET base == Front(q) IN
    \/ q = <<Star>> \/ h = q
    \/ q # <<>> /\ Last(q) = Star /\ IsPrefix(base, h)

\* Empty lists of ports allow every port; protocols are treated alike.
Covers(p, h, port) == /\ Approved(p.status)
                      /\ host_matches_pattern(h, p.host)
                      /\ p.ports = {} \/ port \in p.ports

net_check_access(plugin, h, port) ==
  /\ \A b \in Blocked : ~host_matches_pattern(h, b)
  /\ \/ \E g \in GlobalHosts : host_matches_pattern(h, g)
     \/ \E i \in DOMAIN net[plugin] : Covers(net[plugin][i], h, port)

\* str::starts_with on the text of two paths.
starts_with(path, dir) ==
  \/ IsPrefix(dir, path)
  \/ /\ dir # <<>> /\ Len(path) >= Len(dir)
     /\ IsPrefix(Front(dir), path)
     /\ path[Len(dir)] \in {Last(dir), Last(dir) + 10}

path_matches(path, q) ==
  CASE q.form = "all"   -> TRUE
    [] q.form = "star"  -> starts_with(path, q.dir)
    [] q.form = "slash" -> IsStrictPrefix(q.dir, path)
    [] q.form = "exact" -> IsPrefix(q.dir, path)

mode_compatible(given, asked) ==
  \/ given = "ReadWrite" \/ given = asked
  \/ given = "WriteOnly" /\ asked = "Append"

fs_check_access(plugin, path, mode) ==
  \/ mode = "Read" /\ \E g \in GlobalReads : starts_with(path, g)
  \/ \E i \in DOMAIN fs[plugin] :
       LET q == fs[plugin][i]
       IN  Approved(q.status) /\ path_matches(path, q.path) /\ mode_compatible(q.mode, mode)

-----------------------------------------------------------------------------
HostPermission == [host : HostPatterns, ports : SUBSET Ports, status : {"Approved", "Revoked"}]
PathPermission == [path : PathPatterns, mode : GivenModes, status : {"AutoApproved", "Pending"}]

\* What a permission is to give.
HostGrant(q) == IF Approved(q.status)
                THEN {<<"host", h, port>> : h \in {h \in Hosts : host_matches_pattern(h, q.host)},
                                            port \in IF q.ports = {} THEN Ports ELSE q.ports}
                ELSE {}
PathGrant(q) == IF Approved(q.status)
                THEN {<<"path", d, m>> : d \in {d \in Paths : q.path.form = "all" \/ IsPrefix(q.path.dir, d)},
                                         m \in {m \in Modes : mode_compatible(q.mode, m)}}
                ELSE {}

OfHosts(g) == {x \in g : x[1] = "host"}

\* register_permissions replaces the plugin's list, add_permission appends.
net_register_permissions(p, q) ==
  /\ net' = [net EXCEPT ![p] = <<q>>]
  /\ granted' = [granted EXCEPT ![p] = (@ \ OfHosts(@)) \cup HostGrant(q)]
  /\ UNCHANGED fs

net_add_permission(p, q) ==
  /\ Len(net[p]) < MaxPatterns
  /\ net' = [net EXCEPT ![p] = Append(@, q)]
  /\ granted' = [granted EXCEPT ![p] = @ \cup HostGrant(q)]
  /\ UNCHANGED fs

fs_register_permissions(p, q) ==
  /\ fs' = [fs EXCEPT ![p] = <<q>>]
  /\ granted' = [granted EXCEPT ![p] = OfHosts(@) \cup PathGrant(q)]
  /\ UNCHANGED net

fs_add_permission(p, q) ==
  /\ Len(fs[p]) < MaxPatterns
  /\ fs' = [fs EXCEPT ![p] = Append(@, q)]
  /\ granted' = [granted EXCEPT ![p] = @ \cup PathGrant(q)]
  /\ UNCHANGED net

\* remove_plugin of both enforcers.
remove_plugin(p) == /\ net' = [net EXCEPT ![p] = <<>>] /\ fs' = [fs EXCEPT ![p] = <<>>]
                    /\ granted' = [granted EXCEPT ![p] = {}]

Next == \E p \in Plugins :
  \/ remove_plugin(p)
  \/ \E q \in HostPermission : net_register_permissions(p, q) \/ net_add_permission(p, q)
  \/ \E q \in PathPermission : fs_register_permissions(p, q) \/ fs_add_permission(p, q)

Spec == Init /\ [][Next]_vars

-----------------------------------------------------------------------------
\* After any sequence of registrations a plugin reaches exactly what its own
\* current permissions give, plus what is open to all: never a blocked host;
\* a directory gives itself and what is below it, and only a "star"
\* pattern gives siblings whose names begin alike (NetworkEnforcer::check_access,
\* FilesystemEnforcer::check_access).
AccessSound == \A p \in Plugins :
  /\ \A h \in Hosts, port \in Ports :
       net_check_access(p, h, port) <=>
         /\ \A b \in Blocked : ~host_matches_pattern(h, b)
         /\ \/ <<"host", h, port>> \in granted[p]
            \/ \E g \in GlobalHosts : host_matches_pattern(h, g)
  /\ \A d \in Paths, m \in Modes :
       LET starred == \E i \in DOMAIN fs[p] : fs[p][i].path.form = "star"
           open    == m = "Read" /\ \E g \in GlobalReads : starts_with(d, g)
       IN  /\ fs_check_access(p, d, m) => <<"path", d, m>> \in granted[p] \/ starred \/ open
           /\ <<"path", d, m>> \in granted[p] =>
                \/ fs_check_access(p, d, m)
                \/ \E i \in DOMAIN fs[p] : fs[p][i].path = [dir |-> d, form |-> "slash"]

-----------------------------------------------------------------------------
(***************************************************************************)
(* SandboxEnforcer with its policies, and InputValidator                   *)
(* (abi/src/security.rs).  Every check keeps the policies locked.  A text  *)
(* is a sequence of characters, where a URL's protocol counts as one of    *)
(* several bytes.                                                          *)
(***************************************************************************)

CONSTANTS Guests, Requests,
          Characters,     \* those of texts
          TextLength,     \* bound on the characters of a text
          MaxInput,       \* MAX_INPUT_LENGTH, in bytes
          MaxIdentifier,  \* 128
          MinUrl          \* 10

VARIABLE policies  \* plugin -> its policy, where registered
sandbox_vars == policies

Protocols == {"http://", "https://", "ftp://"}
Texts == UNION {[1..n -> Characters] : n \in 0..TextLength}

\* str::len and str::contains; a letter of two bytes is one of Characters.
Count(text, c) == Cardinality({i \in DOMAIN text : text[i] = c})
Bytes(text) == Len(text) + 6 * Count(text, "http://") + 7 * Count(text, "https://") + 5 * Count(text, "ftp://")
                 + Count(text, "two bytes")
Holds(text, cs) == \E i \in DOMAIN text : text[i] \in cs
HoldsPair(text, c, d) == \E i \in 1..(Len(text) - 1) : text[i] = c /\ text[i + 1] = d
Starts(text, c) == text # <<>> /\ text[1] = c

-----------------------------------------------------------------------------
(* Policies.                                                               *)

FileRead == "FILE_READ"
FileWrite == "FILE_WRITE"
NetworkOutbound == "NETWORK_OUTBOUND"
PluginCapabilities == {"READ_CONFIG", "WRITE_CONFIG", "READ_SECRETS", "WRITE_SECRETS", NetworkOutbound, FileRead, FileWrite,
                 "PROCESS_SPAWN", "MEMORY_MMAP", "SYSTEM_CALLS"}

permissive  == [caps |-> PluginCapabilities, memory |-> 2048, paths |-> {}, ports |-> {}, env |-> {}]
restrictive == [caps |-> {"READ_CONFIG"}, memory |-> 128, paths |-> {<<"/", "tmp">>}, ports |-> {}, env |-> {"PATH", "HOME"}]

has_capability(policy, c) == c \in policy.caps
\* By the beginning of the text, whatever follows it; an empty list denies all.
can_access_path(policy, path) ==
  /\ policy.paths # {} /\ ~HoldsPair(path, ".", ".") /\ ~HoldsPair(path, ".", "/")
  /\ \E p \in policy.paths : IsPrefix(p, path)
can_use_port(policy, port) == port \in policy.ports
can_access_env_var(policy, v) == v \in policy.env

\* A plugin without a policy is denied everything.
check_file_access(p, path, write) ==
  /\ p \in DOMAIN policies
  /\ has_capability(policies[p], IF write THEN FileWrite ELSE FileRead) /\ can_access_path(policies[p], path)
check_network_access(p, port) ==
  p \in DOMAIN policies /\ has_capability(policies[p], NetworkOutbound) /\ can_use_port(policies[p], port)
check_memory_limit(p, bytes) == p \in DOMAIN policies /\ bytes <= policies[p].memory

\* Policies a caller puts together itself.
Custom == {[permissive EXCEPT !.paths = {<<"/", "tmp">>}, !.ports = Ports],
           [permissive EXCEPT !.paths = {<<"/", "tmp">>, <<"a">>}, !.ports = Ports, !.env = {"PATH", "HOME"}],
           [restrictive EXCEPT !.caps = {"READ_CONFIG", FileRead}]}
Policies == {permissive, restrictive} \cup Custom

SandboxInit == policies = <<>>
register_plugin(p, policy) == policies' = [q \in DOMAIN policies \cup {p} |-> IF q = p THEN policy ELSE policies[q]]
SandboxNext == \E p \in Guests, policy \in Policies : register_plugin(p, policy)
SandboxSpec == SandboxInit /\ [][SandboxNext]_sandbox_vars

-----------------------------------------------------------------------------
(* Texts from outside.                                                     *)

Control == {"nul", "lf", "cr", "tab"}
Metacharacters == {"$", "backtick", "|", ";", "&", "<", ">", "(", ")", "{", "}", "lf", "cr", "nul"}
Sized(text) == text # <<>> /\ Bytes(text) <= MaxInput

validate_sql_identifier(text) ==
  /\ text # <<>> /\ Bytes(text) <= MaxIdentifier /\ ~Starts(text, "1")
  /\ ~Holds(text, Characters \ {"a", "1", "two bytes", "_", "-"})
validate_file_path(text) == Sized(text) /\ ~HoldsPair(text, ".", ".") /\ ~Starts(text, "/") /\ ~Holds(text, {"nul"})
validate_command_arg(text) == Sized(text) /\ ~Holds(text, Metacharacters)
validate_http_header(text) == Sized(text) /\ ~Holds(text, {"cr", "lf", "nul"})
validate_url(text) ==
  /\ Sized(text) /\ (Starts(text, "http://") \/ Starts(text, "https://")) /\ ~Holds(text, {"nul"})
  /\ Bytes(text) >= MinUrl /\ ~Holds(text, {"tab", "cr", "lf"})
\* The limit is on characters here, on bytes everywhere else.
sanitize_for_logging(text) ==
  [i \in 1..(IF Len(text) > MaxInput THEN MaxInput ELSE Len(text)) |-> IF text[i] \in Control THEN "?" ELSE text[i]]

-----------------------------------------------------------------------------
\* Whoever has no policy is denied, and of two policies the one that lists no
\* more never allows more, whatever is asked (security.rs:1079 to 1181).
NoMore(a, b) == a.caps \subseteq b.caps /\ a.memory <= b.memory /\ a.paths \subseteq b.paths /\ a.ports \subseteq b.ports /\ a.env \subseteq b.env
PoliciesOrdered ==
  /\ \A p \in Guests \ DOMAIN policies :
       \A r \in Requests : ~check_file_access(p, r, FALSE) /\ ~check_memory_limit(p, 0) /\ \A port \in Ports : ~check_network_access(p, port)
  /\ \A p, q \in DOMAIN policies : NoMore(policies[p], policies[q]) =>
       /\ \A r \in Requests, w \in BOOLEAN : check_file_access(p, r, w) => check_file_access(q, r, w)
       /\ \A port \in Ports : check_network_access(p, port) => check_network_access(q, port)
       /\ \A m \in {0, 128, 129, 2048, 2049} : check_memory_limit(p, m) => check_memory_limit(q, m)
       /\ \A v \in {"PATH", "USER"} : can_access_env_var(policies[p], v) => can_access_env_var(policies[q], v)

\* What the stricter checks accept the laxer ones do too: an identifier is a path
\* and an argument, an argument or a URL is a header value; a text made safe for
\* the log is safe in a header and changes no more (security.rs:617 to 811).
ChecksNested ==
  \A t \in Texts :
    /\ validate_sql_identifier(t) => validate_file_path(t) /\ validate_command_arg(t)
    /\ validate_command_arg(t) \/ validate_url(t) => validate_http_header(t)
    /\ LET s == sanitize_for_logging(t)
       IN  sanitize_for_logging(s) = s /\ (Sized(s) => validate_http_header(s))
=============================================================================
