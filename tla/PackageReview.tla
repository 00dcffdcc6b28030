---------------------------- MODULE PackageReview ----------------------------
(***************************************************************************)
(* What the packager says of a package before it is published: known       *)
(* vulnerabilities and licenses (plugin-packager/src/security.rs), sandbox *)
(* checks (sandbox.rs), the manifest (validation.rs) and signatures        *)
(* (signature.rs).  A text is what the checks look at: its length, or the  *)
(* parts of a version.                                                     *)
(***************************************************************************)
EXTENDS Integers, Sequences, SequencesExt, FiniteSets, FiniteSetsExt

CONSTANTS Versions,      \* versions of dependencies
          Licenses,      \* SPDX identifiers met
          KeyIds, Materials,
          MaxFacts,      \* bound: vulnerabilities and dependencies
          MaxRequests    \* bound: permissions

VARIABLES known,             \* known_vulnerabilities: [severity, affected]
          approved_licenses,
          dependencies,      \* of the package: [version, license]
          permissions,       \* requested, in their order
          keys,              \* key id -> [material, private], or NoKey
          trusted,
          bound              \* the material that was trusted under an id, a history

scan_vars == <<known, approved_licenses, dependencies>>
key_vars  == <<keys, trusted, bound>>
vars == <<scan_vars, permissions, key_vars>>

\* Severities and risks from the least: Informational or Safe is 0, Critical is 4.
Informational == 0
High == 3
Critical == 4
Permissive == {"MIT", "Apache2", "BSD", "ISC"}

from_spdx(id) == CASE id = "MIT" -> "MIT" [] id = "APACHE-2.0" -> "Apache2"
                   [] id \in {"BSD-2-CLAUSE", "BSD-3-CLAUSE"} -> "BSD" [] id = "ISC" -> "ISC"
                   [] id = "GPL-2.0" -> "GPL2" [] id = "GPL-3.0" -> "GPL3"
                   [] id = "MPL-2.0" -> "MPL2" [] OTHER -> id

severity(p) == CASE p \in {"FileSystem", "Network"} -> 7 [] p = "ProcessCreation" -> 9
                 [] p = "SystemCall" -> 10 [] p = "EnvironmentAccess" -> 3
                 [] p = "ThreadCreation" -> 5 [] p = "MemoryAllocation" -> 4
                 [] p = "TimerAccess" -> 2 [] p = "SignalHandling" -> 8
Permissions == {"FileSystem", "Network", "ProcessCreation", "SystemCall", "EnvironmentAccess",
                "ThreadCreation", "MemoryAllocation", "TimerAccess", "SignalHandling"}

NoKey == [material |-> 0, private |-> FALSE]

Init == /\ known = <<>> /\ approved_licenses = Permissive /\ dependencies = <<>>
        /\ permissions = <<>>
        /\ keys = [k \in KeyIds |-> NoKey] /\ trusted = {} /\ bound = [k \in KeyIds |-> 0]

-----------------------------------------------------------------------------
\* Every known vulnerability of the version of a dependency counts, whatever the
\* dependency's name.
Found == {<<i, j>> \in (DOMAIN dependencies) \X (DOMAIN known) :
            known[j].affected = dependencies[i].version}
CountFrom(s) == Cardinality({f \in Found : known[f[2]].severity >= s})

assess_risk_level(total, high, critical) ==
  CASE critical > 0 -> 4 [] high > 2 -> 3 [] high > 0 -> 2 [] total > 5 -> 1 [] OTHER -> 0

scan_plugin == [vulnerabilities |-> Found, dependency_count |-> Len(dependencies),
                high |-> CountFrom(High), critical |-> CountFrom(Critical),
                risk |-> assess_risk_level(Cardinality(Found), CountFrom(High), CountFrom(Critical))]

check_license_compliance ==
  {[dependency |-> i, is_approved |-> from_spdx(dependencies[i].license) \in approved_licenses] :
     i \in DOMAIN dependencies}

\* The number of high ones that a threshold of this severity allows.
Allowed(threshold) == CASE threshold = 0 -> 10 [] threshold = 1 -> 5 [] threshold = 2 -> 2
                        [] threshold = 3 -> 1 [] threshold = 4 -> 0
is_acceptable(scan, threshold) == scan.critical = 0 /\ scan.high <= Allowed(threshold)

ApproveByScan(scan, licenses) == scan.critical = 0 /\ scan.high <= 1

Approve(scan, licenses) == /\ scan.critical = 0 /\ scan.high <= 1
                           /\ \A l \in licenses : l.is_approved

register_vulnerability(s, v) == /\ Len(known) < MaxFacts
                                /\ known' = Append(known, [severity |-> s, affected |-> v])
                                /\ UNCHANGED <<approved_licenses, dependencies, permissions, key_vars>>
approve_license(l) == /\ l \notin approved_licenses
                      /\ approved_licenses' = approved_licenses \cup {l}
                      /\ UNCHANGED <<known, dependencies, permissions, key_vars>>
AddDependency(v, l) == /\ Len(dependencies) < MaxFacts
                       /\ dependencies' = Append(dependencies, [version |-> v, license |-> l])
                       /\ UNCHANGED <<known, approved_licenses, permissions, key_vars>>

\* A report is made of one scan and its licenses, and approved from them.
generate_recommendations ==
  [scan |-> scan_plugin, licenses |-> check_license_compliance,
   approved |-> Approve(scan_plugin, check_license_compliance)]

-----------------------------------------------------------------------------
\* A permission that is requested twice counts twice.
calculate_risk_score(ps) == FoldSeq(LAMBDA p, n : severity(p) + n, 0, ps)
RiskOf(score) == CASE score <= 10 -> "Low" [] score <= 30 -> "Medium" [] score <= 60 -> "High"
                   [] OTHER -> "Critical"
HighRisk(ps) == Len(SelectSeq(ps, LAMBDA p : severity(p) >= 8))
analyze_risk(ps) == [score |-> calculate_risk_score(ps), high |-> HighRisk(ps),
                     level |-> RiskOf(calculate_risk_score(ps))]

\* Only a failed critical check is not compliant, and no check is critical.
check_syscall_whitelist(name) ==
  [passed |-> name \in {"read", "write", "mmap", "brk"},
   severity |-> IF name \in {"read", "write", "mmap", "brk"} THEN 0 ELSE 2]
check_permission_request(p) == [passed |-> TRUE, severity |-> 0]
check_capability_model(ps) == [passed |-> HighRisk(ps) = 0, severity |-> IF HighRisk(ps) = 0 THEN 0 ELSE 1]
check_resource_limits(asked, limits) ==
  LET fits == \A r \in DOMAIN limits : asked[r] <= limits[r]
  IN  [passed |-> fits, severity |-> IF fits THEN 0 ELSE 1]
is_compliant(checks) == ~\E c \in checks : ~c.passed /\ c.severity = 3

Request(p) == /\ Len(permissions) < MaxRequests
              /\ permissions' = Append(permissions, p)
              /\ UNCHANGED <<scan_vars, key_vars>>

-----------------------------------------------------------------------------
\* A field's issues as severities: 1 a warning, 2 an error, 3 critical.
validate_name(length, plain) ==
  IF length = 0 THEN <<3>>
  ELSE (IF length < 3 \/ length > 100 THEN <<2>> ELSE <<>>) \o (IF plain THEN <<>> ELSE <<2>>)
\* parts: whether each of the version's parts is a number.
validate_version(parts) ==
  IF parts = <<>> THEN <<3>>
  ELSE (IF Len(parts) < 3 THEN <<2>> ELSE <<>>)
       \o [i \in 1..Len(SelectSeq(SubSeq(parts, 1, IF Len(parts) < 3 THEN Len(parts) ELSE 3), LAMBDA n : ~n)) |-> 2]
validate_abi_version(v) == IF v = "" THEN <<3>> ELSE IF v \in {"1", "1.0", "2", "2.0"} THEN <<>> ELSE <<2>>
validate_description(length) == IF length < 10 \/ length > 500 THEN <<1>> ELSE <<>>

validate_manifest(name, plain, parts, abi, description) ==
  LET issues == validate_name(name, plain) \o validate_version(parts)
                \o validate_abi_version(abi) \o validate_description(description)
      count(s) == Len(SelectSeq(issues, LAMBDA i : i = s))
  IN  [issues |-> issues, warnings |-> count(1), errors |-> count(2), critical |-> count(3),
       is_valid |-> count(2) = 0 /\ count(3) = 0]

-----------------------------------------------------------------------------
RegisterOver(k, key) == /\ keys' = [keys EXCEPT ![k] = key]
                        /\ UNCHANGED <<scan_vars, permissions, trusted, bound>>

register_key(k, key) == /\ keys[k] = NoKey
                        /\ keys' = [keys EXCEPT ![k] = key]
                        /\ UNCHANGED <<scan_vars, permissions, trusted, bound>>

\* An imported key is public.
import_public_key(k, m) == register_key(k, [material |-> m, private |-> FALSE])

trust_key(k) == /\ keys[k] # NoKey /\ k \notin trusted
                /\ trusted' = trusted \cup {k}
                /\ bound' = [bound EXCEPT ![k] = keys[k].material]
                /\ UNCHANGED <<scan_vars, permissions, keys>>

\* A signature [key_id, by, payload] was made with the private part of by.
Verifies(sig, payload) ==
  /\ keys[sig.key_id] # NoKey /\ ~keys[sig.key_id].private
  /\ keys[sig.key_id].material = sig.by /\ sig.payload = payload
verify_signature(sig, payload) == [is_valid |-> Verifies(sig, payload), warning |-> sig.key_id \notin trusted]

\* Signatures are not verified here.
assess_trust_level(sigs) ==
  IF sigs = {} THEN "Unverified" ELSE IF \E s \in sigs : s.key_id \in trusted THEN "Trusted" ELSE "Unreviewed"

export_public_key(k) == {keys[j].material : j \in {j \in {k} : keys[j] # NoKey /\ ~keys[j].private}}

Scan == \/ \E s \in {2, High, Critical}, v \in Versions : register_vulnerability(s, v)
        \/ \E l \in Licenses : approve_license(from_spdx(l))
        \/ \E v \in Versions, l \in Licenses : AddDependency(v, l)
Sandbox == \E p \in Permissions : Request(p)
Keys == \/ \E k \in KeyIds, m \in Materials, b \in BOOLEAN : register_key(k, [material |-> m, private |-> b])
        \/ \E k \in KeyIds, m \in Materials : import_public_key(k, m)
        \/ \E k \in KeyIds : trust_key(k)
Next == Scan \/ Sandbox \/ Keys

Spec == Init /\ [][Next]_vars

-----------------------------------------------------------------------------
\* What one part of the review passes, no other contradicts: an approved report
\* is acceptable to a scanner with the default threshold and below High risk,
\* and comes with approved licenses (generate_recommendations, security.rs:325;
\* is_acceptable, security.rs:289); the risk of a request grows with it and is
\* High or more as soon as its high-risk permissions are four (analyze_risk,
\* sandbox.rs:495); a manifest is valid when its only issues are a package's
\* missing or odd description (validate_manifest, validation.rs:385).
VerdictsAgree ==
  /\ LET report == generate_recommendations
         s == report.scan
     IN  /\ report.approved => /\ is_acceptable(s, High) /\ s.risk < High
                               /\ \A d \in Range(dependencies) : from_spdx(d.license) \in approved_licenses
         /\ s.risk = 0 => is_acceptable(s, Critical)
         /\ s.high >= s.critical /\ Cardinality(s.vulnerabilities) >= s.high
  /\ LET r == analyze_risk(permissions)
     IN  /\ r.score >= 8 * r.high
         /\ r.high >= 4 => r.level \in {"High", "Critical"}
         /\ permissions # <<>> => calculate_risk_score(Front(permissions)) < r.score
         /\ check_capability_model(permissions).passed <=> r.high = 0
         /\ is_compliant({check_syscall_whitelist(n) : n \in {"read", "execve"}}
                         \cup {check_capability_model(permissions)})
  /\ permissions = <<>> /\ scan_plugin.dependency_count = 0 /\ known = <<>> =>
     \A name \in {0, 2, 3, 100, 101}, parts \in UNION {[1..n -> BOOLEAN] : n \in 0..4}, d \in {0, 10, 501} :
       LET r == validate_manifest(name, TRUE, parts, "2", d)
       IN  r.is_valid <=> /\ name \in {3, 100} /\ Len(parts) >= 3 /\ parts[1] /\ parts[2] /\ parts[3]
                          /\ Len(r.issues) <= 1 /\ (r.issues = <<>> <=> d = 10)

\* The material behind a trusted key is the one that was trusted: what verifies
\* without a warning was made with it (register_key, signature.rs:117).
TrustFixed ==
  \A k \in trusted : /\ keys[k].material = bound[k]
                     /\ \A m \in Materials, b \in {1, 2} :
                          LET r == verify_signature([key_id |-> k, by |-> m, payload |-> 1], b)
                          IN  r.is_valid => m = bound[k] /\ b = 1 /\ ~r.warning
=============================================================================
