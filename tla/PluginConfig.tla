---------------------------- MODULE PluginConfig ----------------------------
(***************************************************************************)
(* Configuration of plugins in the ABI crate (abi/src/config): schemas and *)
(* their validator, the forms and the JSON Schema generated from them, the *)
(* manager that keeps values, and the resolver of secret references.       *)
(* A value is [t, ...]; a number is stored as twice itself; a string is    *)
(* what the code asks of it: its length, what it reads as, its scheme.     *)
(***************************************************************************)
EXTENDS Integers, Sequences, SequencesExt, FiniteSets

CONSTANTS Plugins,
          Schemas,    \* [fields, rules]
          Contents,   \* values read from a file, or typed: [name -> value]
          Values,     \* single values
          Uris, Keys, \* of secrets; a backend is Scheme(uri)
          Available,  \* the schemes with a backend that is available
          Secrets,    \* what a secret may hold: [text, keys]
          Callers,    \* of the resolver
          References, \* of callers of their own: [uri, key, cache, ttl]
          Ttl,        \* of a reference in a value
          MaxNow,     \* bound: seconds
          MaxLag,     \* bound: seconds between reading a secret and caching it
          MaxSteps    \* bound: calls that change something

VARIABLES schemas,   \* plugin -> schema, where there is one
          values,    \* plugin -> values, where there are some
          checked,   \* values that passed and are not stored yet
          settled,   \* history: plugins whose schema is the one values were checked with
          touched,   \* history: plugins with values set singly or resolved
          store,     \* what the backends hold
          secrets,   \* the cache: uri -> [value, at, ttl], where there is one
          resolving, \* caller -> its reference, where it goes and what was read, or Idle
          pass,      \* over all values: [caller, left], or <<>>; it holds their lock
          reads,     \* history: [ref, value, at] read from a backend
          returned,  \* what the last resolve returned: [ref, value]
          clock, calls

vars == <<schemas, values, checked, settled, touched, store, secrets, resolving, pass, reads, returned, clock, calls>>

NoNumber == -1
NoKey == "no key"
Null == [t |-> "null"]
Bool(b) == [t |-> "bool", b |-> b]
Num(x) == [t |-> "num", x2 |-> x]
Str(s) == [t |-> "str", s |-> s]
Arr(items) == [t |-> "arr", items |-> items]
Obj(uri, key) == [t |-> "obj", uri |-> uri, key |-> key]
Idle == [idle |-> TRUE]

-----------------------------------------------------------------------------
is_null_or_empty(v) == CASE v.t = "null" -> TRUE
                         [] v.t = "str" -> v.s.len = 0
                         [] v.t = "arr" -> v.items = <<>>
                         [] OTHER -> FALSE

Whole(x) == x % 2 = 0

\* The parts [n, unit] of a text like 1h30m: a unit needs a number before it.
Seconds == [s |-> 1, m |-> 60, h |-> 3600, d |-> 86400, w |-> 604800]
parse_duration(parts) == \A i \in DOMAIN parts : parts[i].n # NoNumber /\ parts[i].unit \in DOMAIN Seconds

\* An integer may have a fraction here.
RECURSIVE validate_type(_, _)
validate_type(type, v) ==
  CASE type.kind = "String"  -> v.t = "str"
    [] type.kind \in {"Integer", "Float"} -> v.t = "num"
    [] type.kind = "Boolean" -> v.t = "bool"
    [] type.kind = "Array"   -> v.t = "arr" /\ \A i \in DOMAIN v.items : validate_type(type.inner, v.items[i])
    [] type.kind = "Object"  -> v.t = "obj"
    [] type.kind = "Secret"  -> v.t \in {"str", "obj"}
    [] type.kind = "Port"    -> v.t = "num" /\ Whole(v.x2) /\ v.x2 \in 2..131070
    [] OTHER -> /\ v.t = "str"
                /\ CASE type.kind = "Enum"     -> v \in type.variants
                     [] type.kind = "Path"     -> type.must_exist => v.s.path = IF type.is_dir THEN "dir" ELSE "file"
                     [] type.kind = "Url"      -> v.s.scheme # "" /\ (type.schemes # {} => v.s.scheme \in type.schemes)
                     [] type.kind = "Duration" -> parse_duration(v.s.parts)
                     [] type.kind = "Email"    -> v.s.email
                     [] type.kind = "Host"     -> v.s.len > 0 /\ ~v.s.space

\* A pattern, and a custom rule, is the set of values it accepts.
validate_rule(r, v) ==
  CASE r.rule = "Min"       -> v.t = "num" => v.x2 >= r.n
    [] r.rule = "Max"       -> v.t = "num" => v.x2 <= r.n
    [] r.rule = "MinLength" -> v.t = "str" => v.s.len >= r.n
    [] r.rule = "MaxLength" -> v.t = "str" => v.s.len <= r.n
    [] r.rule = "Pattern"   -> v.t = "str" => v \in r.set
    [] r.rule = "OneOf"     -> v \in r.set
    [] r.rule = "NotOneOf"  -> v \notin r.set
    [] r.rule = "Custom"    -> r.known /\ v \in r.set

validate_field(f, v) == validate_type(f.type, v) /\ \A i \in DOMAIN f.rules : validate_rule(f.rules[i], v)

IsSet(vs, n) == n \in DOMAIN vs /\ ~is_null_or_empty(vs[n])
validate_global_rule(r, vs) ==
  CASE r.rule = "FieldsEqual" -> LET at(n) == IF n \in DOMAIN vs THEN vs[n] ELSE [t |-> "none"]
                                 IN  \A m, n \in r.fields : at(m) = at(n)
    [] r.rule = "AtLeastOne"  -> \E n \in r.fields : IsSet(vs, n)
    [] r.rule = "ExactlyOne"  -> Cardinality({n \in r.fields : IsSet(vs, n)}) = 1
    [] r.rule = "Conditional" -> r.when \in DOMAIN vs /\ vs[r.when] = r.is => \A n \in r.fields : IsSet(vs, n)
    [] r.rule = "Custom"      -> FALSE

\* A field with a default is not missed, and the default is not looked at.
validate(schema, vs) ==
  /\ \A i \in DOMAIN schema.fields :
       LET f == schema.fields[i]
       IN  /\ f.required /\ f.default = Null => IsSet(vs, f.name)
           /\ IsSet(vs, f.name) => validate_field(f, vs[f.name])
  /\ \A i \in DOMAIN schema.rules : validate_global_rule(schema.rules[i], vs)

apply_defaults(schema, vs) ==
  LET filled == {f \in Range(schema.fields) : f.default # Null /\ ~IsSet(vs, f.name)}
  IN  [n \in DOMAIN vs \cup {f.name : f \in filled} |->
         IF \E f \in filled : f.name = n THEN (CHOOSE f \in filled : f.name = n).default ELSE vs[n]]

\* The first field of this name.
get_field(schema, n) == schema.fields[CHOOSE i \in DOMAIN schema.fields :
                           schema.fields[i].name = n /\ \A j \in 1..(i - 1) : schema.fields[j].name # n]
HasField(schema, n) == \E i \in DOMAIN schema.fields : schema.fields[i].name = n

-----------------------------------------------------------------------------
Text == [len |-> 1, x2 |-> NoNumber, truth |-> "", scheme |-> "", path |-> "none", parts |-> <<[n |-> NoNumber, unit |-> "?"]>>,
         email |-> FALSE, space |-> FALSE, uri |-> ""]
\* JSON of a number or a Boolean; 2.5 is three characters.
TextOf(v) ==
  CASE v.t = "bool" -> Str([Text EXCEPT !.len = IF v.b THEN 4 ELSE 5, !.truth = IF v.b THEN "true" ELSE "false"])
    [] v.t = "num"  -> Str([Text EXCEPT !.len = (IF v.x2 < 20 THEN 1 ELSE 2) + (IF Whole(v.x2) THEN 0 ELSE 2), !.x2 = v.x2,
                                        !.truth = IF v.x2 = 2 THEN "true" ELSE IF v.x2 = 0 THEN "false" ELSE "",
                                        !.parts = <<[n |-> v.x2 \div 2, unit |-> IF Whole(v.x2) THEN "" ELSE "."]>>])

Mismatch == [t |-> "mismatch"]
coerce_value(kind, v) ==
  CASE kind = "String"  -> IF v.t = "str" THEN v ELSE TextOf(v)
    [] kind = "Integer" -> IF v.t = "num" THEN Num(2 * (v.x2 \div 2))
                           ELSE IF v.t = "str" /\ v.s.x2 # NoNumber /\ Whole(v.s.x2) THEN Num(v.s.x2) ELSE Mismatch
    [] kind = "Float"   -> IF v.t = "num" THEN v ELSE IF v.t = "str" /\ v.s.x2 # NoNumber THEN Num(v.s.x2) ELSE Mismatch
    [] kind = "Boolean" -> IF v.t = "bool" THEN v
                           ELSE IF v.t = "str" /\ v.s.truth # "" THEN Bool(v.s.truth = "true") ELSE Mismatch
    [] OTHER            -> v

-----------------------------------------------------------------------------
\* What the form shows of the rules: the last rule of a kind, and the variants
\* of an enumeration instead of a OneOf.
RulesOf(f, kind) == SelectSeq(f.rules, LAMBDA r : r.rule = kind)
generate_constraints(f) ==
  [ends |-> {r \in Range(f.rules) : r.rule \in {"Min", "Max", "MinLength", "MaxLength", "Pattern"} /\ r = Last(RulesOf(f, r.rule))},
   allowed |-> IF f.type.kind = "Enum" THEN <<f.type.variants>>
               ELSE IF RulesOf(f, "OneOf") # <<>> THEN <<Last(RulesOf(f, "OneOf")).set>> ELSE <<>>]

determine_component_type(f) ==
  CASE f.widget # ""                           -> f.widget
    [] f.type.kind = "String" /\ f.sensitive   -> "PasswordInput"
    [] f.type.kind \in {"Integer", "Float", "Port"} -> "NumberInput"
    [] f.type.kind = "Boolean"                 -> "Toggle"
    [] f.type.kind = "Array"                   -> "MultiSelect"
    [] f.type.kind = "Object"                  -> "Section"
    [] f.type.kind = "Secret"                  -> "SecretReference"
    [] f.type.kind = "Enum"                    -> "Select"
    [] f.type.kind = "Path"                    -> IF f.type.is_dir THEN "DirectoryPicker" ELSE "FilePicker"
    [] OTHER                                   -> "TextInput"

\* One component for each field, in the order given by the hints.
generate(schema) ==
  [i \in DOMAIN schema.fields |->
     LET by == SortSeq(schema.fields, LAMBDA f, g : f.order < g.order)
     IN  [name |-> by[i].name, type |-> determine_component_type(by[i]), constraints |-> generate_constraints(by[i])]]

json_schema_type(kind) ==
  CASE kind \in {"Integer", "Port"} -> "integer" [] kind = "Float" -> "number" [] kind = "Boolean" -> "boolean"
    [] kind = "Array" -> "array" [] kind = "Object" -> "object" [] OTHER -> "string"

\* A later field of the same name takes the place of the first.
generate_json_schema(schema) ==
  LET names == {f.name : f \in Range(schema.fields)}
      of(n) == Last(SelectSeq(schema.fields, LAMBDA f : f.name = n))
  IN  [required |-> {f.name : f \in {f \in Range(schema.fields) : f.required}},
       properties |-> [n \in names |-> [type |-> json_schema_type(of(n).type.kind),
                          ends |-> generate_constraints([of(n) EXCEPT !.type = [kind |-> "String"]])]]]

JsonType(v) == CASE v.t = "num" -> IF Whole(v.x2) THEN {"integer", "number"} ELSE {"number"}
                 [] v.t = "str" -> {"string"} [] v.t = "bool" -> {"boolean"}
                 [] v.t = "arr" -> {"array"} [] v.t = "obj" -> {"object"} [] v.t = "null" -> {"null"}
Within(c, v) == /\ \A r \in c.ends : validate_rule(r, v)
                /\ c.allowed # <<>> => v \in c.allowed[1]
JsonAccepts(j, vs) == /\ j.required \subseteq DOMAIN vs
                      /\ \A n \in DOMAIN j.properties \cap DOMAIN vs :
                           j.properties[n].type \in JsonType(vs[n]) /\ Within(j.properties[n].ends, vs[n])

-----------------------------------------------------------------------------
Init == /\ schemas = <<>> /\ values = <<>> /\ checked = <<>> /\ settled = Plugins /\ touched = {}
        /\ store \in [Uris -> Secrets] /\ secrets = <<>> /\ reads = {} /\ returned = <<>>
        /\ resolving = [c \in Callers |-> Idle] /\ pass = <<>>
        /\ clock = 0 /\ calls = 0

Put(f, k, x) == [j \in DOMAIN f \cup {k} |-> IF j = k THEN x ELSE f[j]]
Call == calls < MaxSteps /\ calls' = calls + 1
secret_vars == <<store, secrets, resolving, pass, reads, returned, clock>>
value_vars == <<schemas, values, checked, settled, touched>>

\* load_schema does no more once the file is parsed.
register_schema(p, s) ==
  /\ Call /\ schemas' = Put(schemas, p, s)
  /\ settled' = IF p \in DOMAIN values \/ checked # <<>> THEN settled \ {p} ELSE settled
  /\ UNCHANGED <<values, checked, touched, secret_vars>>

\* The schema's lock is released before the values are stored.
CheckConfig(p, vs) ==
  /\ Call /\ checked = <<>>
  /\ p \in DOMAIN schemas => validate(schemas[p], vs)
  /\ checked' = <<[plugin |-> p, how |-> "load", values |-> vs]>>
  /\ settled' = IF p \in DOMAIN schemas THEN settled ELSE settled \ {p}
  /\ UNCHANGED <<schemas, values, touched, secret_vars>>

CheckValue(p, n, v) ==
  /\ Call /\ checked = <<>>
  /\ p \in DOMAIN schemas /\ HasField(schemas[p], n) => validate_field(get_field(schemas[p], n), v)
  /\ checked' = <<[plugin |-> p, how |-> "set", values |-> [m \in {n} |-> v]]>>
  /\ settled' = IF p \in DOMAIN schemas THEN settled ELSE settled \ {p}
  /\ UNCHANGED <<schemas, values, touched, secret_vars>>

StoreChecked ==
  /\ checked # <<>> /\ checked' = <<>> /\ pass = <<>>
  /\ LET c == checked[1]
         old == IF c.plugin \in DOMAIN values THEN values[c.plugin] ELSE <<>>
         whole == [n \in DOMAIN old \cup DOMAIN c.values |-> IF n \in DOMAIN c.values THEN c.values[n] ELSE old[n]]
     IN  /\ values' = Put(values, c.plugin, IF c.how = "load" THEN c.values ELSE whole)
         /\ touched' = IF c.how = "load" THEN touched \ {c.plugin} ELSE touched \cup {c.plugin}
  /\ UNCHANGED <<schemas, settled, calls, secret_vars>>

-----------------------------------------------------------------------------

\* Only the scheme of a URI tells a reference from a text; there is no backend
\* for vault unless one is registered.
Scheme(uri) == uri[1]
Fresh(uri) == uri \in DOMAIN secrets /\ clock - secrets[uri].at <= secrets[uri].ttl

\* The environment has no keys.
BackendRead(uri, key) ==
  CASE Scheme(uri) = "env" \/ key = NoKey -> store[uri].text
    [] key \in DOMAIN store[uri].keys     -> store[uri].keys[key]
    [] OTHER                              -> Null

\* A string with a known scheme, or an object that names one; values within
\* others are looked at too.
IsReference(v) == (v.t = "str" /\ v.s.uri # "") \/ (v.t = "obj" /\ v.uri # "")
Reference(v) == [uri |-> IF v.t = "str" THEN v.s.uri ELSE v.uri, key |-> IF v.t = "str" THEN NoKey ELSE v.key,
                 cache |-> TRUE, ttl |-> Ttl]
Parts(v) == CASE v.t = "arr" -> v.items
              [] v.t = "obj" /\ ~IsReference(v) -> v.fields
              [] OTHER -> <<>>
RECURSIVE ReferencesIn(_), At(_, _), Replaced(_, _, _)
ReferencesIn(v) == IF IsReference(v) THEN {<<>>}
                   ELSE UNION {{<<i>> \o path : path \in ReferencesIn(Parts(v)[i])} : i \in DOMAIN Parts(v)}
At(v, path) == IF path = <<>> THEN v ELSE At(Parts(v)[Head(path)], Tail(path))
Replaced(v, path, w) ==
  CASE path = <<>> -> w
    [] path # <<>> /\ v.t = "arr" -> [v EXCEPT !.items[Head(path)] = Replaced(@, Tail(path), w)]
    [] OTHER -> [v EXCEPT !.fields[Head(path)] = Replaced(@, Tail(path), w)]

\* The end of a call: a caller of its own gets the value, a pass puts it in the
\* place of the reference and goes on.
Return(c, ref, into, value) ==
  /\ resolving' = [resolving EXCEPT ![c] = Idle]
  /\ returned' = <<[ref |-> ref, value |-> value]>>
  /\ IF into = <<>> THEN UNCHANGED <<values, touched, pass>>
     ELSE LET left == pass[1].left \ {into}
          IN  /\ values' = [values EXCEPT ![into.plugin][into.name] = Replaced(@, into.path, value)]
              /\ touched' = touched \cup {into.plugin}
              /\ pass' = IF left = {} THEN <<>> ELSE <<[pass[1] EXCEPT !.left = left]>>

\* One that cannot be resolved ends the pass; what it replaced stays replaced.
Fail(c, into) == /\ resolving' = [resolving EXCEPT ![c] = Idle]
                 /\ pass' = IF into = <<>> THEN pass ELSE <<>>
                 /\ UNCHANGED <<values, touched, returned>>

\* The cache is asked by the URI alone, and not for a reference that is not to
\* be cached.  No lock is kept from here to the insertion.
Begin(c, ref, into) ==
  /\ IF ref.cache /\ Fresh(ref.uri) THEN Return(c, ref, into, secrets[ref.uri].value)
     ELSE IF Scheme(ref.uri) \notin Available THEN Fail(c, into)
     ELSE /\ resolving' = [resolving EXCEPT ![c] = [ref |-> ref, into |-> into, read |-> <<>>]]
          /\ UNCHANGED <<values, touched, pass, returned>>
  /\ UNCHANGED <<schemas, checked, settled, store, secrets, reads, clock>>

resolve(c, ref) == Call /\ resolving[c] = Idle /\ (pass # <<>> => pass[1].caller # c) /\ Begin(c, ref, <<>>)

ReadBackend(c) ==
  /\ resolving[c] # Idle /\ resolving[c].read = <<>>
  /\ LET job == resolving[c]
         value == BackendRead(job.ref.uri, job.ref.key)
     IN  IF value = Null THEN Fail(c, job.into) /\ UNCHANGED reads
         ELSE /\ reads' = reads \cup {[ref |-> job.ref, value |-> value, at |-> clock]}
              /\ IF ~job.ref.cache THEN Return(c, job.ref, job.into, value)
                 ELSE /\ resolving' = [resolving EXCEPT ![c].read = <<[value |-> value, at |-> clock]>>]
                      /\ UNCHANGED <<values, touched, pass, returned>>
  /\ UNCHANGED <<schemas, checked, settled, store, secrets, clock, calls>>

\* The time of the insertion is the one that counts.
Insert(c) ==
  /\ resolving[c] # Idle /\ resolving[c].read # <<>>
  /\ LET job == resolving[c]
         value == job.read[1].value
     IN  /\ secrets' = Put(secrets, job.ref.uri, [value |-> value, at |-> clock, ttl |-> job.ref.ttl])
         /\ Return(c, job.ref, job.into, value)
  /\ UNCHANGED <<schemas, checked, settled, store, reads, clock, calls>>

\* The values of all plugins one after the other, in any order, under their lock.
AllReferences == UNION {UNION {{[plugin |-> p, name |-> n, path |-> path] : path \in ReferencesIn(values[p][n])}
                                 : n \in DOMAIN values[p]} : p \in DOMAIN values}
resolve_in_config(c) ==
  /\ Call /\ resolving[c] = Idle /\ pass = <<>>
  /\ pass' = <<[caller |-> c, left |-> AllReferences]>> /\ pass'[1].left # {}
  /\ UNCHANGED <<value_vars, store, secrets, resolving, reads, returned, clock>>
resolve_in_value(c, r) ==
  /\ pass[1].caller = c /\ resolving[c] = Idle
  /\ Begin(c, Reference(At(values[r.plugin][r.name], r.path)), r)
  /\ UNCHANGED calls

clear_cache == /\ Call /\ secrets # <<>> /\ secrets' = <<>>
               /\ UNCHANGED <<value_vars, store, resolving, pass, reads, returned, clock>>

cleanup_cache ==
  /\ \E u \in DOMAIN secrets : ~Fresh(u)
  /\ secrets' = [u \in {u \in DOMAIN secrets : Fresh(u)} |-> secrets[u]]
  /\ UNCHANGED <<value_vars, store, resolving, pass, reads, returned, clock, calls>>

ChangeSecret(uri, s) == /\ Call /\ s # store[uri] /\ store' = [store EXCEPT ![uri] = s] /\ returned' = <<>>
                        /\ UNCHANGED <<value_vars, secrets, resolving, pass, reads, clock>>
Tick == /\ clock < MaxNow /\ clock' = clock + 1 /\ returned' = <<>>
        /\ \A c \in Callers : resolving[c] # Idle =>
             \A i \in DOMAIN resolving[c].read : clock - resolving[c].read[i].at < MaxLag
        /\ UNCHANGED <<value_vars, store, secrets, resolving, pass, reads, calls>>

Manage == \/ \E p \in Plugins : \/ \E s \in Schemas : register_schema(p, s)
                                \/ \E vs \in Contents : CheckConfig(p, vs) \/ \E n \in DOMAIN vs : CheckValue(p, n, vs[n])
          \/ StoreChecked
Resolve == \/ \E c \in Callers : \/ \E ref \in References : resolve(c, ref)
                                \/ ReadBackend(c) \/ Insert(c) \/ resolve_in_config(c)
                                \/ \E r \in UNION {x.left : x \in Range(pass)} : resolve_in_value(c, r)
           \/ \E u \in Uris, s \in Secrets : ChangeSecret(u, s)
           \/ clear_cache \/ cleanup_cache \/ Tick
Next == Manage \/ Resolve

Spec == Init /\ [][Next]_vars

-----------------------------------------------------------------------------
RECURSIVE Holds(_, _)
Holds(v, w) == v = w \/ \E i \in DOMAIN Parts(v) : Holds(Parts(v)[i], w)

\* While a plugin's schema stays the one its values were checked with, what is
\* loaded passes as a whole, and after single values were set every value that
\* holds no resolved secret still passes on its own; only what a schema demands of
\* the whole can be lost (load_config, config/mod.rs:115; set_value, config/mod.rs:161).
ValuesChecked ==
  \A p \in DOMAIN values \cap DOMAIN schemas \cap settled :
    /\ p \notin touched => validate(schemas[p], values[p])
    /\ \A n \in DOMAIN values[p] : HasField(schemas[p], n) /\ IsSet(values[p], n) =>
         \/ validate_field(get_field(schemas[p], n), values[p][n])
         \/ \E r \in reads : Holds(values[p][n], r.value)

\* A caller gets what the backend holds if its reference is not to be cached.
\* Else it gets what a caller that caches read under this URI no longer ago than
\* the time to live that caller gave it and the lag of the insertion, which may
\* put an older value over a newer one; it is the one of the key that was asked
\* for if all such reads of the URI asked for one key (SecretResolver::resolve,
\* secret_resolver.rs:113, :150).
SecretsFresh ==
  returned # <<>> =>
    LET ref == returned[1].ref
        of == {r \in reads : r.ref.uri = ref.uri /\ r.ref.cache}
        timely == {r \in of : r.value = returned[1].value /\ clock - r.at <= r.ref.ttl + MaxLag}
    IN  IF ~ref.cache THEN returned[1].value = BackendRead(ref.uri, ref.key)
        ELSE /\ timely # {}
             /\ (\A r \in of : r.ref.key = ref.key) => \E r \in timely : r.ref.key = ref.key

\* Values are judged alike: with its defaults filled in a configuration still
\* passes if the defaults do on their own, filling them in twice changes nothing,
\* a value that was coerced has the type and stays as it is, numbers and truths
\* survive as text, and what the validator takes meets the constraints of the
\* form and, but for fractions as integers, secrets as objects and defaults left
\* out, the generated JSON Schema (validator.rs:42, :396, :410; ui_generator.rs:274,
\* :421).
JudgedAlike ==
  /\ \A s \in Schemas, vs \in Contents :
       LET full == apply_defaults(s, vs)
           sound == \A f \in Range(s.fields) : f.default # Null => validate_field(f, f.default)
           plain == \A n \in DOMAIN vs : HasField(s, n) =>
                      /\ ~is_null_or_empty(vs[n])
                      /\ get_field(s, n).type.kind = "Integer" /\ vs[n].t = "num" => Whole(vs[n].x2)
                      /\ get_field(s, n).type.kind = "Secret" => vs[n].t = "str"
       IN  /\ apply_defaults(s, full) = full
           /\ (sound /\ s.rules = <<>> /\ validate(s, vs)) => validate(s, full)
           /\ sound /\ plain /\ validate(s, vs) /\ (s.rules = <<>> \/ validate(s, full)) =>
                JsonAccepts(generate_json_schema(s), full)
           /\ validate(s, vs) => \A i \in DOMAIN generate(s) :
                LET c == generate(s)[i] IN IsSet(vs, c.name) => Within(c.constraints, vs[c.name])
           /\ Len(generate(s)) = Len(s.fields)
  /\ \A v \in Values, k \in {"Integer", "Float", "Boolean"} :
       /\ LET w == coerce_value(k, v) IN w # Mismatch => validate_type([kind |-> k], w) /\ coerce_value(k, w) = w
       /\ v.t \in {"num", "bool"} /\ validate_type([kind |-> k], v) /\ (k = "Integer" => Whole(v.x2)) =>
            coerce_value(k, coerce_value("String", v)) = v
=============================================================================
