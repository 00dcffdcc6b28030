---------------------------- MODULE AdvancedConfig ----------------------------
(***************************************************************************)
(* Configuration of plugins on the server's side (plugin_manager/config):  *)
(* the cached backend (mod.rs), the environment variables merged into it   *)
(* (env_integration.rs), the files of an environment (multi_env.rs) and    *)
(* the validators of schemas (schema.rs, and abi/src/config_schema.rs).    *)
(* A name is the sequence of its words, a dotted key that of its parts.    *)
(***************************************************************************)
EXTENDS Integers, Sequences, SequencesExt, FiniteSets

CONSTANTS Plugins,
          Contents,     \* of files: objects, or Broken
          Schemas,      \* [properties, required, additional]
          Scalars,      \* single values, or Broken: a text that is no JSON
          Environments, \* of the process: [name -> [parsed, text]]
          Mappings,     \* [key -> name]
          Templates,    \* texts: sequences of words, references and dollars
          MaxCalls      \* bound: calls that change something

VARIABLES files,      \* plugin -> [content, version]
          configs,    \* plugin -> [value, version, set], where cached
          reloads,    \* reloads between reading and storing: [plugin, value, version]
          newest,     \* history: plugin -> the newest version a reload has stored
          overlap,    \* history: plugins with two reloads at once
          validators, \* plugin -> schema, where there is one
          building,   \* validations between the locks: [plugin, schema, config]
          given,      \* history: plugin -> schemas a validation was asked with
          verdict,    \* of the last validation: [plugin, schema, config, valid]
          environment, mappings, merging, \* merge under way: [plugin, pending, config], or none
          tree, current, overrides, defaults, \* files, overrides and defaults of environments
          calls

backend_vars == <<files, configs, reloads, newest, overlap, validators, building, given, verdict>>
merge_vars   == <<environment, mappings, merging>>
env_vars     == <<tree, current, overrides, defaults>>
vars == <<backend_vars, merge_vars, env_vars, calls>>

Broken == [t |-> "broken"]
Missing == [t |-> "missing"]
Obj(f) == [t |-> "obj", f |-> f]
Put(f, k, x) == [j \in DOMAIN f \cup {k} |-> IF j = k THEN x ELSE f[j]]
With(o, n, v) == Obj(Put(o.f, n, v))
Call == calls < MaxCalls /\ calls' = calls + 1
Envs == {"development", "staging", "production"}

Init == /\ files = [p \in Plugins |-> [content |-> Missing, version |-> 0]] /\ configs = <<>>
        /\ reloads = {} /\ newest = [p \in Plugins |-> -1] /\ overlap = {}
        /\ validators = <<>> /\ building = {} /\ given = [p \in Plugins |-> {}] /\ verdict = <<>>
        /\ environment = <<>> /\ mappings = <<>> /\ merging = <<>>
        /\ tree = [e \in Envs \cup {"base"} |-> Missing] /\ current = "development"
        /\ overrides = [e \in Envs |-> <<>>] /\ defaults = [e \in Envs |-> <<>>]
        /\ calls = 0

-----------------------------------------------------------------------------
\* Types are known by several names; an unknown one is a string.
SchemaType(name) == CASE name \in {"number", "float"} -> "Number"
                      [] name \in {"integer", "int"}  -> "Integer"
                      [] name = "boolean" -> "Boolean" [] name = "array" -> "Array" [] name = "object" -> "Object"
                      [] name = "null"    -> "Null"    [] name = "any"   -> "Any"
                      [] OTHER            -> "String"

parse_property(raw) == [raw EXCEPT !.type = SchemaType(raw.type)]

\* The list of the schema replaces what its properties say of themselves.
from_json(s) ==
  [properties |-> [n \in DOMAIN s.properties |-> parse_property(s.properties[n])],
   required   |-> IF s.required # <<>> THEN s.required[1]
                  ELSE {n \in DOMAIN s.properties : s.properties[n].required},
   additional |-> s.additional]

Whole(v) == v.x2 % 2 = 0
check_type(v, type) ==
  CASE type = "String"  -> v.t = "str"   [] type = "Number"  -> v.t = "num"
    [] type = "Integer" -> v.t = "num" /\ Whole(v) /\ ~v.point
    [] type = "Boolean" -> v.t = "bool"  [] type = "Array"   -> v.t = "arr"
    [] type = "Object"  -> v.t = "obj"   [] type = "Null"    -> v.t = "null"
    [] OTHER            -> TRUE

\* A bound is <<>> when there is none; a pattern is the set it accepts.
Least(bound, n) == bound # <<>> => n >= bound[1]
Most(bound, n) == bound # <<>> => n <= bound[1]
validate_value(v, p) ==
  /\ check_type(v, p.type)
  /\ p.type = "String" => /\ Least(p.min_length, v.len) /\ Most(p.max_length, v.len)
                          /\ p.pattern # <<>> => v \in p.pattern[1]
                          /\ p.enum # <<>> => v \in p.enum[1]
  /\ p.type \in {"Number", "Integer"} => Least(p.minimum, v.x2) /\ Most(p.maximum, v.x2)
  /\ p.type = "Array" => Least(p.min_length, v.len) /\ Most(p.max_length, v.len)

validate(s, o) ==
  /\ s.required \subseteq DOMAIN o.f
  /\ \A n \in DOMAIN o.f : IF n \in DOMAIN s.properties THEN validate_value(o.f[n], s.properties[n]) ELSE s.additional

\* The other validator is a crate that follows JSON Schema: every keyword for
\* the values it is about, and a type only when there is one.
JsonTypes(v) == CASE v.t = "num" -> IF Whole(v) THEN {"integer", "number"} ELSE {"number"}
                  [] v.t = "str" -> {"string"} [] v.t = "arr" -> {"array"} [] v.t = "obj" -> {"object"}
                  [] v.t = "null" -> {"null"} [] OTHER -> {"boolean"}
JsonValid(v, raw) ==
  /\ raw.type # "" => raw.type \in JsonTypes(v)
  /\ v.t = "str" => /\ Least(raw.min_length, v.len) /\ Most(raw.max_length, v.len)
                    /\ raw.pattern # <<>> => v \in raw.pattern[1]
  /\ v.t = "num" => Least(raw.minimum, v.x2) /\ Most(raw.maximum, v.x2)
  /\ raw.enum # <<>> => v \in raw.enum[1]
ConfigSchemaValid(s, o) ==
  /\ s.required # <<>> => s.required[1] \subseteq DOMAIN o.f
  /\ \A n \in DOMAIN o.f : IF n \in DOMAIN s.properties THEN JsonValid(o.f[n], s.properties[n]) ELSE s.additional

\* Of the options only the defaults are used.
validate_with_options(s, o, ds) ==
  ConfigSchemaValid(s, Obj([n \in DOMAIN o.f \cup DOMAIN ds |-> IF n \in DOMAIN o.f THEN o.f[n] ELSE ds[n]]))

-----------------------------------------------------------------------------
load_config_file(content) == IF content = Missing THEN Obj(<<>>) ELSE content

\* Files are tables or do not parse; the first load of a plugin is kept.
load_plugin_config(p) ==
  /\ Call /\ p \notin DOMAIN configs /\ files[p].content # Broken
  /\ configs' = Put(configs, p, [value |-> load_config_file(files[p].content), version |-> files[p].version, set |-> {}])
  /\ UNCHANGED <<files, reloads, newest, overlap, validators, building, given, verdict, merge_vars, env_vars>>

\* A value that does not parse still leaves an entry where there was none.
set_config_value(p, n, v) ==
  /\ Call
  /\ LET c == IF p \in DOMAIN configs THEN configs[p] ELSE [value |-> Obj(<<>>), version |-> -1, set |-> {}]
     IN  configs' = Put(configs, p, IF v = Broken THEN c
                                    ELSE [c EXCEPT !.value = With(c.value, n, v), !.set = @ \cup {n}])
  /\ UNCHANGED <<files, reloads, newest, overlap, validators, building, given, verdict, merge_vars, env_vars>>

\* The file is read before the lock is taken.
ReloadRead(p) ==
  /\ Call /\ files[p].content # Broken
  /\ reloads' = reloads \cup {[plugin |-> p, value |-> load_config_file(files[p].content), version |-> files[p].version]}
  /\ overlap' = IF \E r \in reloads : r.plugin = p THEN overlap \cup {p} ELSE overlap
  /\ UNCHANGED <<files, configs, newest, validators, building, given, verdict, merge_vars, env_vars>>

reload_plugin_config(r) ==
  /\ r \in reloads /\ reloads' = reloads \ {r}
  /\ configs' = Put(configs, r.plugin, [value |-> r.value, version |-> r.version, set |-> {}])
  /\ newest' = [newest EXCEPT ![r.plugin] = IF r.version > @ THEN r.version ELSE @]
  /\ UNCHANGED <<files, overlap, validators, building, given, verdict, merge_vars, env_vars, calls>>

\* The first schema given for a plugin is the one that counts, whatever is
\* given later.
ValidateStart(p, s) ==
  /\ Call /\ p \in DOMAIN configs
  /\ given' = [given EXCEPT ![p] = @ \cup {s}]
  /\ LET o == configs[p].value
     IN  IF p \in DOMAIN validators
         THEN /\ verdict' = <<[plugin |-> p, schema |-> s, config |-> o, valid |-> validate(validators[p], o)]>>
              /\ UNCHANGED building
         ELSE building' = building \cup {[plugin |-> p, schema |-> s, config |-> o]} /\ UNCHANGED verdict
  /\ UNCHANGED <<files, configs, reloads, newest, overlap, validators, merge_vars, env_vars>>

validate_plugin_config(b) ==
  /\ b \in building /\ building' = building \ {b}
  /\ validators' = Put(validators, b.plugin, from_json(b.schema))
  /\ verdict' = <<[plugin |-> b.plugin, schema |-> b.schema, config |-> b.config, valid |-> validate(from_json(b.schema), b.config)]>>
  /\ UNCHANGED <<files, configs, reloads, newest, overlap, given, merge_vars, env_vars, calls>>

WriteFile(p, content) ==
  /\ Call /\ content # files[p].content
  /\ files' = [files EXCEPT ![p] = [content |-> content, version |-> @.version + 1]]
  /\ UNCHANGED <<configs, reloads, newest, overlap, validators, building, given, verdict, merge_vars, env_vars>>

Backend == \/ \E p \in Plugins : \/ load_plugin_config(p) \/ ReloadRead(p)
                                 \/ \E o \in Contents : WriteFile(p, o) \/ (o # Broken /\ \E n \in DOMAIN o.f, v \in Scalars : set_config_value(p, n, v))
                                 \/ \E s \in Schemas : ValidateStart(p, s)
           \/ (\E r \in reloads : reload_plugin_config(r)) \/ (\E b \in building : validate_plugin_config(b))

-----------------------------------------------------------------------------
\* The words of a key: dots become separators.
Words(key) == FlattenSeq(key)
Prefixed(p) == <<"SKYLET">> \o p
NoValue == [parsed |-> Missing]
Var(name) == IF name \in DOMAIN environment THEN environment[name] ELSE NoValue

\* A mapping, the plugin's own variable, or one for all plugins.
get_env_value(p, key) ==
  IF key \in DOMAIN mappings THEN Var(mappings[key])
  ELSE IF Prefixed(p) \o Words(key) \in DOMAIN environment THEN Var(Prefixed(p) \o Words(key))
  ELSE Var(<<"SKYLET">> \o Words(key))

\* Every word of a variable becomes a part of the key.
Own(p) == {name \in DOMAIN environment : IsPrefix(Prefixed(p), name) /\ Len(name) > Len(Prefixed(p))}
KeyOf(p, name) == LET rest == SubSeq(name, Len(Prefixed(p)) + 1, Len(name)) IN [i \in DOMAIN rest |-> <<rest[i]>>]
load_all_env_vars(p) ==
  LET mapped == {k \in DOMAIN mappings : mappings[k] \in DOMAIN environment}
      own == {KeyOf(p, n) : n \in Own(p)}
  IN  [k \in mapped \cup own |-> IF k \in mapped THEN Var(mappings[k]) ELSE Var(Prefixed(p) \o Words(k))]

list_env_keys_for_plugin(p) == Own(p) \cup {mappings[k] : k \in DOMAIN mappings}

\* A value on the way that is no object swallows the rest.
RECURSIVE set_nested_value(_, _, _)
set_nested_value(o, key, v) ==
  IF Len(key) = 1 THEN With(o, key[1], v)
  ELSE LET nested == IF key[1] \in DOMAIN o.f THEN o.f[key[1]] ELSE Obj(<<>>)
       IN  With(o, key[1], IF nested.t = "obj" THEN set_nested_value(nested, Tail(key), v) ELSE nested)

StartMerge(p, e, m, o) ==
  /\ Call /\ merging = <<>> /\ environment' = e /\ mappings' = m
  /\ merging' = <<[plugin |-> p, base |-> o, config |-> o, pending |-> DOMAIN load_all_env_vars(p)']>>
  /\ UNCHANGED <<backend_vars, env_vars>>

\* In the order of a hash map.
merge_into_config(key) ==
  /\ merging # <<>> /\ key \in merging[1].pending
  /\ merging' = <<[merging[1] EXCEPT !.pending = @ \ {key},
                     !.config = set_nested_value(@, key, load_all_env_vars(merging[1].plugin)[key].parsed)]>>
  /\ UNCHANGED <<backend_vars, env_vars, environment, mappings, calls>>

Merge == \/ \E p \in Plugins, e \in Environments, m \in Mappings, o \in Contents \ {Broken} : StartMerge(p, e, m, o)
         \/ merging # <<>> /\ \E key \in merging[1].pending : merge_into_config(key)

\* References ${env:KEY} and ${env:KEY:default} of a text, in order.
IsRef(w) == w.t = "ref"
parse_env_refs(text) == SelectSeq(text, IsRef)
EnvText(e, r) == IF r.key \in DOMAIN e THEN e[r.key].text ELSE r.default[1]
\* In what is put in, a dollar and the word after it stand for a group of the
\* expression, and there is none.
PutIn(text) == SelectSeq(text, LAMBDA w : w.t # "dollar")
resolve_env_refs(e, text) ==
  FoldLeft(LAMBDA done, r : FlattenSeq([i \in DOMAIN done |->
                               IF IsRef(done[i]) /\ done[i].key = r.key THEN PutIn(EnvText(e, r)) ELSE <<done[i]>>]),
           text, parse_env_refs(text))
Resolves(e, text) == \A r \in Range(parse_env_refs(text)) : r.key \in DOMAIN e \/ r.default # <<>>

-----------------------------------------------------------------------------
\* Overrides are named [env, key], with no environment for all.
get_override(key) ==
  LET os == overrides[current]
      own == [env |-> current, key |-> key]
      any == [env |-> "", key |-> key]
  IN  IF own \in DOMAIN os THEN os[own] ELSE IF any \in DOMAIN os THEN os[any] ELSE Missing

\* Defaults and overrides are only for an environment with a file of its own.
EnvFile(e) == IF tree[e] # Missing THEN tree[e] ELSE load_config_file(tree["base"])
Layered(o) ==
  LET ds == defaults[current]
      os == overrides[current]
      over == {k.key : k \in {k \in DOMAIN os : k.env = current}}
  IN  Obj([n \in DOMAIN o.f \cup DOMAIN ds \cup over |->
             IF n \in over THEN os[[env |-> current, key |-> n]] ELSE IF n \in DOMAIN o.f THEN o.f[n] ELSE ds[n]])
load_env_config == IF tree[current] = Missing \/ tree[current] = Broken THEN EnvFile(current) ELSE Layered(tree[current])

\* An environment whose file does not parse is left out.
compare_env_configs == [e \in {e \in Envs : EnvFile(e) # Broken} |-> EnvFile(e)]
compare_configs_for_plugin ==
  LET cs == compare_env_configs
  IN  UNION {{<<n, {e1, e2}>> : n \in {n \in DOMAIN cs[e1].f \cap DOMAIN cs[e2].f : cs[e1].f[n] # cs[e2].f[n]}}
             : e1, e2 \in DOMAIN cs}

switch_environment(e) == /\ Call /\ e # current /\ current' = e
                         /\ UNCHANGED <<backend_vars, merge_vars, tree, overrides, defaults>>
add_override(scope, n, v) ==
  /\ Call /\ overrides' = [overrides EXCEPT ![current] = Put(@, [env |-> scope, key |-> n], v)]
  /\ UNCHANGED <<backend_vars, merge_vars, tree, current, defaults>>
add_default_value(n, v) == /\ Call /\ defaults' = [defaults EXCEPT ![current] = Put(@, n, v)]
                           /\ UNCHANGED <<backend_vars, merge_vars, tree, current, overrides>>
WriteTree(e, o) == /\ Call /\ o # tree[e] /\ tree' = [tree EXCEPT ![e] = o]
                   /\ UNCHANGED <<backend_vars, merge_vars, current, overrides, defaults>>

Multi == \/ \E e \in Envs : switch_environment(e)
         \/ \E e \in Envs \cup {"base"}, o \in Contents : WriteTree(e, o)
         \/ \E o \in Contents \ {Broken}, v \in Scalars \ {Broken} : \E n \in DOMAIN o.f :
              add_default_value(n, v) \/ \E scope \in {"", "development", "staging"} : add_override(scope, n, v)

Next == Backend \/ Merge \/ Multi
Spec == Init /\ [][Next]_vars

-----------------------------------------------------------------------------
\* What is cached is the file as the last reload read it, never an older one, as
\* long as reloads of a plugin do not overlap; a value set singly is there until
\* a reload, and the rest of the file with it unless the first call was a set
\* (even one that failed).  Verdicts are those of the schema given if it is the
\* only one ever given (reload_plugin_config, mod.rs:130; set_config_value,
\* mod.rs:117; validate_plugin_config, mod.rs:140).
BackendCurrent ==
  /\ \A p \in DOMAIN configs :
       LET c == configs[p]
       IN  /\ p \notin overlap => c.version >= newest[p]
           /\ c.set \subseteq DOMAIN c.value.f
           /\ c.version = files[p].version =>
                \A n \in DOMAIN load_config_file(files[p].content).f \ c.set :
                   n \in DOMAIN c.value.f /\ c.value.f[n] = files[p].content.f[n]
  /\ verdict # <<>> =>
       LET v == verdict[1]
       IN  IF given[v.plugin] = {v.schema} THEN v.valid <=> validate(from_json(v.schema), v.config)
           ELSE \E s \in given[v.plugin] : v.valid <=> validate(from_json(s), v.config)

\* Both validators agree on schemas that name the type of each property, list
\* what is required and put an enumeration on strings alone, for values without
\* a decimal point (validate, schema.rs:239; validate_value,
\* config_schema.rs:226).
Plain(s) == /\ s.required # <<>>
            /\ \A n \in DOMAIN s.properties :
                 LET p == s.properties[n]
                 IN  /\ p.type \in {"string", "number", "integer", "boolean", "array", "object", "null"}
                     /\ p.enum # <<>> => p.type = "string"
                     /\ p.type = "array" => p.min_length = <<>> /\ p.max_length = <<>>
ValidatorsAgree ==
  \A s \in Schemas, o \in Contents \ {Broken} :
    Plain(s) /\ (\A n \in DOMAIN o.f : o.f[n].t = "num" => ~(o.f[n].point /\ Whole(o.f[n]))) =>
      /\ validate(from_json(s), o) <=> ConfigSchemaValid(s, o)
      /\ validate_with_options(s, o, <<>>) <=> ConfigSchemaValid(s, o)

\* After a merge every variable of the plugin is in force, unless a shorter key
\* of the variables or a plain value of the file is in its way; and nothing else
\* of the file is lost.  What is asked for singly is what a merge takes
\* (merge_into_config, env_integration.rs:124; get_env_value,
\* env_integration.rs:59).
RECURSIVE At(_, _)
At(o, key) == IF o.t # "obj" \/ key[1] \notin DOMAIN o.f THEN Missing
              ELSE IF Len(key) = 1 THEN o.f[key[1]] ELSE At(o.f[key[1]], Tail(key))
Shorter(key) == {SubSeq(key, 1, i) : i \in 1..(Len(key) - 1)}
Paths(o) == UNION {{<<n>>} \cup {<<n, m>> : m \in IF o.f[n].t = "obj" THEN DOMAIN o.f[n].f ELSE {}} : n \in DOMAIN o.f}
EnvInForce ==
  merging # <<>> =>
    LET m == merging[1]
        all == load_all_env_vars(m.plugin)
    IN  /\ m.pending = {} => \A k \in DOMAIN all :
             \/ At(m.config, k) = all[k].parsed
             \/ \E q \in Shorter(k) : q \in DOMAIN all \/ At(m.base, q).t \notin {"obj", "missing"}
             \/ \E q \in DOMAIN all : k \in Shorter(q) /\ all[k].parsed.t = "obj"
        /\ \A q \in Paths(m.base) : (\A k \in DOMAIN all : ~IsPrefix(k, q) /\ ~IsPrefix(q, k)) => At(m.config, q) = At(m.base, q)
        /\ \A k \in DOMAIN all : get_env_value(m.plugin, k) \in {all[k], NoValue}
        /\ \A k \in DOMAIN all : get_env_value(m.plugin, k) = NoValue => k \in DOMAIN mappings
        /\ Own(m.plugin) \subseteq list_env_keys_for_plugin(m.plugin)

\* A text is resolved if each reference has a value or a default; then none is
\* left that the text itself had, equal keys stand for equal texts, and a
\* default counts only for the first of them (resolve_env_refs,
\* env_integration.rs:263).
RefsResolved ==
  \A e \in Environments, text \in Templates :
    Resolves(e, text) =>
      LET done == resolve_env_refs(e, text)
          first(k) == Head(SelectSeq(text, LAMBDA w : IsRef(w) /\ w.key = k))
          plain == \A r \in Range(parse_env_refs(text)) : \A i \in DOMAIN EnvText(e, r) : ~IsRef(EnvText(e, r)[i])
      IN  plain => done = FlattenSeq([i \in DOMAIN text |-> IF IsRef(text[i]) THEN PutIn(EnvText(e, first(text[i].key)))
                                                            ELSE <<text[i]>>])

\* With a file of its own an environment's overrides are in force and agree with
\* what is asked for singly; without one neither they nor the defaults are, and it
\* differs only from environments that have one
\* (load_plugin_config, multi_env.rs:159; get_override, multi_env.rs:89;
\* compare_configs_for_plugin, multi_env.rs:290).
LayersExact ==
  /\ tree[current] \notin {Missing, Broken} => \A n \in DOMAIN load_env_config.f :
       LET own == [env |-> current, key |-> n]
       IN  IF own \in DOMAIN overrides[current] THEN load_env_config.f[n] = get_override(n)
           ELSE load_env_config.f[n] = IF n \in DOMAIN tree[current].f THEN tree[current].f[n] ELSE defaults[current][n]
  /\ tree[current] = Missing => load_env_config \in {tree["base"], Obj(<<>>)}
  /\ \A d \in compare_configs_for_plugin : \E e \in d[2] : tree[e] # Missing
=============================================================================
