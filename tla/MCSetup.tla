------------------------------ MODULE MCSetup ------------------------------
(***************************************************************************)
(* Small instances of what a server does to start and to keep a plugin:    *)
(* startup, the loading pipeline, configuration, reloading by version,     *)
(* metrics, and the calls of a plugin; next to the services of MCServices. *)
(* They share no state: subject says which of them a behaviour is about.   *)
(***************************************************************************)
EXTENDS MCServices

VARIABLES
  binary, load_config, stages, load_outcome, expected, symbols, required_count, resolved_count, twice, extra, held, kept,
  tree, source, settings, startup, startup_at, provided, libraries, credentials, resources, apps, inits, stops,
  schemas, values, checked, settled, touched, backends, secrets, resolving, pass, reads, resolved, config_clock, config_calls,
  files, configs, reloads, newest, overlap, validators, building, given, verdict,
  environment, mappings, merging, env_tree, current, overrides, defaults, advanced_calls,
  file, info, loaded_version, finding, reload_step, clock, inodes, writes, version_checks, within, sametime,
  plugin_metrics, timers, timed_calls, ending, made, metric_store, metric_cache, metric_time, metric_calls, events,
  timed, uncounted, base, metric_race, shared, lost, stored_at,
  registered, methods, heap, lent, refused, shared_config, toml_files, loading, last_load, next_handle, active_spans, spans,
  starting, started, context_calls

load_vars    == <<binary, load_config, stages, load_outcome, expected, symbols, required_count, resolved_count, twice, extra, held, kept>>
start_vars   == <<tree, source, settings, startup, startup_at, provided, libraries, credentials, resources, apps, inits, stops>>
settings_vars  == <<schemas, values, checked, settled, touched, backends, secrets, resolving, pass, reads, resolved, config_clock, config_calls>>
advanced_vars == <<files, configs, reloads, newest, overlap, validators, building, given, verdict, environment, mappings,
                   merging, env_tree, current, overrides, defaults, advanced_calls>>
version_vars == <<file, info, loaded_version, finding, reload_step, clock, inodes, writes, version_checks, within, sametime>>
metric_vars  == <<plugin_metrics, timers, timed_calls, ending, made, metric_store, metric_cache, metric_time, metric_calls, events,
                  timed, uncounted, base, metric_race, shared, lost, stored_at>>
context_vars == <<registered, methods, heap, lent, refused, shared_config, toml_files, loading, last_load, next_handle, active_spans,
                  spans, starting, started, context_calls>>
setup_vars == <<load_vars, start_vars, settings_vars, advanced_vars, version_vars, metric_vars, context_vars>>

-----------------------------------------------------------------------------
\* Loading: files with every fault, and every version of the interface.
Exports == {"plugin_get_info_v2", "plugin_init_v2", "plugin_shutdown_v2", "plugin_handle_request_v2"}
Binary(format, fault, abi, more) == [format |-> format, fault |-> fault, abi |-> abi, symbols |-> Exports \cup more, names |-> <<"s", "">>]
Settings(version, strict, enforce, memory, time) ==
  [platform |-> "linux", version |-> version, strict |-> strict, enforce |-> enforce, max_memory |-> memory, max_time |-> time]
Good == Binary("ELF", "none", <<2, 1, 0>>, {})
Usual == Settings(<<2, 0, 0>>, TRUE, TRUE, 64, 1)
States == {"plugin_serialize_state_v2"}
L == INSTANCE LoadPipeline WITH
  config <- load_config, outcome <- load_outcome,
  Binaries <- {Binary("ELF", f, <<2, 0>>, {}) : f \in {"absent", "unreadable", "unloadable", "no_get_info", "null_info"}}
     \cup {Binary(f, "none", <<2, 0>>, {}) : f \in {"text", "fat Mach-O", "MZ", "PE"}} \cup {Binary("text", "absent", <<2, 0>>, {})}
     \cup {Binary("ELF", "none", v, {}) : v \in {<<>>, <<1, 0>>, <<2, 0>>, <<2, 1, 0>>, <<3, 0, 0>>}}
     \cup {Binary("ELF", "none", <<2, 0>>, States), Binary("ELF", "none", <<2, 0>>, States \cup {"plugin_free_state_v2"})},
  Configs <- {Usual, Settings(<<2, 0, 0>>, FALSE, TRUE, 63, 0), Settings(<<1, 9, 0>>, FALSE, FALSE, 0, 0),
              Settings(<<1, 9, 0>>, TRUE, TRUE, 64, 0),
              [Usual EXCEPT !.platform = "macos"], [Usual EXCEPT !.platform = "windows"], Settings(<<3, 0, 0>>, TRUE, TRUE, 0, 1)},
  Strategies <- [max_retries : {0, 3}, skip : BOOLEAN, rollback : BOOLEAN, default : {"Retry", "Abort"}],
  Names <- {"n1", "n2"}, Types <- {1, 2}, MaxTime <- 1, MaxCalls <- 4

\* Startup: the four bootstrap plugins and one more, in one of two directories.
Library(words) == [words |-> words, sep |-> "_"]
CM == Library(<<"config", "manager">>)
LG == Library(<<"logging">>)
RG == Library(<<"registry">>)
SM == Library(<<"secrets", "manager">>)
AP == Library(<<"test", "app">>)
Alphabetic == <<CM, LG, RG, SM, AP>>
Holding(c, l, s) == [n \in {CM, LG, RG, SM, AP} |-> CASE n = CM -> c [] n = LG -> l [] n = SM -> s [] OTHER -> "good"]
Bare == [n \in {CM, LG, RG, SM, AP} |-> "absent"]
Tree(release, other) == [d \in {"plugins", "release"} |-> IF d = "release" THEN release ELSE other]
Full == Tree(Holding("good", "good", "good"), Bare)
Bad == [broken |-> TRUE]
Match(form, words) == [form |-> form, words |-> words]
Conf(port, exclude, include) == [port |-> port, host |-> "h", dir |-> "release", exclude |-> exclude, include |-> include]
Elsewhere == Conf(3, <<>>, <<Match("prefix", <<"test">>), Match("exact", <<"registry">>), Match("suffix", <<"manager">>)>>)
Source(found, env, cli, args) == [files |-> found, env |-> env, cli |-> cli, args |-> args]
Unset == Source(<<>>, <<>>, <<>>, <<>>)
S == INSTANCE ServerStart WITH
  phase <- startup, at <- startup_at, held <- libraries, services <- provided, Dirs <- <<"plugins", "release">>, Rank <- LAMBDA n : CHOOSE i \in 1..5 : Alphabetic[i] = n,
  Trees <- {Tree(Holding(c, "good", s), Bare) : c \in {"absent", "good", "fails", "no_init"}, s \in {"no_shutdown", "good", "panics"}}
      \cup {Tree(Holding("good", l, "good"), p) : l \in {"stop_panics", "unloadable"}, p \in {Bare, [Bare EXCEPT ![LG] = "fails"]}},
  Sources <- {Unset,
     Source(<<Bad, Conf(1, <<Match("suffix", <<"manager">>)>>, <<>>)>>, [port |-> 2], <<>>, <<>>),
     Source(<<Conf(0, <<Match("infix", <<"manager">>), Match("exact", <<"registry">>)>>, <<>>)>>, [host |-> "e"], <<>>, <<>>),
     Source(<<Conf(1, <<Match("prefix", <<"test">>)>>, <<>>)>>, [port |-> 2, host |-> ""], Conf(3, <<>>, <<>>), [port |-> 4]),
     Source(<<Bad>>, [port |-> 0], Elsewhere, [dir |-> "plugins"]),
     Source(<<[Elsewhere EXCEPT !.dir = "plugins"]>>, <<>>, <<>>, <<>>),
     Source(<<>>, <<>>, Bad, [host |-> ""])}

-----------------------------------------------------------------------------
\* Values of a configuration, and texts by what the checks look at.
Text == [len |-> 1, x2 |-> -1, truth |-> "", scheme |-> "", path |-> "none", parts |-> <<[n |-> -1, unit |-> "?"]>>,
         email |-> FALSE, space |-> FALSE, uri |-> ""]
Str(s) == [t |-> "str", s |-> s]
Num(x2) == [t |-> "num", x2 |-> x2]
NullValue == [t |-> "null"]
FileUri == <<"file", "a">>
Ref == Str([Text EXCEPT !.len = 7, !.scheme = "file", !.uri = FileUri])
KeyRef == [t |-> "obj", uri |-> FileUri, key |-> "k1"]
One == Str([Text EXCEPT !.x2 = 2, !.truth = "true"])
Hour == Str([Text EXCEPT !.len = 5, !.parts = <<[n |-> 1, unit |-> "h"], [n |-> 30, unit |-> "m"]>>])
Mail == Str([Text EXCEPT !.len = 4, !.email = TRUE])
Empty == Str([Text EXCEPT !.len = 0, !.parts = <<>>])
Values == {NullValue, One, Hour, Mail, Empty, Ref, KeyRef, Num(4), Num(5), Num(0), Num(2), Num(160),
           [t |-> "bool", b |-> TRUE], [t |-> "arr", items |-> <<Hour>>]}

Kind(k) == [kind |-> k]
Field(name, type, required, default, rules) ==
  [name |-> name, type |-> type, required |-> required, default |-> default, rules |-> rules,
   order |-> IF required THEN 1 ELSE 2, sensitive |-> required, widget |-> ""]
Schema(fields, rules) == [fields |-> fields, rules |-> rules]
Both == {"port", "secret"}
Ports == Schema(<<Field("port", Kind("Port"), FALSE, Num(160), <<[rule |-> "Min", n |-> 4], [rule |-> "Max", n |-> 200]>>),
                  Field("secret", Kind("Secret"), TRUE, NullValue, <<[rule |-> "MinLength", n |-> 2]>>)>>, <<>>)
Choices == Schema(<<Field("port", Kind("Integer"), TRUE, NullValue, <<[rule |-> "OneOf", set |-> {Num(4), Num(5)}]>>),
                    Field("secret", Kind("String"), FALSE, NullValue, <<>>)>>,
                  <<[rule |-> "Conditional", when |-> "port", is |-> Num(4), fields |-> {"secret"}]>>)
Variants == Schema(<<Field("port", [kind |-> "Array", inner |-> Kind("Duration")], FALSE, NullValue, <<>>),
                     Field("secret", [kind |-> "Enum", variants |-> {One, Hour}], TRUE, One, <<[rule |-> "NotOneOf", set |-> {Mail}]>>),
                     Field("port", Kind("Float"), FALSE, NullValue, <<>>)>>, <<[rule |-> "ExactlyOne", fields |-> Both]>>)
Places == Schema(<<Field("port", [kind |-> "Url", schemes |-> {"file"}], FALSE, Ref, <<>>),
                   Field("secret", [kind |-> "Path", must_exist |-> TRUE, is_dir |-> FALSE], FALSE, NullValue,
                         <<[rule |-> "Pattern", set |-> {One}]>>)>>,
                 <<[rule |-> "AtLeastOne", fields |-> Both], [rule |-> "FieldsEqual", fields |-> Both]>>)
Holds1 == [text |-> Str([Text EXCEPT !.len = 3]), keys |-> [k1 |-> Hour, k2 |-> Mail]]
Asked(key, reuse, ttl) == [uri |-> FileUri, key |-> key, cache |-> reuse, ttl |-> ttl]
Holds2 == [text |-> One, keys |-> [k1 |-> One]]

C == INSTANCE PluginConfig WITH
  store <- backends, returned <- resolved, clock <- config_clock, calls <- config_calls,
  Plugins <- {"p"}, Schemas <- {Ports, Choices}, Values <- Values, Uris <- {FileUri}, Keys <- {"k1", "k2"}, Available <- {"env", "file"},
  Contents <- {[port |-> Num(4), secret |-> Ref], [port |-> Num(5)], [secret |-> KeyRef], [port |-> Num(160), secret |-> Empty],
               [port |-> [t |-> "arr", items |-> <<KeyRef>>], secret |-> [t |-> "obj", uri |-> "", fields |-> <<Ref>>]]},
  Secrets <- {Holds1, Holds2}, Callers <- Threads, Ttl <- 1, MaxNow <- 2, MaxLag <- 1, MaxSteps <- 3,
  References <- {Asked("k1", TRUE, 0), Asked("no key", TRUE, 1), Asked("no key", FALSE, 0)}

\* The same checks over all contents of all the schemas.
CA == INSTANCE PluginConfig WITH
  store <- backends, returned <- resolved, clock <- config_clock, calls <- config_calls,
  Plugins <- {"p"}, Schemas <- {Ports, Choices, Variants, Places}, Values <- Values, Uris <- {<<"env", "a">>, FileUri},
  Keys <- {"k1", "k2"}, Available <- {"env", "file"}, Contents <- UNION {[d -> Values] : d \in SUBSET Both},
  Secrets <- {}, Callers <- Threads, References <- {}, Ttl <- 1, MaxNow <- 2, MaxLag <- 1, MaxSteps <- 3

-----------------------------------------------------------------------------
\* Configuration by files and environment variables.
Obj(f) == [t |-> "obj", f |-> f]
Number(x2, point) == [t |-> "num", x2 |-> x2, point |-> point]
Chars(n) == [t |-> "str", len |-> n]
Broken == [t |-> "broken"]
Property(type, required) ==
  [type |-> type, required |-> required, min_length |-> <<>>, max_length |-> <<>>, minimum |-> <<>>, maximum |-> <<>>,
   enum |-> <<>>, pattern |-> <<>>]
Judge(a, b, required, additional) ==
  [properties |-> (<<"a">> :> a) @@ (<<"b">> :> b), required |-> required, additional |-> additional]
Strict == Judge([Property("string", TRUE) EXCEPT !.min_length = <<1>>, !.enum = <<{Chars(1)}>>],
                [Property("integer", FALSE) EXCEPT !.maximum = <<2>>], <<{<<"a">>}>>, FALSE)
Loose == Judge([Property("int", TRUE) EXCEPT !.minimum = <<3>>], [Property("array", FALSE) EXCEPT !.max_length = <<0>>], <<>>, TRUE)
Odd == Judge(Property("number", FALSE), [Property("object", FALSE) EXCEPT !.pattern = <<{}>>], <<{<<"b">>}>>, TRUE)
Leaves == {Number(2, FALSE), Number(2, TRUE), Number(3, TRUE), Chars(1), Chars(3), [t |-> "bool"],
           [t |-> "arr", len |-> 1], NullValue, Obj(<<"x">> :> Chars(1))}

Entry(parsed, text) == [parsed |-> parsed, text |-> text]
TextWord(w) == [t |-> "word", w |-> w]
VarRef(key, default) == [t |-> "ref", key |-> key, default |-> default]
Dollar == [t |-> "dollar"]
PA == <<"SKYLET", "p", "a">>
PAX == <<"SKYLET", "p", "a", "x">>
Plain == (PA :> Entry(Number(4, FALSE), <<TextWord("4")>>)) @@ (PAX :> Entry(Chars(1), <<TextWord("s"), Dollar>>))
         @@ (<<"SKYLET", "p", "b", "z">> :> Entry(Chars(1), <<>>)) @@ (<<"SKYLET", "a">> :> Entry(Chars(3), <<TextWord("sss")>>))
Nested == (PA :> Entry(Obj((<<"x">> :> Number(2, FALSE)) @@ (<<"y">> :> Chars(3))), <<TextWord("o")>>)) @@ (PAX :> Entry(Chars(1), <<TextWord("s")>>))
          @@ (<<"MY">> :> Entry(Chars(3), <<VarRef(PA, <<>>)>>)) @@ (<<"SKYLET", "p", "b", "x", "y">> :> Entry(Chars(3), <<>>))

A == INSTANCE AdvancedConfig WITH
  tree <- env_tree, calls <- advanced_calls,
  Plugins <- {<<"p">>, <<"p", "a">>}, Schemas <- {Strict, Loose}, Scalars <- {Number(4, FALSE), Broken},
  Contents <- {Obj(<<"a">> :> Number(2, FALSE)), Obj((<<"a">> :> Chars(3)) @@ (<<"b">> :> Obj(<<"x">> :> Chars(1)))), Broken},
  Environments <- {Plain, Nested}, Mappings <- {<<>>, (<<<<"a">>>> :> <<"MY">>) @@ (<<<<"k", "l">>>> :> PAX)},
  Templates <- {}, MaxCalls <- 4

\* The same checks over all contents, and texts with references.
AA == INSTANCE AdvancedConfig WITH
  tree <- env_tree, calls <- advanced_calls,
  Plugins <- {<<"p">>}, Schemas <- {Strict, Loose, Odd}, Scalars <- {}, Environments <- {Plain, Nested}, Mappings <- {}, MaxCalls <- 4,
  Contents <- UNION {{Obj(f) : f \in [d -> Leaves]} : d \in SUBSET {<<"a">>, <<"b">>}} \cup {Obj(<<"c">> :> Number(2, FALSE))},
  Templates <- {<<TextWord("t"), VarRef(PA, <<>>), VarRef(PAX, <<<<TextWord("d1")>>>>), VarRef(PAX, <<<<TextWord("d2")>>>>)>>,
                <<VarRef(<<"N">>, <<<<TextWord("d1")>>>>), VarRef(<<"N">>, <<>>), TextWord("t")>>,
                <<VarRef(<<"N">>, <<<<TextWord("d1")>>>>), TextWord("t"), VarRef(<<"N">>, <<<<TextWord("d2"), Dollar>>>>)>>,
                <<VarRef(<<"MY">>, <<<<TextWord("d")>>>>), VarRef(PA, <<<<TextWord("e")>>>>)>>}

-----------------------------------------------------------------------------
Tagged(parts, tag) == [parts |-> parts, tag |-> tag]
V == INSTANCE VersionReload WITH
  running <- loaded_version, result <- finding, step <- reload_step, checks <- version_checks,
  Versions <- {Tagged(<<1, 0>>, ""), Tagged(<<1, 0, 0>>, ""), Tagged(<<1, 0, 0>>, "dev"), Tagged(<<>>, "x")},
  MaxTicks <- 2, MaxWrites <- 2, MaxChecks <- 2

\* Two calls with every metric kept, and one, at one time, with metrics left out; the plugin
\* records a metric of its own under a name that counts for its calls.
Ask(plugin, name, start, end, labels) == [plugin |-> plugin, name |-> name, start |-> start, end |-> end, labels |-> labels]
MetricQueries == {Ask({"p"}, {}, {}, {}, {}), Ask({}, {<<"total_calls">>}, {1}, {1}, {}), Ask({}, {}, {}, {}, {<<"success", TRUE>>})}
Own(name, kind) == [name |-> name, kind |-> kind]
M == INSTANCE PluginMetrics WITH
  running <- timed_calls, store <- metric_store, cache <- metric_cache, raced <- metric_race, calls <- metric_calls, now <- metric_time,
  Plugins <- {"p"}, Operations <- {"f"}, Customs <- {Own(<<"my", "failed_calls">>, "counter")},
  SampleRate <- 100, Retention <- 1, MaxCached <- 3, MaxKept <- 1, SummaryLimit <- 4, Queries <- MetricQueries, Limits <- {1, 2},
  MaxNow <- 1, MaxCalls <- 2, MaxEvents <- 1
MA == INSTANCE PluginMetrics WITH
  running <- timed_calls, store <- metric_store, cache <- metric_cache, raced <- metric_race, calls <- metric_calls, now <- metric_time,
  Plugins <- {"p"}, Operations <- {"f"}, Customs <- {Own(<<"hits">>, "histogram")},
  SampleRate <- 50, Retention <- 1, MaxCached <- 3, MaxKept <- 1, SummaryLimit <- 4, Queries <- MetricQueries, Limits <- {1, 2},
  MaxNow <- 0, MaxCalls <- 1, MaxEvents <- 2

-----------------------------------------------------------------------------
\* What plugins call: lists over the limit, files of two plugins with the same
\* keys, and paths that differ in braces or underscores only.
PathPart(w, param) == [word |-> w, param |-> param]
Typed == [k |-> [t |-> "int", n |-> 1], j |-> [t |-> "bool", b |-> TRUE]]
X == INSTANCE ContextCalls WITH
  services <- registered, given <- lent, config <- shared_config, files <- toml_files, loaded <- last_load, calls <- context_calls,
  Plugins <- {"p", "q"}, Names <- {"n1", "n2"},
  Routes <- [method : {"GET", "POST"}, plugin : {"p", "q"},
             path : {<<PathPart(<<"a">>, FALSE)>>, <<PathPart(<<"a">>, TRUE)>>, <<PathPart(<<"a">>, FALSE), PathPart(<<"b">>, TRUE)>>,
                     <<PathPart(<<"a", "_", "b">>, FALSE)>>}],
  Contents <- {Typed, [k |-> [t |-> "float", x2 |-> 3], j |-> [t |-> "nan"]], [k |-> [t |-> "str", text |-> [word |-> "w"]]],
               [k |-> [t |-> "str", text |-> [word |-> "nul"]]], [k |-> [t |-> "table"]], [broken |-> TRUE]},
  SchemaOf <- [p |-> <<{Typed}>>, q |-> <<>>], Keys <- {"k"}, Values <- {[int |-> 7]},
  MaxList <- 1, MaxBlocks <- 4, MaxSpans <- 2, MaxCalls <- 3

-----------------------------------------------------------------------------
\* Only the chosen subject starts in more than one way.
SetupInit ==
  /\ Init
  /\ subject \notin {"pipeline", "states"} => binary = Good
  /\ subject # "pipeline" => load_config = Usual
  /\ subject # "startup" => tree = Full /\ source = Unset
  /\ subject # "plugin_config" => backends = [u \in {FileUri} |-> Holds1]
  /\ subject # "reload" => file = V!Facts(Tagged(<<1, 0>>, ""), 0, 1)
  /\ L!Init /\ S!Init /\ C!Init /\ A!Init /\ V!Init /\ M!Init /\ X!Init
  /\ subject = "states" => binary.fault = "none"

Setup(s, others) == About(s, <<registry_vars, service_vars, others>>)
Loading(s) == Setup(s, <<start_vars, settings_vars, advanced_vars, version_vars, metric_vars, context_vars>>)
Advanced(s) == Setup(s, <<load_vars, start_vars, settings_vars, version_vars, metric_vars, context_vars>>)
Context(s) == Setup(s, <<load_vars, start_vars, settings_vars, advanced_vars, version_vars, metric_vars>>)

SetupNext ==
  \/ Next /\ UNCHANGED setup_vars
  \/ Loading("pipeline") /\ L!Pipeline
  \/ Loading("symbols") /\ L!Symbols
  \/ Loading("states") /\ L!States
  \/ Setup("startup", <<load_vars, settings_vars, advanced_vars, version_vars, metric_vars, context_vars>>) /\ S!Next
  \/ Setup("plugin_config", <<load_vars, start_vars, advanced_vars, version_vars, metric_vars, context_vars>>) /\ C!Next
  \/ Advanced("config_files") /\ A!Backend
  \/ Advanced("config_env") /\ A!Merge
  \/ Advanced("config_layers") /\ A!Multi
  \/ Setup("reload", <<load_vars, start_vars, settings_vars, advanced_vars, metric_vars, context_vars>>) /\ V!Next
  \/ Setup("metrics", <<load_vars, start_vars, settings_vars, advanced_vars, version_vars, context_vars>>) /\ M!Next
  \/ Setup("samples", <<load_vars, start_vars, settings_vars, advanced_vars, version_vars, context_vars>>) /\ MA!Next
  \/ Context("memory") /\ X!Memory
  \/ Context("settings") /\ X!Settings
  \/ Context("spans") /\ X!Spans

\* A behaviour of this is one of MCServices!Spec.
SetupSpec == SetupInit /\ [][SetupNext]_<<vars, setup_vars>>

-----------------------------------------------------------------------------
\* LoadPipeline, ServerStart, VersionReload, PluginMetrics and ContextCalls: a
\* load ends as its stages say and gives back what it took, startup and
\* shutdown keep their order, what runs is what was reloaded, every call is
\* counted, and what the host hands out is given back (lifecycle.rs:867,
\* bootstrap.rs:795, version_reload.rs:178, plugin_integration.rs:29,
\* manager.rs:1380).
SetupSound ==
  /\ subject = "pipeline" => L!LoadsExact
  /\ subject = "symbols" => L!SymbolsExact
  /\ subject = "states" => L!StateReturned
  /\ subject = "startup" => S!StartupOrderly /\ S!SettingsLayered
  /\ subject = "reload" => V!VersionsCurrent
  /\ subject \in {"metrics", "samples"} => M!CallsCounted /\ M!StorageOrdered /\ (metric_calls = 0 => M!SamplesKept)
  /\ subject = "memory" => X!MemoryReturned /\ (registered = {} /\ heap = <<>> => X!RoutesDocumented /\ X!AnswersTrue)
  /\ subject = "spans" => X!SpansExact /\ (context_calls = 0 => X!TraceparentKept)

=============================================================================
