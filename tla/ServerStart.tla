----------------------------- MODULE ServerStart -----------------------------
(***************************************************************************)
(* Startup and shutdown of the server: its configuration (config.rs), the  *)
(* four bootstrap plugins (bootstrap.rs), discovery (discovery.rs), and    *)
(* what run_server does with them (main.rs).  A library is named by its    *)
(* words and the separator between them; what it does is fixed per file.   *)
(***************************************************************************)
EXTENDS Integers, Sequences, SequencesExt, FiniteSets

CONSTANTS Trees,     \* file systems: [directory -> [library -> kind of file]]
          Dirs,      \* the directories searched for bootstrap plugins, in order
          Sources,   \* configurations as found: [files, env, cli, args]
          Rank(_)    \* the order of names

VARIABLES tree, source,
          settings,    \* the configuration, or Nothing
          phase,       \* "config", "bootstrap", "again", "apps", "serve", "drop", "down", "failed", "aborted"
          at,          \* position in the list of this phase
          services,    \* services of the bootstrap context
          held,        \* libraries it holds: [name, lib, kind]
          credentials, \* names registered with the authenticator
          resources,   \* contexts the plugin manager keeps for them
          apps,        \* application plugins: [name, status]
          inits,       \* calls of plugin_init_v2: [lib, dir, by]
          stops        \* libraries whose shutdown was called, in order

vars == <<tree, source, settings, phase, at, services, held, credentials, resources, apps, inits, stops>>

Nothing == [port |-> -1]
Name(words, sep) == [words |-> words, sep |-> sep]
Plain(w) == Name(<<w>>, "_")

\* The libraries, what they are registered as, and the service each provides.
Bootstrap ==
  << [lib |-> Name(<<"config", "manager">>, "_"), name |-> Name(<<"config", "manager">>, "-"), service |-> "config"],
     [lib |-> Plain("logging"), name |-> Plain("logging"), service |-> "logging"],
     [lib |-> Plain("registry"), name |-> Plain("registry"), service |-> "registry"],
     [lib |-> Name(<<"secrets", "manager">>, "_"), name |-> Name(<<"secrets", "manager">>, "-"), service |-> "secrets"] >>

Init == /\ tree \in Trees /\ source \in Sources /\ settings = Nothing /\ phase = "config" /\ at = 1
        /\ services = {} /\ held = <<>> /\ credentials = {} /\ resources = {} /\ apps = <<>>
        /\ inits = <<>> /\ stops = <<>>

-----------------------------------------------------------------------------
\* A layer is what a file, the environment or the command line gives; Broken is
\* a file that cannot be read or parsed, <<>> one that gives nothing.
Broken == [broken |-> TRUE]
Exactly(words) == [form |-> "exact", words |-> words]
Default == [port |-> 8080, host |-> "0.0.0.0", dir |-> "release", include |-> <<>>,
            exclude |-> <<Exactly(<<"test", "plugin">>), Exactly(<<"simple", "v2", "plugin">>),
                          Exactly(<<"skylet", "sdk", "macros">>)>>]
Over(base, layer) == [f \in DOMAIN base |-> IF f \in DOMAIN layer THEN layer[f] ELSE base[f]]

\* config.toml, then config.json: the first that parses is taken whole.
AutoDiscovered(files) ==
  LET good == SelectSeq(files, LAMBDA f : f # Broken) IN IF good = <<>> THEN Default ELSE Head(good)

\* The file named on the command line replaces everything before it.
load_with_args(s) ==
  LET base == IF s.cli # <<>> THEN s.cli ELSE Over(AutoDiscovered(s.files), s.env) IN Over(base, s.args)

validate(c) == c.port # 0 /\ c.host # ""

\* The server itself gives no argument (its load parses the name of the program
\* alone); the directories it then makes may be refused.
AsStarted(s) == [s EXCEPT !.cli = <<>>, !.args = <<>>]
LoadConfig ==
  /\ phase = "config" /\ phase' \in {"bootstrap", "failed"}
  /\ settings' = load_with_args(AsStarted(source))
  /\ UNCHANGED <<tree, source, at, services, held, credentials, resources, apps, inits, stops>>

-----------------------------------------------------------------------------
\* The first directory that has the file.
Holding(lib) == SelectSeq(Dirs, LAMBDA d : tree[d][lib] # "absent")
find_plugin(lib) == Holding(lib)[1]

\* By the name of the library: those of two words are unknown here.
create_sandbox_policy(name) ==
  CASE name = Name(<<"config", "manager">>, "-") -> "permissive"
    [] name \in {Plain("logging"), Plain("registry")} -> "limited"
    [] OTHER -> "restrictive"

\* Only a library with plugin_init_v2 is called.
Called(kind) == kind \in {"good", "fails", "panics", "no_shutdown", "stop_panics"}
Succeeds(kind) == kind \in {"good", "no_shutdown", "stop_panics"}

call_plugin_init(lib, dir, by) ==
  inits' = IF Called(tree[dir][lib]) THEN Append(inits, [lib |-> lib, dir |-> dir, by |-> by]) ELSE inits

\* A plugin that could not be loaded leaves the service to the same stub.
load_bootstrap_plugins ==
  /\ phase = "bootstrap" /\ at <= Len(Bootstrap)
  /\ LET p == Bootstrap[at]
         d == find_plugin(p.lib)
     IN  /\ services' = services \cup {p.service}
         /\ IF Holding(p.lib) # <<>> THEN call_plugin_init(p.lib, d, "bootstrap") ELSE inits' = inits
         /\ IF Holding(p.lib) # <<>> /\ Succeeds(tree[d][p.lib])
            THEN /\ held' = Append(held, [name |-> p.name, lib |-> p.lib, kind |-> tree[d][p.lib]])
                 /\ credentials' = credentials \cup {p.name}
            ELSE UNCHANGED <<held, credentials>>
  /\ at' = at + 1
  /\ UNCHANGED <<tree, source, settings, phase, resources, apps, stops>>

\* A panic that does not unwind across the call ends the process instead.
InitAborts ==
  /\ phase = "bootstrap" /\ at <= Len(Bootstrap)
  /\ LET p == Bootstrap[at]
     IN  /\ Holding(p.lib) # <<>> /\ tree[find_plugin(p.lib)][p.lib] = "panics"
         /\ call_plugin_init(p.lib, find_plugin(p.lib), "bootstrap")
  /\ phase' = "aborted"
  /\ UNCHANGED <<tree, source, settings, at, services, held, credentials, resources, apps, stops>>

\* Without all services run_server would go on with an empty context.
verify_all_loaded == services = {"config", "logging", "registry", "secrets"}
Bootstrapped == /\ phase = "bootstrap" /\ at > Len(Bootstrap)
                /\ phase' = "again" /\ at' = 1
                /\ held' = IF verify_all_loaded THEN held ELSE <<>>
                /\ UNCHANGED <<tree, source, settings, services, credentials, resources, apps, inits, stops>>

\* The plugins held are initialised again, with services this time; one that
\* refuses stays.
init_bootstrap_plugin(succeeds) ==
  /\ phase = "again" /\ at <= Len(held)
  /\ inits' = Append(inits, [lib |-> held[at].lib, dir |-> find_plugin(held[at].lib), by |-> "again"])
  /\ resources' = IF succeeds THEN resources \cup {held[at].name} ELSE resources
  /\ at' = at + 1
  /\ UNCHANGED <<tree, source, settings, phase, services, held, credentials, apps, stops>>

-----------------------------------------------------------------------------
\* Names are matched word by word.
is_excluded(p, name) ==
  CASE p.form = "infix" -> \E i, j \in DOMAIN name.words : SubSeq(name.words, i, j) = p.words
    [] p.form = "prefix" -> IsPrefix(p.words, name.words)
    [] p.form = "suffix" -> IsSuffix(p.words, name.words)
    [] p.form = "exact" -> p.words = name.words
\* A leading star is nothing special here.
is_included(p, name) == CASE p.form = "prefix" -> IsPrefix(p.words, name.words)
                          [] p.form = "exact" -> p.words = name.words
                          [] OTHER -> FALSE

\* The directory of the settings alone is searched; the name is that of the file.
discover_plugins ==
  LET files == tree[settings.dir]
      found == {n \in DOMAIN files : /\ files[n] # "absent"
                                     /\ ~\E i \in DOMAIN settings.exclude : is_excluded(settings.exclude[i], n)
                                     /\ settings.include = <<>> \/
                                          \E i \in DOMAIN settings.include : is_included(settings.include[i], n)}
  IN  SetToSortSeq(found, LAMBDA a, b : Rank(a) < Rank(b))

HeldNames == {held[i].name : i \in DOMAIN held}

DiscoverAll == /\ phase = "again" /\ at > Len(held)
               /\ phase' = "apps" /\ at' = 1
               /\ UNCHANGED <<tree, source, settings, services, held, credentials, resources, apps, inits, stops>>

\* A plugin that is held under this name is skipped.
LoadApp ==
  /\ phase = "apps" /\ at <= Len(discover_plugins)
  /\ LET n == discover_plugins[at]
         k == tree[settings.dir][n]
         status == IF Succeeds(k) /\ k # "no_shutdown" THEN "healthy" ELSE "failed"
     IN  IF n \in HeldNames THEN UNCHANGED <<apps, inits>>
         ELSE /\ k # "panics"
              /\ apps' = Append(apps, [name |-> n, status |-> status])
              /\ IF k = "no_shutdown" THEN inits' = inits ELSE call_plugin_init(n, settings.dir, "apps")
  /\ at' = at + 1
  /\ UNCHANGED <<tree, source, settings, phase, services, held, credentials, resources, stops>>

\* Nothing catches a panic here.
AppAborts ==
  /\ phase = "apps" /\ at <= Len(discover_plugins)
  /\ discover_plugins[at] \notin HeldNames /\ tree[settings.dir][discover_plugins[at]] = "panics"
  /\ call_plugin_init(discover_plugins[at], settings.dir, "apps")
  /\ phase' = "aborted"
  /\ UNCHANGED <<tree, source, settings, at, services, held, credentials, resources, apps, stops>>

Serve == /\ phase = "apps" /\ at > Len(discover_plugins)
         /\ phase' = "serve"
         /\ UNCHANGED <<tree, source, settings, at, services, held, credentials, resources, apps, inits, stops>>

\* Application plugins are unloaded, and none of them is told.
shutdown_all == /\ phase = "serve" /\ phase' = "drop" /\ apps' = <<>>
                /\ UNCHANGED <<tree, source, settings, at, services, held, credentials, resources, inits, stops>>

DropInOrder ==
  /\ phase = "drop" /\ held # <<>>
  /\ held' = Tail(held)
  /\ stops' = IF Head(held).kind = "no_shutdown" THEN stops ELSE Append(stops, Head(held).lib)
  /\ UNCHANGED <<tree, source, settings, phase, at, services, credentials, resources, apps, inits>>

\* The last one first; a plugin without the function, a failure or a panic is
\* passed over.
DropPlugin ==
  /\ phase = "drop" /\ held # <<>>
  /\ held' = Front(held)
  /\ stops' = IF Last(held).kind = "no_shutdown" THEN stops ELSE Append(stops, Last(held).lib)
  /\ UNCHANGED <<tree, source, settings, phase, at, services, credentials, resources, apps, inits>>

ShutdownAborts == /\ phase = "drop" /\ held # <<>> /\ Last(held).kind = "stop_panics"
                  /\ stops' = Append(stops, Last(held).lib) /\ phase' = "aborted"
                  /\ UNCHANGED <<tree, source, settings, at, services, held, credentials, resources, apps, inits>>

shutdown_bootstrap_plugins ==
  /\ phase = "drop" /\ held = <<>> /\ phase' = "down"
  /\ UNCHANGED <<tree, source, settings, at, services, held, credentials, resources, apps, inits, stops>>

Next == \/ LoadConfig \/ load_bootstrap_plugins \/ InitAborts \/ Bootstrapped
        \/ \E b \in BOOLEAN : init_bootstrap_plugin(b)
        \/ DiscoverAll \/ LoadApp \/ AppAborts \/ Serve \/ shutdown_all
        \/ DropPlugin \/ ShutdownAborts \/ shutdown_bootstrap_plugins

Spec == Init /\ [][Next]_vars

-----------------------------------------------------------------------------
Libs == {Bootstrap[i].lib : i \in DOMAIN Bootstrap}
Position(l) == CHOOSE i \in DOMAIN Bootstrap : Bootstrap[i].lib = l
InitsOf(l, by) == Cardinality({i \in DOMAIN inits : inits[i].lib = l /\ inits[i].by = by})
OneWord(l) == Len(l.words) = 1

\* Whatever its plugins do, an orderly shutdown tells each bootstrap plugin that
\* was initialised, and has the function, once, in the reverse of the order they
\* were loaded in, and no other; each was initialised with an empty context and
\* then once more with a full one, and all four services are there.  A plugin
\* whose library and registered name are spelt alike is not loaded again as an
\* application plugin.  The first file of the search counts, not the configured
\* directory's (load_bootstrap_plugins, bootstrap.rs:801; Drop, bootstrap.rs:319;
\* main.rs:355 and :374).
StartupOrderly ==
  /\ phase \notin {"config", "bootstrap", "failed", "aborted"} => verify_all_loaded
  /\ \A i, j \in DOMAIN stops : i < j => Position(stops[i]) > Position(stops[j])
  /\ phase = "down" => \A l \in Libs :
       (\E i \in DOMAIN stops : stops[i] = l) <=>
          Holding(l) # <<>> /\ tree[find_plugin(l)][l] \in {"good", "stop_panics"}
  /\ \A l \in Range(stops) : InitsOf(l, "bootstrap") = 1 /\ InitsOf(l, "again") = 1
  /\ \A l \in Libs : /\ InitsOf(l, "again") <= InitsOf(l, "bootstrap") /\ InitsOf(l, "bootstrap") <= 1
                     /\ OneWord(l) /\ InitsOf(l, "again") = 1 => InitsOf(l, "apps") = 0
                     /\ InitsOf(l, "apps") <= 1
  /\ \A i \in DOMAIN held : held[i].name \in credentials
  /\ phase = "down" => resources \subseteq credentials

\* An argument is always in force, and a file named on the command line hides
\* the environment and the files found, of which the first that parses counts
\* alone; validate refuses the result only where a layer gives port 0 or an empty
\* host (load_with_args, config.rs:156; validate, config.rs:236).
Layered(s, c) ==
  /\ \A f \in DOMAIN s.args : c[f] = s.args[f]
  /\ s.cli # <<>> => \A f \in DOMAIN c \ DOMAIN s.args : c[f] = s.cli[f]
  /\ s.cli = <<>> => \A f \in DOMAIN c \ (DOMAIN s.args \cup DOMAIN s.env) :
       \/ \E i \in DOMAIN s.files : /\ s.files[i] # Broken /\ c[f] = s.files[i][f]
                                    /\ \A j \in 1..(i - 1) : s.files[j] = Broken
       \/ c[f] = Default[f] /\ \A i \in DOMAIN s.files : s.files[i] = Broken
  /\ validate(c) \/ \E l \in {s.env, s.cli, s.args} \cup Range(s.files) :
       ("port" \in DOMAIN l /\ l.port = 0) \/ ("host" \in DOMAIN l /\ l.host = "")

\* The layers count as documented for every caller of load_with_args, and the
\* server starts with the layers below the command line, whose arguments never
\* reach its settings (AppConfig::load, config.rs:152; main.rs:203).
SettingsLayered ==
  /\ source.cli # Broken => Layered(source, load_with_args(source))
  /\ settings # Nothing => Layered(AsStarted(source), settings)
=============================================================================
