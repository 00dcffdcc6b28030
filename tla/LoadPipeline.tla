---------------------------- MODULE LoadPipeline ----------------------------
(***************************************************************************)
(* Loading a library: the pipeline of abi/src/lifecycle.rs over the        *)
(* platform loaders (loaders.rs), its symbol registry (symbols.rs) and its *)
(* ABI check (abi_compat.rs), and the loader the server uses               *)
(* (abi_loader.rs), with the state it carries from a plugin to the next.   *)
(***************************************************************************)
EXTENDS Integers, Sequences, SequencesExt, FiniteSets

CONSTANTS Binaries,    \* files: [format, fault, abi, symbols, names]
          Configs,     \* [platform, version, strict, enforce, max_memory, max_time]
          Strategies,  \* [max_retries, skip, rollback, default]
          Names, Types,  \* of symbols
          MaxTime,     \* bound: milliseconds of a stage
          MaxCalls     \* bound: registrations, and serialisations

VARIABLES binary, config,
          stages,     \* [stage, success, ms]
          outcome,    \* "running", or what load returned: [stage, type, recoverable, total]
          expected,   \* name -> [type, optional], or NoSymbol
          symbols,    \* name -> [type, required, resolved], or NoSymbol
          required_count, resolved_count,
          twice,      \* history: a name was expected twice
          extra,      \* history: a symbol was counted that is not required, or again
          held,       \* states the plugin has made and not been told to free
          kept        \* history: those of them that nothing frees: [free, status]

load_vars   == <<binary, config, stages, outcome>>
symbol_vars == <<expected, symbols, required_count, resolved_count, twice, extra>>
state_vars  == <<held, kept>>
vars == <<load_vars, symbol_vars, state_vars>>

Null == ""
Junk == -1
NoSymbol == [type |-> Null]
Running == [stage |-> "none", type |-> "running", recoverable |-> FALSE, total |-> 0]

Init == /\ binary \in Binaries /\ config \in Configs /\ stages = <<>> /\ outcome = Running
        /\ expected = [n \in Names |-> NoSymbol] /\ symbols = [n \in Names |-> NoSymbol]
        /\ required_count = 0 /\ resolved_count = 0 /\ twice = FALSE /\ extra = FALSE
        /\ held = 0 /\ kept = <<>>

-----------------------------------------------------------------------------
\* Three loaders, one for each format of binaries, take the same steps: the file
\* exists, it can be opened, its magic numbers, the library, plugin_get_info and
\* its answer.
LoaderFault(b, valid) ==
  IF b.fault \notin {"absent", "unreadable"} /\ ~valid THEN "magic" ELSE b.fault
LinuxLoader(b) == LoaderFault(b, b.format = "ELF")
MacOsLoader(b) == LoaderFault(b, b.format \in {"Mach-O", "fat Mach-O"})
\* The program's header must point to the signature of a PE as well.
WindowsLoader(b) == LoaderFault(b, b.format = "PE")
CrossPlatformLoader(platform, b) ==
  CASE platform = "linux" -> LinuxLoader(b) [] platform = "macos" -> MacOsLoader(b) [] platform = "windows" -> WindowsLoader(b)
Fault == CrossPlatformLoader(config.platform, binary)

ErrorType(fault) == CASE fault = "absent" -> "BinaryNotFound"
                      [] fault \in {"magic", "null_info"} -> "BinaryValidationFailed"
                      [] fault \in {"unreadable", "unloadable", "no_get_info"} -> "Internal"

\* The library's own text, or 2.0 if there is none.
abi_version(b) == IF b.abi = <<>> THEN <<2, 0>> ELSE b.abi

\* Lists of names, without those that are null.
extract_capabilities(b) == SelectSeq(b.names, LAMBDA n : n # Null)

\* Only three numbers are a version; anything else counts as 2.0.0.
Parses(v) == Len(v) = 3 /\ Junk \notin Range(v)
parse(v) == IF Parses(v) THEN v ELSE <<2, 0, 0>>

Older(v, w) == \E i \in 1..3 : v[i] < w[i] /\ \A j \in 1..(i - 1) : v[j] = w[j]
is_satisfied(constraint, v, w) ==
  CASE constraint = "Exact" -> v = w
    [] constraint = "SameMajor" -> v[1] = w[1]
    [] constraint = "SameMinor" -> v[1] = w[1] /\ v[2] = w[2]
    [] constraint = "Any" -> TRUE
\* The pipeline sets no upper limit and keeps the default constraint.
is_compatible_with(plugin, loader) == ~Older(loader, <<2, 0, 0>>) /\ is_satisfied("SameMajor", plugin, loader)

-----------------------------------------------------------------------------
Stage(s, success, ms) == stages' = Append(stages, [stage |-> s, success |-> success, ms |-> ms])
Fail(s, type, recoverable) == outcome' = [stage |-> s, type |-> type, recoverable |-> recoverable, total |-> 0]
Spent(ss) == FoldSeq(LAMBDA s, n : s.ms + n, 0, ss)

LoadBinary(ms) == /\ outcome = Running /\ stages = <<>>
                  /\ Stage("BinaryLoad", Fault = "none", ms)
                  /\ IF Fault = "none" THEN UNCHANGED outcome
                     ELSE Fail("BinaryLoad", ErrorType(Fault), FALSE)
                  /\ UNCHANGED <<binary, config, symbol_vars, state_vars>>

\* Expected symbols are registered and none is looked up.
ResolveSymbols(ms) == /\ outcome = Running /\ Len(stages) = 1
                      /\ Stage("SymbolResolution", TRUE, ms)
                      /\ UNCHANGED <<binary, config, outcome, symbol_vars, state_vars>>

CheckAbi(ms, rest) ==
  /\ outcome = Running /\ Len(stages) = 2
  /\ LET fits == is_compatible_with(parse(abi_version(binary)), config.version) \/ ~config.strict
     IN  /\ Stage("AbiCompatibility", fits, ms)
         /\ IF fits THEN outcome' = [stage |-> "none", type |-> "loaded", recoverable |-> FALSE,
                                     total |-> Spent(stages') + rest]
            ELSE Fail("AbiCompatibility", "AbiCompatibilityFailed", TRUE)
  /\ UNCHANGED <<binary, config, symbol_vars, state_vars>>

\* all_symbols of a registry in which nothing was resolved.
symbol_count == 0
AtLeast(n, low) == IF n < low THEN low ELSE n
peak_memory_kb(count) == AtLeast((count * 16) \div 1024, 64)
from_result == [total |-> outcome.total, peak |-> peak_memory_kb(symbol_count),
                slowest |-> LET ms == {s.ms : s \in Range(stages)} IN CHOOSE m \in ms : \A n \in ms : n <= m]

validate_against_limits ==
  /\ config.enforce /\ config.max_memory > 0 => from_result.peak <= config.max_memory
  /\ config.max_time > 0 => outcome.total <= config.max_time

-----------------------------------------------------------------------------
Stages == {"BinaryLoad", "SymbolResolution", "AbiCompatibility", "Initialization", "StateTransfer", "Unloading"}
is_stage_optional(s) == s \in {"SymbolResolution", "AbiCompatibility"}
is_critical_stage(s) == s \in {"BinaryLoad", "Initialization"}

determine_recovery_action(stage, recoverable, strategy, retry_count) ==
  IF ~recoverable THEN "Abort"
  ELSE IF retry_count >= strategy.max_retries
    THEN IF strategy.skip /\ is_stage_optional(stage) THEN "Skip" ELSE "Abort"
  ELSE IF strategy.rollback /\ is_critical_stage(stage) /\ retry_count > 0 THEN "Rollback"
  ELSE strategy.default

perform_rollback(stage) == stage # "Unloading"

\* Twice as long each time, ten times at most; the jitter is below a quarter.
exponential(retry_count, base) == base * 2 ^ (IF retry_count < 10 THEN retry_count ELSE 10)
calculate_backoff_delay(retry_count, base, seed) ==
  LET e == exponential(retry_count, base) IN e + (seed % AtLeast(e \div 4, 1))

-----------------------------------------------------------------------------
Calls == Cardinality({n \in Names : expected[n] # NoSymbol}) + required_count + resolved_count

register_expected(n, sig) ==
  /\ Calls < MaxCalls
  /\ expected' = [expected EXCEPT ![n] = sig]
  /\ required_count' = required_count + (IF sig.optional THEN 0 ELSE 1)
  /\ twice' = (twice \/ expected[n] # NoSymbol)
  /\ UNCHANGED <<load_vars, symbols, resolved_count, extra, state_vars>>

\* validate compares names, return types and parameters: here one type.
Accepted(n, s) == IF expected[n] # NoSymbol THEN expected[n].type = s.type ELSE ~s.required

register_resolved(n, s) ==
  /\ Accepted(n, s) /\ resolved_count < MaxCalls
  /\ symbols' = [symbols EXCEPT ![n] = s]
  /\ resolved_count' = resolved_count + (IF s.resolved THEN 1 ELSE 0)
  /\ extra' = (extra \/ symbols[n] # NoSymbol \/ expected[n] = NoSymbol \/ expected[n].optional)
  /\ UNCHANGED <<load_vars, expected, required_count, twice, state_vars>>

is_complete == resolved_count >= required_count
Required == {n \in Names : expected[n] # NoSymbol /\ ~expected[n].optional}
unresolved_symbols == {n \in Required : symbols[n] = NoSymbol \/ ~symbols[n].resolved}
missing_symbols == {n \in Required : symbols[n] = NoSymbol}

-----------------------------------------------------------------------------
\* The server's loader.
AbiSupported(v) == v \in {<<1>>, <<1, 0>>, <<2>>, <<2, 0>>}
v2_load(b) == /\ CrossPlatformLoader(config.platform, b) \in {"none", "no_get_info"} /\ b.abi # <<>> /\ AbiSupported(b.abi)
              /\ {"plugin_get_info_v2", "plugin_init_v2", "plugin_shutdown_v2", "plugin_handle_request_v2"}
                   \subseteq b.symbols
Has(f) == f \in binary.symbols
handle_event(result) == IF Has("plugin_handle_event_v2") THEN result ELSE "MissingRequiredSymbol"
check_health(result) == IF Has("plugin_health_check_v2") THEN result ELSE "Unknown"
get_metrics(result) == IF Has("plugin_get_metrics_v2") THEN result ELSE Null

\* The state is copied and given back; after a failure, or without a function
\* for it, it is not.
serialize_state(status, data) ==
  /\ v2_load(binary) /\ Has("plugin_serialize_state_v2") /\ Len(kept) < MaxCalls
  /\ LET frees == status = "Success" /\ Has("plugin_free_state_v2")
     IN  /\ held' = held + (IF frees THEN 0 ELSE 1)
         /\ kept' = IF frees THEN kept ELSE Append(kept, status)
  /\ UNCHANGED <<load_vars, symbol_vars>>
SerializedData(status, data) == IF status = "Success" THEN data ELSE Null
\* Version and checksum of the state are not passed on.
deserialize_state(result) == IF Has("plugin_deserialize_state_v2") THEN result ELSE "Success"

-----------------------------------------------------------------------------
Pipeline == \E ms \in 0..MaxTime : \/ LoadBinary(ms) \/ ResolveSymbols(ms)
                                   \/ \E rest \in 0..1 : CheckAbi(ms, rest)
Symbols == \E n \in Names, t \in Types, b, r \in BOOLEAN :
             \/ register_expected(n, [type |-> t, optional |-> b])
             \/ register_resolved(n, [type |-> t, required |-> b, resolved |-> r])
States == \E status \in {"Success", "Error"}, data \in {Null, "data"} : serialize_state(status, data)
Next == Pipeline \/ Symbols \/ States

Spec == Init /\ [][Next]_vars

-----------------------------------------------------------------------------
\* The pipeline loads exactly the libraries without a fault that its ABI check
\* takes, which are all that the server's loader takes, ABI 1 included, and no
\* library on two platforms; no stage
\* lasts longer than the whole, and the limit on memory is either always or
\* never met.  What it returns is never rolled back; every retry ends, only
\* optional stages are skipped, and the delays never shrink until the cap
\* (load, lifecycle.rs:868; determine_recovery_action, lifecycle.rs:745;
\* calculate_backoff_delay, lifecycle.rs:712; AbiVersion::parse, abi_loader.rs:74).
LoadsExact ==
  /\ outcome # Running =>
       (outcome.type = "loaded" <=>
          Fault = "none" /\ (config.strict => is_compatible_with(parse(abi_version(binary)), config.version)))
  /\ Cardinality({p \in {"linux", "macos", "windows"} : CrossPlatformLoader(p, binary) = "none"}) <= 1
  /\ outcome.type = "AbiCompatibilityFailed" => ~AbiSupported(binary.abi) \/ config.version[1] # 2
  /\ outcome.type = "loaded" =>
       /\ from_result.slowest <= outcome.total /\ \A s \in Range(stages) : s.success
       /\ config.max_time = 0 => (validate_against_limits <=> config.enforce => config.max_memory \notin 1..63)
  /\ \A s \in Strategies, r \in 0..4 :
       LET act(stage) == determine_recovery_action(stage, TRUE, s, r)
       IN  /\ outcome.type \notin {"running", "loaded"} =>
                determine_recovery_action(outcome.stage, outcome.recoverable, s, r) # "Rollback"
           /\ r >= s.max_retries => \A stage \in Stages : act(stage) \in {"Skip", "Abort"}
           /\ \A stage \in Stages : act(stage) = "Skip" /\ s.default # "Skip" => ~is_critical_stage(stage)
           /\ \A stage \in Stages : act(stage) = "Rollback" => perform_rollback(stage)
  /\ stages = <<>> => \A r \in 0..11, base \in 0..5, x, y \in {0, 7, 1023} :
       /\ r < 10 => calculate_backoff_delay(r, base, x) <= calculate_backoff_delay(r + 1, base, y)
       /\ calculate_backoff_delay(r, base, x) <= base * 1280

\* The count says that all required symbols are resolved exactly when they are,
\* as long as every name is expected once and resolved once and only required
\* ones are counted; symbols counted beyond that can only make it say so too
\* early, never too late (SymbolRegistry::is_complete, symbols.rs:284).
SymbolsExact ==
  /\ missing_symbols \subseteq unresolved_symbols
  /\ ~twice /\ unresolved_symbols = {} => is_complete
  /\ ~twice /\ ~extra => (is_complete <=> unresolved_symbols = {})

\* With a function to free it, a state is kept by the plugin only after a
\* failure (serialize_state, abi_loader.rs:590).
StateReturned ==
  /\ held = Len(kept)
  /\ Has("plugin_free_state_v2") => \A i \in DOMAIN kept : kept[i] # "Success"
=============================================================================
