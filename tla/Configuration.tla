--------------------------- MODULE Configuration ---------------------------
(***************************************************************************)
(* Config::load of src/config.rs: defaults, file, environment, validation. *)
(*                                                                         *)
(* A configuration is a function from settings to values; sections are     *)
(* left out.  A file is a function too, from what it mentions, so that an  *)
(* unknown setting is one that has no default.  Durations are in           *)
(* milliseconds; a quantile is a set with a whole number of percents, or   *)
(* with none, which is NaN.                                                *)
(***************************************************************************)
EXTENDS Integers, Sequences, SequencesExt

\* serde(default): what a section does not mention has its default.
Completed(mentioned, defaults) ==
    [s \in DOMAIN mentioned \cup DOMAIN defaults |->
        IF s \in DOMAIN mentioned THEN mentioned[s] ELSE defaults[s]]

\* DiskCollectorOptions::default
DiskOptions ==
    [enabled |-> TRUE, include |-> {}, exclude |-> {}, aggregate_all |-> TRUE,
     max_devices |-> 64]

\* `disk = false`, and [collectors.disk] with what is mentioned in it.
Flag(enabled) == [kind |-> "Flag", enabled |-> enabled]
Detailed(mentioned) == [kind |-> "Detailed", options |-> Completed(mentioned, DiskOptions)]

DiskEnabled(disk) == IF disk.kind = "Flag" THEN disk.enabled ELSE disk.options.enabled

SamplingDefaults == [period |-> 200, min_period |-> 50, snapshot_interval |-> 1000]

AggregationDefaults ==
    [windows |-> <<10000, 60000>>, quantiles |-> <<{50}, {90}, {95}, {99}>>,
     max_series |-> 5000]

CollectorsDefaults ==
    [cpu |-> TRUE, disk |-> Detailed(<<>>), psi |-> TRUE, run_queue |-> TRUE,
     softnet |-> TRUE, vmstat |-> TRUE]

\* Its sections have no setting in common.
Defaults ==
    Completed(Completed([listen |-> "127.0.0.1:9918", procfs_root |-> "/proc"], SamplingDefaults),
              Completed(AggregationDefaults, CollectorsDefaults))

\* What the flags say of each collector, for build_collectors.
Enabled(config) ==
    [name \in DOMAIN CollectorsDefaults |->
        IF name = "disk" THEN DiskEnabled(config.disk) ELSE config[name]]

\* An Option: the empty set is the error that ends main() with exit code 2.
\* No path; a file that cannot be read; or one that is read, and parsed unless
\* it says something unknown (or is no TOML, which comes to the same).
Parsed(path) ==
    CASE path.kind = "none"       -> {Defaults}
      [] path.kind = "unreadable" -> {}
      [] path.kind = "file"       ->
            IF DOMAIN path.file \subseteq DOMAIN Defaults THEN {Completed(path.file, Defaults)} ELSE {}

\* apply_env_overrides: env has the variables that are set.  The one for the
\* period is an Option, empty if it cannot be parsed.
Overridden(config, env) ==
    LET Var(name, setting) == IF name \in DOMAIN env THEN env[name] ELSE config[setting]
        periods == IF "HIRES_SAMPLING_PERIOD" \in DOMAIN env
                   THEN env["HIRES_SAMPLING_PERIOD"] ELSE {config.period}
    IN  {[config EXCEPT !.listen = Var("HIRES_LISTEN", "listen"),
                        !.procfs_root = Var("HIRES_PROCFS_ROOT", "procfs_root"),
                        !.period = p] : p \in periods}

\* The aggregation section by itself, but for the length of its windows.
ValidAggregation(config) ==
    /\ config.windows # <<>> /\ IsInjective(config.windows)
    /\ config.quantiles # <<>>
    /\ \A i \in DOMAIN config.quantiles : \E q \in config.quantiles[i] : 0 < q /\ q < 100
    /\ config.max_series > 0

\* validate
Valid(config) ==
    /\ config.period >= config.min_period
    /\ config.period > 0
    /\ config.snapshot_interval > 0
    /\ ValidAggregation(config)
    /\ \A i \in DOMAIN config.windows : config.windows[i] > config.period

\* Seeded fault: what the file says is validated, and then overridden.
LoadValidatingFile(path, env) ==
    UNION {Overridden(config, env) : config \in {c \in Parsed(path) : Valid(c)}}

\* Config::load
Load(path, env) ==
    {config \in UNION {Overridden(c, env) : c \in Parsed(path)} : Valid(config)}
=============================================================================
