-------------------------- MODULE MCCalculations ---------------------------
(***************************************************************************)
(* The inputs of Calculations for TLC.                                     *)
(***************************************************************************)
EXTENDS Calculations, TLC

\* Files that mention a setting, or do not.
Mention(setting, values) == {<<>>} \cup {setting :> v : v \in values}

MCFiles ==
    {a @@ b @@ c @@ d @@ e @@ f @@ g :
        a \in Mention("period", {0, 100, 600}),
        b \in Mention("min_period", {0}),
        c \in Mention("snapshot_interval", {0}),
        d \in Mention("windows", {<<>>, <<500>>, <<500, 500>>, <<900, 500>>}),
        e \in Mention("quantiles", {<<>>, <<{}>>, <<{0}>>, <<{100}>>, <<{50}, {99}>>}),
        f \in Mention("max_series", {0}),
        g \in Mention("perod", {100})}

\* Environments; {} is a period that is no duration.
MCOverrides ==
    {<<>>, ("HIRES_LISTEN" :> "0.0.0.0:9918") @@ ("HIRES_PROCFS_ROOT" :> "/tmp")}
        \cup {"HIRES_SAMPLING_PERIOD" :> p : p \in {{}, {0}, {100}, {600}}}

\* Names that are prefixes of each other in every way the kernel has.
MCDisks ==
    {<<"sd", "a">>, <<"sd", "a", "a">>, <<"sd", "a", "p">>, <<"dm-", "1">>,
     <<"dm-", "1", "0">>, <<"dm-", "2">>, <<"nvme", "0", "n", "1">>, <<"loop", "0">>}

MCNumbers == {<<"1">>, <<"1", "0">>}

MCTallies == UNION {[S -> 1..3] : S \in (SUBSET {1, 2, 4}) \ {{}}}

MCPercents == {1, 25, 50, 90, 99}

MCFamilyOrder == <<"hires_io_queue_depth", "hires_io_util_percent", "hires_pgmajfault_per_sec">>

\* The kernel's names have no such characters; but a new collector needs no
\* change of the exposition (collector/mod.rs:10), and its labels may have them.
MCValueOrder == <<<<Newline>>, <<Quote, Backslash>>, <<Backslash, "n">>, <<"sda">>>>

Of(device) == <<[name |-> "device", value |-> device]>>

MCMetricKeys ==
    {[family |-> "hires_pgmajfault_per_sec", labels |-> <<>>],
     [family |-> "hires_io_util_percent", labels |-> Of(<<"sda">>)]}
        \cup {[family |-> "hires_io_queue_depth", labels |-> Of(v)] :
                  v \in {<<Newline>>, <<Quote, Backslash>>, <<Backslash, "n">>}}

\* Half a second apart, within one.
MCWindows == {1000, 1500}

\* validate lets a quantile be named twice.
MCQuantiles == {<<50>>, <<50, 99>>, <<50, 50>>}

MCSwitches ==
    {<<>>,
     ("psi" :> FALSE) @@ ("softnet" :> FALSE) @@ ("run_queue" :> FALSE),
     "disk" :> Flag(FALSE),
     ("disk" :> Detailed("enabled" :> FALSE)) @@ ("cpu" :> FALSE)}
=============================================================================
