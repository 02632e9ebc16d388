---------------------------- MODULE Calculations ----------------------------
(***************************************************************************)
(* The pure functions of the exporter, each called with a bounded set of   *)
(* inputs: Config::load, the choice of block devices by name, the          *)
(* interpolated quantile, and the text of /metrics for a report and for    *)
(* the collectors of a configuration.                                      *)
(***************************************************************************)
EXTENDS Configuration, Exposition, DeviceNames, FiniteSets

CONSTANTS
    Files,      \* configuration files
    Overrides,  \* environments
    Disks,      \* names of disks
    Numbers,    \* numbers of partitions
    Tallies,    \* the values of a window
    Percents,   \* quantiles asked for
    MetricKeys, \* metric keys of a report
    Windows,    \* windows of a report
    Quantiles,  \* configured quantiles of a report
    Switches    \* files that enable some of the collectors

\* humantime, which parses the durations of a file and the one of the
\* environment, has none below zero; serde lets a setting have its own type only.
ASSUME SettingsAssumption ==
    /\ \A file \in Files :
          /\ "period" \in DOMAIN file => file.period \in Nat
          /\ "windows" \in DOMAIN file => file.windows \in Seq(Nat)
          /\ "quantiles" \in DOMAIN file => file.quantiles \in Seq(SUBSET Int)
    /\ \A env \in Overrides :
          "HIRES_SAMPLING_PERIOD" \in DOMAIN env => env["HIRES_SAMPLING_PERIOD"] \subseteq Nat

\* The kernel's names: a driver that counts its disks in letters never puts a
\* digit after one of them, and one that counts in digits nothing else.
ASSUME NamesAssumption ==
    /\ Disks \subseteq Seq(STRING) \ {<<>>}
    /\ Numbers \subseteq Seq(Digits) \ {<<>>}
    /\ \A disk, other \in Disks : IsStrictPrefix(other, disk) =>
          LET added == (Len(other) + 1)..Len(disk) IN
          \/ Last(other) \in Digits /\ \A i \in added : disk[i] \in Digits
          \/ \A i \in added : disk[i] \notin Digits

\* A window that has a quantile has values; NaN and the infinities are no values
\* of it.  validate() lets no quantile be 0 or 1.
ASSUME TalliesAssumption ==
    /\ \A tally \in Tallies :
          /\ DOMAIN tally # {} /\ DOMAIN tally \subseteq Int
          /\ IsFiniteSet(DOMAIN tally)
          /\ \A v \in DOMAIN tally : tally[v] \in Nat \ {0}
    /\ Percents \subseteq 1..99

\* The order of Ord for MetricKey knows the families and label values there are,
\* and they tell keys apart: no two metrics of a family differ in a label's name
\* only.
ASSUME ReportAssumption ==
    /\ IsFiniteSet(MetricKeys) /\ IsFiniteSet(Windows) /\ Windows \subseteq Int
    /\ DOMAIN FamilyOrder \subseteq Nat
    /\ Len(ValueOrder) \in Nat /\ DOMAIN ValueOrder = 1..Len(ValueOrder)
    /\ \A k \in MetricKeys :
          /\ \E i \in DOMAIN FamilyOrder : FamilyOrder[i] = k.family
          /\ k.labels # <<>> => \E i \in DOMAIN ValueOrder : ValueOrder[i] = k.labels[1].value
    /\ \A k, l \in MetricKeys :
          /\ k.family = l.family
          /\ k.labels = <<>> <=> l.labels = <<>>
          /\ k.labels # <<>> => k.labels[1].value = l.labels[1].value
          => k = l

VARIABLES
    call,       \* the function called, and its arguments
    result      \* what it has returned

callVars == <<call, result>>

None == [of |-> "none"]

NoCall == call = None /\ result = {}

Paths ==
    {[kind |-> "none"], [kind |-> "unreadable"]}
        \cup {[kind |-> "file", file |-> file] : file \in Files}

CallLoad(path, env) ==
    /\ call' = [of |-> "load", path |-> path, env |-> env]
    /\ result' = Load(path, env)

\* device_selected for every device of a listing, with some partitions of some
\* disks.
CallSelect(disks, partitions) ==
    LET parts  == {PartitionName(p[1], p[2]) : p \in partitions}
        listed == disks \cup parts
    IN  /\ call' = [of |-> "select", disks |-> disks, parts |-> parts]
        /\ result' = {d \in listed : SelectedByName(d, listed)}

CallQuantile(tally) ==
    /\ call' = [of |-> "quantile", tally |-> tally]
    /\ result' = [q \in Percents |-> InterpolatedQuantile(tally, q)]

\* A report has percentiles of 1 and 2, for keys that the collectors have.
CallRender(pairs, quantiles, file) ==
    \E config \in Load([kind |-> "file", file |-> file], <<>>) :
        LET collectors == BuildCollectors(Enabled(config))
            report == [p \in {kw \in pairs : kw[1].family \in Described(collectors)} |->
                          [value \in {1, 2} |-> 1]]
        IN  /\ call' = [of |-> "render", quantiles |-> quantiles, report |-> report]
            /\ result' = Render(Percentiles(report, quantiles), Described(collectors),
                                NewSelfMetrics(collectors),
                                [series |-> Cardinality({kw[1] : kw \in DOMAIN report}),
                                 points |-> 2 * Cardinality({kw[1] : kw \in DOMAIN report}),
                                 droppedSeries |-> 0])

Call ==
    \/ \E path \in Paths, env \in Overrides : CallLoad(path, env)
    \/ \E disks \in kSubset(2, Disks) : \E partitions \in SUBSET (disks \X Numbers) :
           CallSelect(disks, partitions)
    \/ \E tally \in Tallies : CallQuantile(tally)
    \/ \E pairs \in SUBSET (MetricKeys \X Windows), quantiles \in Quantiles, file \in Switches :
           CallRender(pairs, quantiles, file)

CallOrReturn ==
    \/ call.of = "none" /\ Call
    \/ call.of # "none" /\ call' = None /\ result' = {}

Calls == NoCall /\ [][CallOrReturn]_callVars
-----------------------------------------------------------------------------
\* A configuration that loads is one the other parts can work with, whether a
\* value is from the file, from the environment, or a default, and whatever the
\* mixture: the loop's periods are positive (tokio panics on zero) and the
\* guardrail holds, every window covers more than a period and has a label of
\* its own, and every quantile has its place in windows of up to 50 values.  The
\* defaults by themselves do load.
LoadedIsUsable ==
    call.of = "load" =>
      /\ call.path.kind = "none" /\ call.env = <<>> => result = {Defaults}
      /\ \A config \in result :
        /\ config.snapshot_interval > 0 /\ config.max_series > 0
        /\ config.period > 0 /\ config.period >= config.min_period
        /\ config.windows # <<>>
        /\ \A i \in DOMAIN config.windows : config.windows[i] - config.period > 0
        /\ \A i, j \in DOMAIN config.windows :
              DurationLabel(config.windows[i]) = DurationLabel(config.windows[j]) => i = j
        /\ \A i \in DOMAIN config.quantiles : \A len \in {1, 2, 50} :
              \E q \in config.quantiles[i] : Ceil(Rank(len, q)) \in 0..(len - 1)

\* Of the disks and partitions listed, no partition is sampled beside its disk,
\* which would count its I/O twice in __all__; and a disk with real I/O is left
\* out only when its name is that of another listed disk, which ends in a digit,
\* with a number after it: dm-10 beside dm-1, but never sdaa or sdap beside sda.
NamesTold ==
    call.of = "select" =>
        /\ result \cap call.parts = {}
        /\ \A disk \in call.disks \ result :
              \/ IsPseudoDevice(disk)
              \/ \E other \in call.disks \ {disk} :
                    /\ IsStrictPrefix(other, disk)
                    /\ Last(other) \in Digits
                    /\ \A i \in (Len(other) + 1)..Len(disk) : disk[i] \in Digits

\* A quantile q of n values lies between two of them that are neighbours when
\* sorted, at least q * (n - 1) rounded down, and one, being no greater, and as
\* many of the rest no less; and it grows with q.
QuantileSound ==
    call.of = "quantile" =>
        LET values == Values(call.tally)
            n == Cardinality(values)
        IN
        \A q \in Percents :
            /\ Cardinality({x \in values : x[1] * Grid <= result[q]})
                  > (q * (n - 1)) \div 100
            /\ Cardinality({x \in values : x[1] * Grid >= result[q]})
                  > ((100 - q) * (n - 1)) \div 100
            /\ \A p \in Percents : p <= q => result[p] <= result[q]

Samples(text) == {i \in DOMAIN text : text[i].kind = "sample"}

\* The lines of a metric stand together, and start with its HELP, if any, and
\* its TYPE, which it has once.
Grouped(text) ==
    \A metric \in {text[i].metric : i \in DOMAIN text} :
        LET lines == {i \in DOMAIN text : text[i].metric = metric}
            types == {i \in lines : text[i].kind = "TYPE"}
            helps == {i \in lines : text[i].kind = "HELP"}
        IN  /\ Max(lines) - Min(lines) + 1 = Cardinality(lines)
            /\ types = {Min(lines) + Cardinality(helps)}
            /\ helps \subseteq {Min(lines)}

\* Prometheus, which reads a quoted label value.
ReadBack(quoted) ==
    LET from[i \in 1..(Len(quoted) + 2)] ==
            CASE i > Len(quoted) -> <<>>
              [] i <= Len(quoted) /\ quoted[i] = Quote -> <<>>
              [] i < Len(quoted) /\ quoted[i] = Backslash ->
                    <<IF quoted[i + 1] = "n" THEN Newline ELSE quoted[i + 1]>> \o from[i + 2]
              [] OTHER -> <<quoted[i]>> \o from[i + 1]
    IN  from[1]

\* Any text of /metrics can be scraped: metrics are grouped under their headers,
\* no two lines are of one series unless the configuration names a quantile
\* twice, and each device is read back as itself.
WellFormed ==
    call.of = "render" =>
        /\ Grouped(result)
        /\ IsInjective(call.quantiles) =>
              Cardinality({<<result[i].metric, result[i].labels>> : i \in Samples(result)})
                  = Cardinality(Samples(result))
        /\ \A kw \in DOMAIN call.report : \A i \in DOMAIN kw[1].labels :
              ReadBack(Escape(kw[1].labels[i].value) \o <<Quote>>) = kw[1].labels[i].value
=============================================================================
