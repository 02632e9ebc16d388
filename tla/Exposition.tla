----------------------------- MODULE Exposition -----------------------------
(***************************************************************************)
(* From a report of the Aggregator to the text of /metrics: the order in   *)
(* which Aggregator::snapshot puts its percentiles, and render() of        *)
(* src/snapshot.rs.  A text is a sequence of lines; what a line says is    *)
(* kept, how it is laid out and the wording of help texts are not.         *)
(*                                                                         *)
(* A report has a Tally for each pair of a metric key and a window, as in  *)
(* the Aggregator module.  The label values of a key are sequences of      *)
(* characters, since render() escapes them.                                *)
(***************************************************************************)
EXTENDS Quantile, Collectors, Sequences, FiniteSets, SequencesExt

CONSTANTS
    FamilyOrder,  \* the metric families, in the order of their names
    ValueOrder    \* the label values, in their order

Place(order, x) == CHOOSE i \in DOMAIN order : order[i] = x

\* Ord of MetricKey: by family, then by labels; no collector uses more than one.
KeyRank(key) ==
    Place(FamilyOrder, key.family) * (Len(ValueOrder) + 1)
        + (IF key.labels = <<>> THEN 0 ELSE Place(ValueOrder, key.labels[1].value))

\* Seeded fault: the loop over the windows is outside the one over the keys.
ComesFirstByWindow(a, b) ==
    a[2] < b[2] \/ (a[2] = b[2] /\ KeyRank(a[1]) < KeyRank(b[1]))

\* snapshot() goes through the sorted keys, and for each through the windows.
ComesFirst(a, b) ==
    KeyRank(a[1]) < KeyRank(b[1]) \/ (a[1] = b[1] /\ a[2] < b[2])

\* The pairs of a report, in that order.
InOrder(report) ==
    [i \in 1..Cardinality(DOMAIN report) |->
        CHOOSE p \in DOMAIN report :
            Cardinality({o \in DOMAIN report : ComesFirst(o, p)}) = i - 1]

\* The percentiles of a report, in the order of snapshot().
Percentiles(report, quantiles) ==
    LET pairs == InOrder(report)
    IN  FlattenSeq([i \in DOMAIN pairs |-> [j \in DOMAIN quantiles |->
            [key |-> pairs[i][1], window |-> pairs[i][2], quantile |-> quantiles[j],
             value |-> InterpolatedQuantile(report[pairs[i]], quantiles[j])]]])

Backslash == "\\"
Quote == "\""
Newline == "\n"

\* str::replace
Replace(text, from, to) ==
    FlattenSeq([i \in DOMAIN text |-> IF text[i] = from THEN to ELSE <<text[i]>>])

\* Seeded fault: backslashes are replaced last.
EscapeBackslashLast(value) ==
    Replace(Replace(Replace(value, Quote, <<Backslash, Quote>>),
                    Newline, <<Backslash, "n">>),
            Backslash, <<Backslash, Backslash>>)

\* escape_label_value
Escape(value) ==
    Replace(Replace(Replace(value, Backslash, <<Backslash, Backslash>>),
                    Quote, <<Backslash, Quote>>),
            Newline, <<Backslash, "n">>)

\* Seeded fault: whole seconds.
DurationLabelInSeconds(ms) == [minutes |-> ms \div 60000, seconds |-> (ms \div 1000) % 60]

\* humantime::format_duration, up to an hour; 90500 is 1m 30s 500ms.
DurationLabel(ms) ==
    [minutes |-> ms \div 60000, seconds |-> (ms \div 1000) % 60, millis |-> ms % 1000]

Help(metric) == [kind |-> "HELP", metric |-> metric]
Type(metric, type) == [kind |-> "TYPE", metric |-> metric, type |-> type]
Line(metric, labels, value) ==
    [kind |-> "sample", metric |-> metric, labels |-> labels, value |-> value]

Metric(family) == family \o "_percentile"

LabelsOf(sample) ==
    [i \in DOMAIN sample.key.labels |->
        [name |-> sample.key.labels[i].name, value |-> Escape(sample.key.labels[i].value)]]
    \o <<[name |-> "window", value |-> DurationLabel(sample.window)],
         [name |-> "quantile", value |-> sample.quantile]>>

\* HELP, if a descriptor has one, and TYPE go before the first line of a family.
Header(family, described) ==
    (IF family \in described THEN <<Help(Metric(family))>> ELSE <<>>)
        \o <<Type(Metric(family), "gauge")>>

RenderPercentiles(samples, described) ==
    FlattenSeq([i \in DOMAIN samples |->
        LET family == samples[i].key.family IN
            (IF i > 1 /\ samples[i - 1].key.family = family
             THEN <<>> ELSE Header(family, described))
            \o <<Line(Metric(family), LabelsOf(samples[i]), samples[i].value)>>])

\* A metric that has a line for each collector of the map, by name.
PerCollector(metric, type, self, field) ==
    LET names == SelectSeq(Registered, LAMBDA n : n \in DOMAIN self)
    IN  <<Help(metric), Type(metric, type)>>
            \o [i \in DOMAIN names |->
                  Line(metric, <<[name |-> "collector", value |-> names[i]]>>,
                       self[names[i]][field])]

Gauge(metric, value) == <<Help(metric), Type(metric, "gauge"), Line(metric, <<>>, value)>>

\* render_self_metrics; the gauges of the loop and the version have no say here.
RenderSelfMetrics(self, stats) ==
    PerCollector("hires_exporter_samples_total", "counter", self, "samplesTotal")
    \o PerCollector("hires_exporter_collect_errors_total", "counter", self, "errorsTotal")
    \o PerCollector("hires_exporter_collector_enabled", "gauge", self, "enabled")
    \o Gauge("hires_exporter_sample_loop_duration_seconds", 0)
    \o Gauge("hires_exporter_sample_loop_lag_seconds", 0)
    \o Gauge("hires_exporter_effective_sample_interval_seconds", 0)
    \o Gauge("hires_exporter_window_series", stats.series)
    \o Gauge("hires_exporter_window_points", stats.points)
    \o Gauge("hires_exporter_dropped_series_total", stats.droppedSeries)
    \o Gauge("hires_exporter_build_info", 1)

Render(samples, described, self, stats) ==
    RenderPercentiles(samples, described) \o RenderSelfMetrics(self, stats)
=============================================================================
