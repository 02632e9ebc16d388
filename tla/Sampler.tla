------------------------------ MODULE Sampler ------------------------------
(***************************************************************************)
(* Sampler::sample_once of src/sampler.rs: one pass polls the enabled      *)
(* collectors in order and hands the samples of the pass to the            *)
(* aggregator.  A collector succeeds, fails, or finds out that its source  *)
(* does not exist and is disabled; whatever it has written to the shared   *)
(* buffer before it failed is cut off again.                               *)
(*                                                                         *)
(* A pass is a sequence of steps, one per collector, so that what the loop *)
(* has done so far can be stated.  The buffer holds, for each sample, the  *)
(* collector it came from; keys and values are left to Aggregator.         *)
(* publish_snapshot runs on the same task, between passes; of what it      *)
(* renders only the counters are kept here.                                *)
(***************************************************************************)
EXTENDS Integers, Sequences, FiniteSets

CONSTANTS
    N,          \* how many collectors were built, in polling order 1..N
    MaxYield,   \* bound: samples one collect() call writes
    MaxPasses   \* bound: sampling passes

ASSUME BoundsAssumption == N \in Nat /\ MaxYield \in Nat /\ MaxPasses \in Nat

Collectors == 1..N

VARIABLES
    cursor,        \* the collector to be polled next; 0 between passes
    samples,       \* the buffer of the pass: the collector of each sample
    enabled,       \* ManagedCollector::enabled
    consecutive,   \* ManagedCollector::consecutive_errors
    enabledGauge,  \* CollectorMetrics::enabled
    samplesTotal,  \* CollectorMetrics::samples_total
    errorsTotal,   \* CollectorMetrics::errors_total
    passes,        \* passes begun
    exposed,       \* the counters in the latest snapshot
    delivered,     \* history: samples of each collector given to the aggregator
    due,           \* history: the collectors enabled when the pass began
    polled         \* history: the collectors polled in the pass

vars == <<cursor, samples, enabled, consecutive, enabledGauge, samplesTotal,
          errorsTotal, passes, exposed, delivered, due, polled>>

\* The samples of the buffer that came from collector c.
From(buffer, c) == {i \in DOMAIN buffer : buffer[i] = c}

\* The buffer after collector c has written n samples to it.
Written(c, n) == samples \o [i \in 1..n |-> c]

\* Seeded fault: nothing is cut off.
TruncateNothing(buffer, before) == buffer

\* Vec::truncate to the length the buffer had before the call.
Truncate(buffer, before) == SubSeq(buffer, 1, before)

\* How many samples a call has added to the buffer.
Yielded(after, before) == Len(after) - Len(before)

Init ==
    /\ cursor = 0
    /\ samples = <<>>
    /\ enabled = [c \in Collectors |-> TRUE]
    /\ consecutive = [c \in Collectors |-> 0]
    /\ enabledGauge = [c \in Collectors |-> 1]
    /\ samplesTotal = [c \in Collectors |-> 0]
    /\ errorsTotal = [c \in Collectors |-> 0]
    /\ passes = 0
    /\ exposed = [samples   |-> [c \in Collectors |-> 0],
                  errors    |-> [c \in Collectors |-> 0],
                  enabled   |-> [c \in Collectors |-> 1],
                  delivered |-> [c \in Collectors |-> 0]]
    /\ delivered = [c \in Collectors |-> 0]
    /\ due = {}
    /\ polled = {}

BeginPass ==
    /\ cursor = 0
    /\ passes < MaxPasses
    /\ cursor' = 1
    /\ samples' = <<>>
    /\ passes' = passes + 1
    /\ due' = {c \in Collectors : enabled[c]}
    /\ polled' = {}
    /\ UNCHANGED <<enabled, consecutive, enabledGauge, samplesTotal, errorsTotal,
                   exposed, delivered>>

\* Seeded fault: the flag is not looked at.
DueAnyway == cursor \in Collectors

\* The collector at the cursor is to be polled.
Due == cursor \in Collectors /\ enabled[cursor]

\* Seeded fault: the first collector ends the pass.
AdvanceToEnd == cursor' = N + 1

Advance == cursor' = cursor + 1

\* A disabled collector is passed over.
Skip ==
    /\ cursor \in Collectors
    /\ ~ enabled[cursor]
    /\ Advance
    /\ UNCHANGED <<samples, enabled, consecutive, enabledGauge, samplesTotal,
                   errorsTotal, passes, exposed, delivered, due, polled>>

\* collect() returns Ok after writing n samples.
PollOk(n) ==
    /\ Due
    /\ samples' = Written(cursor, n)
    /\ consecutive' = [consecutive EXCEPT ![cursor] = 0]
    /\ samplesTotal' = [samplesTotal EXCEPT ![cursor] = @ + Yielded(samples', samples)]
    /\ Advance
    /\ polled' = polled \cup {cursor}
    /\ UNCHANGED <<enabled, enabledGauge, errorsTotal, passes, exposed, delivered, due>>

\* Seeded fault: the gauge is not told.
PollUnavailableSilent(n) ==
    /\ Due
    /\ enabled' = [enabled EXCEPT ![cursor] = FALSE]
    /\ samples' = Truncate(Written(cursor, n), Len(samples))
    /\ Advance
    /\ polled' = polled \cup {cursor}
    /\ UNCHANGED <<consecutive, enabledGauge, samplesTotal, errorsTotal, passes,
                   exposed, delivered, due>>

\* collect() returns Unavailable after writing n samples.
PollUnavailable(n) ==
    /\ Due
    /\ enabled' = [enabled EXCEPT ![cursor] = FALSE]
    /\ enabledGauge' = [enabledGauge EXCEPT ![cursor] = 0]
    /\ samples' = Truncate(Written(cursor, n), Len(samples))
    /\ Advance
    /\ polled' = polled \cup {cursor}
    /\ UNCHANGED <<consecutive, samplesTotal, errorsTotal, passes, exposed, delivered, due>>

\* collect() returns any other error after writing n samples.
PollError(n) ==
    /\ Due
    /\ errorsTotal' = [errorsTotal EXCEPT ![cursor] = @ + 1]
    /\ consecutive' = [consecutive EXCEPT ![cursor] = @ + 1]
    /\ samples' = Truncate(Written(cursor, n), Len(samples))
    /\ Advance
    /\ polled' = polled \cup {cursor}
    /\ UNCHANGED <<enabled, enabledGauge, samplesTotal, passes, exposed, delivered, due>>

\* aggregator.insert takes the buffer.
Deliver ==
    /\ cursor = N + 1
    /\ delivered' = [c \in Collectors |-> delivered[c] + Cardinality(From(samples, c))]
    /\ samples' = <<>>
    /\ cursor' = 0
    /\ UNCHANGED <<enabled, consecutive, enabledGauge, samplesTotal, errorsTotal,
                   passes, exposed, due, polled>>

\* Seeded fault: the run of errors is rendered for their total.
CountersOfRun == [samples |-> samplesTotal, errors |-> consecutive,
                  enabled |-> enabledGauge, delivered |-> delivered]

\* publish_snapshot renders the self-metrics, beside the percentiles of the
\* samples delivered so far.
Counters == [samples |-> samplesTotal, errors |-> errorsTotal,
             enabled |-> enabledGauge, delivered |-> delivered]

\* Seeded fault: a snapshot may be rendered in the middle of a pass.
PublishAnytime ==
    /\ exposed' = Counters
    /\ UNCHANGED <<cursor, samples, enabled, consecutive, enabledGauge, samplesTotal,
                   errorsTotal, passes, delivered, due, polled>>

Publish ==
    /\ cursor = 0
    /\ exposed' = Counters
    /\ UNCHANGED <<cursor, samples, enabled, consecutive, enabledGauge, samplesTotal,
                   errorsTotal, passes, delivered, due, polled>>

Poll == \E n \in 0..MaxYield : PollOk(n) \/ PollUnavailable(n) \/ PollError(n)

Next == BeginPass \/ Skip \/ Poll \/ Deliver \/ Publish

Spec == Init /\ [][Next]_vars
-----------------------------------------------------------------------------
TypeOK ==
    /\ cursor \in 0..(N + 1)
    /\ samples \in Seq(Collectors)
    /\ enabled \in [Collectors -> BOOLEAN]
    /\ consecutive \in [Collectors -> Nat]
    /\ enabledGauge \in [Collectors -> {0, 1}]
    /\ samplesTotal \in [Collectors -> Nat]
    /\ errorsTotal \in [Collectors -> Nat]
    /\ passes \in Nat
    /\ exposed \in [samples : [Collectors -> Nat], errors : [Collectors -> Nat],
                   enabled : [Collectors -> {0, 1}], delivered : [Collectors -> Nat]]
    /\ delivered \in [Collectors -> Nat]
    /\ due \in SUBSET Collectors
    /\ polled \in SUBSET Collectors

\* samples_total of a collector counts exactly the samples of it that have
\* reached the aggregator or are about to: a call that fails half way leaves
\* nothing behind, neither of its own samples nor a hole in those of others.
Conservation ==
    \A c \in Collectors :
        samplesTotal[c] = delivered[c] + Cardinality(From(samples, c))

\* Failures are isolated (DESIGN.md:386): when the pass delivers, every collector
\* that was enabled at its start has been polled, whatever happened to the
\* others, and no disabled one has.
Isolation == polled = {c \in due : c < cursor \/ cursor = 0}

\* The counters a scrape shows agree with each other: the gauge is what the loop
\* goes by, and a run of consecutive errors has been counted in full.
CountersAgree ==
    \A c \in Collectors :
        /\ enabledGauge[c] = 1 <=> enabled[c]
        /\ consecutive[c] <= errorsTotal[c]

\* A snapshot never shows a collector's samples_total ahead of or behind the
\* points its percentiles are computed from: publishing never falls into a pass.
SnapshotConsistent == exposed.samples = exposed.delivered

\* From one snapshot to the next the counters never fall and a disabled
\* collector never comes back: what rate() over a scraped counter relies on.
SnapshotsMonotone ==
    [][\A c \in Collectors :
          /\ exposed'.samples[c] >= exposed.samples[c]
          /\ exposed'.errors[c] >= exposed.errors[c]
          /\ exposed'.enabled[c] <= exposed.enabled[c]]_vars

\* Once disabled, a collector is never polled or counted again.
DisabledStaysOut ==
    [][\A c \in Collectors : ~ enabled[c] =>
          /\ ~ enabled'[c]
          /\ UNCHANGED <<samplesTotal[c], errorsTotal[c], consecutive[c]>>
          /\ c \in polled' => c \in polled]_vars
=============================================================================
