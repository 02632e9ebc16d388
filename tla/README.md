# A verification development for hi-res-exporter

hi-res-exporter is a Prometheus exporter that samples `/proc` several times a
second and exposes percentiles of the samples over rolling windows, so that
load bursts stay visible at ordinary scrape intervals. The modules in this
directory model its core in TLA+. TLC checks them on small instances, and
TLAPS proves the most important results for every instance.

Source references are relative to the repository: `sampler.rs:105` is line 105
of `src/sampler.rs` there, `psi.rs` is `src/collector/psi.rs`, and so on.

Contents: [1 the system](#1-the-system), [2 the modules](#2-the-modules),
[3 what the runs show](#3-what-the-runs-show),
[4 where code and documents differ](#4-where-code-and-documents-differ),
[5 what is proved](#5-what-is-proved), [6 what is not modelled](#6-what-is-not-modelled),
[7 plan](#7-plan), [8 how to run it](#8-how-to-run-it).

## 1. The system

One process, two tasks on a multi-threaded tokio runtime. The **sampler task**
owns all collectors and the aggregator. The **server task** answers HTTP
requests. They share two things: the `SnapshotStore`, which holds the latest
rendered text and a ready flag, and the `SelfMetrics`, atomics that only the
sampler writes and only `render` reads, also on the sampler's task.

```
 /proc --read--> collectors --samples--> Aggregator --percentiles--> render
                    |  (sample_once, every sampling.period)            |
                    +--> SelfMetrics (counters, gauges) ------------> publish
                                                                       |
        Prometheus --GET /metrics--> axum handlers <--load-- SnapshotStore
```

| Component | State | Operations | What is hard | What makes it correct |
|---|---|---|---|---|
| Aggregator (`aggregate.rs`) | per key a deque of stamped values; number of dropped samples | `insert(now, samples)`, `snapshot(now)` | eviction, only on insertion, and a binary search must agree about what is in each of several windows; a cap that is final; `checked_sub` just after boot | a report is that of an aggregator that forgets nothing |
| Snapshot store and handlers (`snapshot.rs`, `server.rs`) | an `ArcSwap` with the text, an atomic flag | `publish`, `/metrics`, `/readyz`, `/healthz` | two atomic stores against loads on other threads, with release and acquire | ready implies content; no client sees time go back |
| Sampling pass (`sampler.rs`) | per collector: enabled, run of errors, counters | `sample_once`, `publish_snapshot` | a collector may fail after writing half of its samples to the shared buffer; disabling is for good | failures are isolated; counters agree with what was delivered |
| Sampling loop (`sampler.rs`) | two tokio intervals; `last_tick`; three gauges | `run` | passes longer than their period, preemption, both branches of `select!` ready | no bursts, no delay the gauges hide, no starving of snapshots |
| Rate tracker (`collector/mod.rs`) | previous value and time | `update` | first reading, resets, two readings in one instant | a delta is reported once |
| PSI collector (`psi.rs`) | two rate trackers for each of three files | `collect` | files are read one by one while totals grow; an error in the second file wastes what was read from the first; samples bear the time before the first read | nothing twice; what is lost is lost to a failure |
| CPU collector (`cpu.rs`) | previous CPU times, two rate trackers | `collect` | iowait may fall; two reads in one jiffy | shares add up; nothing lost or reported twice |
| Disk collector (`disk.rs`) | a baseline per device | `collect` | devices vanish and return, with new counters and perhaps another's name; `max_devices` leaves some out; the file is read later than the instant of the pass | baselines never mix two devices; nothing twice |
| Softnet and run-queue collectors (`softnet.rs`, `run_queue.rs`) | three rate trackers; a CPU count read once | `collect` | CPUs that go on and off line, counters that wrap | nothing lost, but for the interval a disturbance falls into; nothing invented, but for what a CPU that comes back brings with it |
| vmstat collector (`vmstat.rs`) | one rate tracker | `collect` | a restart loses the baseline | a fault is reported once, by whichever life |
| Device names (`disk.rs`) | none | `is_partition_of_listed`, `is_pseudo_device` | names are only names: `sda`, `sdaa`, `sda1`, `dm-1`, `dm-10`, `nvme0n1p1` | no partition beside its disk, and few disks taken for partitions |
| Quantile (`aggregate.rs`) | none | `interpolated_quantile` | rounding, the ends of the slice | a quantile has its share of the values on either side |
| Exposition (`snapshot.rs`) | none | `render`, `escape_label_value` | headers once per family depend on the order another module sorts in; three replacements one after the other | any text can be scraped |
| Configuration (`config.rs`) | none | `Config::load`: defaults, file, environment, `validate` | limits that compare settings from different sources | what loads is what the other parts can work with |
| Collector registration (`collector/mod.rs`) | the list of collectors | `build_collectors`, descriptors | headers, metrics and collectors are listed separately | as of the exposition |
| Process (`main.rs`, `hi-res-exporter.service`) | two task handles | start, bind, exit codes; the supervisor's restart | either task may end at any point, and the process die; the supervisor acts on some ways to end and not on others | the exporter comes back; counters make sense across lives |

What can go wrong in each, at its line, is listed under `hazards` in
`PROJECT.json` with the property that would catch it.

Concurrency is narrow by design: inside the sampler task there is none, since
`sample_once` and `publish_snapshot` have no await. What interleaves is the
sampler with the kernel that counts on between its reads, with the clock, with
the scheduler that may preempt it, and with handlers and their clients.

## 2. The modules

| Module | Models | Extends / uses |
|---|---|---|
| `ExactWindow` | `ExactWindow::{insert, evict_before, percentiles}`: one deque of stamped values | |
| `Aggregator` | `Aggregator::{new, insert, snapshot}` | `ExactWindow` |
| `RollingLog` | the abstract specification: a log that never forgets, scanned for every report | `ExactWindow` |
| `SnapshotStore` | `publish`, `latest`, `is_ready`, the handlers, and clients | |
| `Sampler` | `sample_once` collector by collector, `publish_snapshot` | |
| `SamplingLoop` | `run`, with tokio's intervals and the timing gauges | |
| `RateTracker` | `RateTracker::update` | |
| `PsiCollector` | `PsiCollector::collect` with the kernel between reads | `RateTracker` |
| `CpuCollector` | `CpuCollector::collect` | `RateTracker` |
| `DiskCollector` | `DiskCollector::collect` over changing devices | |
| `HotplugCollectors` | `SoftnetCollector::collect` and `RunQueueCollector::collect` while CPUs come and go | `RateTracker` |
| `Exporter` | `main`, its supervisor, `VmstatCollector::collect`, a scraper | `RateTracker` |
| `Quantile` | `interpolated_quantile` over a tally of values, taken as a set of occurrences | |
| `DeviceNames` | `is_partition_of_listed`, `is_pseudo_device`, selection by name | |
| `Collectors` | `build_collectors`, the families each collector describes, `SelfMetrics::new` | |
| `Exposition` | the order of `snapshot`, `render`, `escape_label_value` | `Quantile`, `Collectors` |
| `Configuration` | `Config::load` | |
| `Calculations` | a caller of the five modules above, and what their results promise | `Configuration`, `Exposition`, `DeviceNames` |
| `MCAggregator`, `MCSnapshotStore`, `MCDiskCollector`, `MCCalculations` | values of constants and symmetry sets for TLC; the first three are instances of state machines, of which `MCDiskCollector` takes its devices from `DeviceNames` | |
| `AggregatorProofs`, `SnapshotStoreProofs`, `SamplerProofs`, `PsiCollectorProofs`, `CpuCollectorProofs`, `DiskCollectorProofs`, `HotplugCollectorsProofs`, `ExporterProofs` | theorems about the module of that name; `SamplerProofs` also about `SamplingLoop`, and `ExporterProofs` about `Calculations` | `TLAPS` |

Operators marked *Seeded fault* beside a definition are that definition with a
plausible bug in it. They are not part of any specification; putting one in the
place of its neighbour must make TLC find the property violated that
`PROJECT.json` names under `mutants`. They show that each property depends on
the code it is about.

Conventions: a variable marked *history* records what has happened, for a
property to speak about; no action reads one in its guard. An absent `Option`
is the empty set where there is at most one element. A constant marked *bound*
only limits the instance TLC explores.

**Aggregator.** `insert` is a loop over the samples of a pass; `Begin` takes
the batch and its stamp, and `Occupied`, `Vacant` or `Full` handles one sample
each, as the `Entry` match does. A report is the multiset of values of each
window, since percentiles are a function of it (`Quantile` is that function,
and `Exposition` applies it). `snapshot` leaves out windows with no point and
windows that reach below `MinInstant`, where `Instant::checked_sub` returns `None`: on Linux that
is far in the past, on platforms whose `Instant` starts at boot it is close.
The run has a platform of the second kind, whose later passes are like all of
the first kind's; the proof covers both. `Begin` requires the clock to have moved since the last pass,
which a nanosecond clock does.

**SnapshotStore.** The second store of `publish` is a release, the load of
`is_ready` an acquire, and those of `ArcSwap` are at least that. Memory is
modelled with views: each store to a location is a numbered message, a load may
return any message not older than the reader's view, and an acquire load adds
the view that the writer released. The handlers of different requests share no
order except through their client, so a request starts from what its client had
seen when it sent it. Two requests of one client, one of each kind, may be in
flight together.

**Sampler.** The buffer of a pass holds, for each sample, which collector it
came from. A call writes any number of samples up to a bound and then returns
`Ok`, `Unavailable` or another error. Actions are one turn of the `for` loop
each. `exposed` keeps the counters of the latest snapshot and, as history, how
many points had been delivered when it was rendered.

**SamplingLoop.** Times are relative to now, so that the loop runs for ever in
finitely many states. `NextDue` is tokio's `Interval` with `Skip`: a tick not
more than 5 ms late (`Tolerance`) is followed by the next one a period on, a
missed one by the first multiple of the period that is still to come.
`SampleTick` sets the next deadline and `StartPass` reads `Instant::now()`, as
two steps, since the task may lose its processor in between. `Forgiven` is a
bound and stands for no code: it keeps the lateness of the snapshot interval
finite without changing what `NextDue` makes of it, because only its remainder
matters.

**Collectors.** Each `collect` runs against a kernel that counts on. What is in
the files is reduced to the counters the code uses. A sample is kept as the
pair it is the quotient of, so that sums of samples can be compared with what
the kernel counted: `first`, `reported` and `work` are there for that. `run` takes the instant of a pass once (`sampler.rs:153`), and every collector
reads later than that. PSI reads three files in three steps with time in
between, and the disk collector takes its turn after others: `Begin` takes the
instant, and `Collect` reads the file after the kernel has gone on, so that a
device can have been busy for longer than the samples' time. The CPU, softnet
and vmstat collectors are modelled as reading at their instant. None of their properties
compares what was counted with the time it took, and the instants of two passes
differ, so that for them a later read is only a later step of the kernel. Each
of these reads what it needs before it touches any state, and from there a call is
one step. Errors end a call; `Missing` is the error that disables a collector.
PSI's `Abandon` includes the truncation `sample_once` does (`sampler.rs:105`,
`sampler.rs:115`), because what was read from earlier files is lost by it.
`HotplugCollectors` puts the two collectors that see CPUs come and go beside
each other, since they share that kernel; the three softnet counters are read,
summed and tracked alike, so one stands for all. Its history `counted` is the
set of CPUs in the tracker's last reading, so that what a CPU brings with it when
it comes back can be told from what has arrived; the CPU collector's `taken` is
how much iowait the kernel has taken back since the baseline.

**Exporter.** What the process knows is one record, `memory`, and `Gone` sets it
back to `Fresh`, whichever way the process ends: `LoadFails` (exit code 2),
`BindFails` (1), `Crash` (1 when the sampler ends, or a signal such as SIGKILL),
`Return` (0, on SIGINT or at the end of the server task), `Terminate` (SIGTERM or
SIGHUP, which `main` does not handle). `Restart` is systemd's `Restart=on-failure`
(`hi-res-exporter.service:10`), which acts on the first three: it takes exit code 0
for success, and a death of SIGTERM, SIGHUP or SIGINT too. The kernel's counter, the configuration file, the port and the
scraper's memory outlive the process. The collector is vmstat's, whose whole
state is one rate tracker, so that the composition stays small; a pass is one
step, since nothing else in the process can see into it, and a publish is one
step, since `SnapshotStore` shows what becomes of its two stores. The scraper
adds up `samples_total` by the rule of Prometheus' `increase()`: a counter that
has fallen was reset. Three components are seen working together: a collector
that loses its baseline, a counter that loses its value, and a text that is
empty until the first snapshot of the new life.

**Calculations.** The remaining parts compute and keep nothing, so they are
operators: `Load`, `SelectedByName`, `InterpolatedQuantile`, `Render`. Each step
of `Calculations` calls one of them with inputs from a bounded set and keeps the
result, about which the invariants speak. A configuration is a function from
settings to values, an unset one being absent; the environment is another. A
quantile in a configuration is the set of its whole number of percents, which is
empty for NaN: NaN fails every comparison, as the empty set has no member to
pass one. A device name is a sequence of symbols, the driver's prefix being
one of them. A text is a sequence of lines, and a line a record of what it says.
`Rank` keeps `q * (len - 1)` to an eighth (`Grid`), rounded to the nearest, which
stands for the rounding of `f64`: it may land on a whole number it should miss,
and may not leave the slice.

## 3. What the runs show

| Run | Instance | Checks |
|---|---|---|
| `Aggregator` | three keys for two series, windows 1 and 3, batches of two, five instants, earliest instant 0 | `ImplementsRollingLog`: whatever the interleaving of passes, snapshots and time, each report is that of the log that never forgets, also while the long window reaches before the earliest instant. `KeepsItsWindow`: a series holds exactly the points that its latest one still has in the longest window, also after it has fallen silent. `CapIsFinal`: the cap is exact, a key turned away never gets in, and each shows in the counter |
| `SnapshotStore` | two clients, two publishes | `ReadyMeansContent`: a client told ready that then asks never gets the empty text. `NeverBackwards`: no client sees an older body, or 503 after 200 |
| `Sampler` | two collectors, up to two samples a call, three passes | `Conservation`, `Isolation`, `CountersAgree`, `SnapshotConsistent`, `SnapshotsMonotone`, `DisabledStaysOut` |
| `SamplingLoop` | period 2, interval 3, tolerance 1, steps of up to 2, lateness up to 5 | `LagAccountsForDelay`: an interval exceeds the period by no more than the lag shown. `NoBurst`: four passes in a row take longer than a period. `NoOverlap`. `SnapshotsGoOn` under fairness |
| `PsiCollector` | two files, one with a `full` line, reads up to 1 after the stamp, four instants | `NothingTwice`, `NothingLost` (except where a call failed, a share was clamped, or two passes shared an instant), `SkewBounded`: `min(100.0)` hides at most the time between stamp and read |
| `CpuCollector` | two jiffies a mode, three instants | `SharesAddUp`: shares exceed their total by no more than the iowait taken back since the baseline. `NothingLost` for jiffies until iowait falls and for switches always; `NothingTwice` even then |
| `DiskChurn` | `dm-1` and `dm-10` in any order, `max_devices` 1, three instants, reads as late as those allow | `NothingTwice`. `NothingLost`, but for devices unplugged and for queue time between two readings stamped with one instant. `UtilBounded`: what `min(100.0)` hides is no more than the time between stamp and read, also when devices are exchanged under a name. `NoBridge`: a device that a pass saw gone starts afresh |
| `HotplugCollectors` | two CPUs, counters that wrap at 4, five instants | `NothingInvented`: neither a CPU that leaves nor a counter that wraps makes a burst, and one that comes back none beyond its own count. `NothingLost`: between two undisturbed good reads of the same CPUs every packet shows, whatever was disturbed before |
| `Exporter` | four units of time, any number of deaths of either kind, edits of the file, takers of the port and failing reads | `Accounted`: the faults reported by all lives and those that fell between lives add up to the latest reading. `IncreaseSound`: a scraper's increase of `samples_total` never exceeds the samples emitted. `Recovers`: once configuration and port are in order and stay so and nothing kills the process any more, the exporter serves a snapshot again and again, unless it has ended in a way that the supervisor takes for success |
| `Calculations` | 1920 files with 6 environments; 2 of 8 disks with partitions 1 and 10; tallies of up to three different values, nine in all; reports of up to 5 series in 2 windows | `LoadedIsUsable`: what loads has positive periods above the guardrail, windows longer than a period and with labels of their own, quantiles with a place in any slice. `NamesTold`: no partition is sampled beside its disk, and a disk is left out only for a disk that ends in a digit and that its name continues with a number. `QuantileSound`: each quantile has its share of the values at or below it and at or above it, and grows with `q`. `WellFormed`: headers once and first, families contiguous, no line twice, labels read back as they were |

Two more runs find a violation each; they are in section 4. The runs of the
collectors check `TypeOK` too. That of `Aggregator`, `SnapshotStore`, `Sampler`,
`SamplingLoop` and `Exporter` is a theorem only.

*Why the bounds are enough.* The aggregator's horizon lets a point enter, age
through both windows and be evicted, with passes before, at and after each
boundary; all samples there have one value, so that a report is a count of
points, and the proof of the refinement has neither this limit nor any other. In the store, two publishes
give every client an old and a new body and the flag's first and second store,
and two clients a pair that knows different things; the theorems need no bound.
The sampler's three passes let a collector fail, recover and vanish while the
other does the same in any order; its safety is proved too. In the loop a
lateness of 5 with a period of 2 means two missed ticks and more, which is when
`Burst` and `Skip` differ for four passes, and steps of 2 are a permanent
overload. For PSI, four instants hold two complete calls and a failing one
with time passing between any two reads. For disks, three instants hold a first
reading, an absence (seen by a pass or not), a return with new counters, and a
reading after it, each at its stamp or later; two devices suffice for one to hide the other's name and for
`max_devices` to leave one out. Five instants and counters of two bits let a
softnet counter wrap around while the other CPU is off line, and both be read
before and after. In the exporter only time is bounded: lives are not, and four
instants after the first are enough for two lives that each report faults, with
faults between them and scrapes in each. The inputs of the calculations take every outcome of every condition in
the code they are for: names that are prefixes of each other with a letter, a
digit, a `p` and a `p` with a digit between; settings at, below and above each limit
they are compared with, from either source; windows that differ by less than a
second; characters that escaping changes, alone and after each other. The
text of `/metrics` (`WellFormed`) and the two liveness properties rest on their
bounds; all the safety of the other parts is proved without one.

*Fairness.* `SamplingLoop` assumes that time passes, that a step the task
has begun ends, and strong fairness of the two ticks: `select!` polls its
branches in random order, so that a branch which is ready time and again is
taken at last although the other may be ready each time too. Weak fairness
would not do, since a ready branch is not enabled while the task is busy; and
with `biased` polling the property fails under permanent overload, as the
seeded fault `SnapshotTickLast` shows. `Exporter` assumes that `main` goes on
(it loads the configuration or fails to, binds or fails to), that systemd
restarts what has failed, and that snapshots go on, which `SamplingLoop` shows.
Restarts are five seconds apart (`hi-res-exporter.service:11`), which systemd's
default limit of five starts in ten seconds never reaches. Nothing is assumed of
the file, the port, deaths or scrapes in the specification. What `Recovers` needs of
them it says itself: that the file and the port are in order from some time on,
that `Crash` does not happen for ever (`<>[][~ Crash]_vars`; a process that is
killed before each first snapshot never comes back, and TLC shows it if the
assumption is left out), and that the process has not ended in a way that is
taken for success. The other modules claim no liveness.

`PsiCollector` runs with deadlock checking off: once its call has been told
that a file does not exist, the sampler never calls it again. With every other
run TLC checks for deadlock.

## 4. Where code and documents differ

Each of these is a run that TLC must find violated.

* **`CpuPercent`.** A share is the growth of a mode over the growth of the
  total (`cpu.rs:157`). When iowait falls between two reads the total grows less than a
  mode does, and the share exceeds 100. DESIGN.md:301 says "percent (`0..100`)".
* **`RunQueueStale`.** CPUs are counted in the first call (`run_queue.rs:71`)
  and never again; the help text says "Instantaneous runnable tasks divided by
  online CPU count." (`run_queue.rs:16`).

More is worth knowing, though no run is spent on it.

* *Dropped series.* `insert` adds one to `dropped_series` for each *sample* of a
  key the cap keeps out (`aggregate.rs:150`), pass after pass; the help text says
  "Series rejected due to the max_series cap." (`snapshot.rs:227`). One rejected
  series sampled at 200 ms adds 300 a minute. `CapIsFinal` has what is true: the
  counter is an upper bound.
* *Softnet bursts.* The sum over the rows of `/proc/net/softnet_stat`
  (`softnet.rs:50`) is over the CPUs on line. One that comes back brings the
  packets of its lifetime, and they are reported as packets of that interval;
  `NothingInvented` bounds them by that.
* *Hidden disks.* The comment on `is_partition_of_listed` (`disk.rs:58`) speaks of
  partitions, but `dm-10` is taken for one of `dm-1` while both are listed;
  `NamesTold` says for which disks this happens.
* *Include and exclude.* A list of devices to include decides alone
  (`disk.rs:95`), although exclude is said to be "applied after `include`"
  (`config.rs:174`): a device that is in both is sampled.
* *Duplicate quantiles.* `validate` refuses a window named twice and accepts a
  quantile named twice (`config.rs:269`); the text then has every series twice.
  `WellFormed` makes an exception of it.
* *Clean exits.* If the server task ends by a panic, `main` returns
  (`main.rs:96`) and the supervisor takes it for success. So it does when the
  process dies of SIGTERM or SIGHUP, which `main` leaves to their default
  (`main.rs:89` handles SIGINT only). The exporter then stays down, and
  `Recovers` excepts it.
* *Silent series.* Eviction happens on insertion into the same series only
  (`aggregate.rs:143`): points of a series that no longer gets samples stay in
  memory and count in `hires_exporter_window_points`, although reports leave them
  out. `KeepsItsWindow` bounds them by one window.
* *Baselines.* `max_devices` ends the loop of one pass (`disk.rs:128`), while
  baselines of devices tracked before stay as long as those are listed: plug in
  `dm-10`, then `dm-1`, and both have a baseline under a cap of one.

## 5. What is proved

All theorems are checked by TLAPS to the last leaf, and hold for every value of
the constants that satisfies the named assumptions in the module that declares
them. These assumptions are typing (bounds and periods are naturals, the set of
keys is finite), that `MaxWindow` is the longest window, that `MinInstant` is
not after the start, and that periods are not zero, which `validate` refuses
(`config.rs:245`). `Calculations` has four of its own, about its inputs, which are
given below.

**`AggregatorProofs`.** On points in time order the `pop_front` loop removes
exactly those before the cutoff, and the binary search splits at it. Both are
lemmas about `Leading` and `PartitionPoint`, which are not recursive. From them
follow `TypeOK`, `KeepsItsWindow`, `CapIsFinal`, and
`Refinement`: `Spec => Abstract!Spec`. The invariant must say what is *not* in
memory any more: `SeriesInv` relates each series to its log, of which it is a
suffix, all of whose missing points, and no others, are older than the longest
window before the latest point; the log is in time order. That is what
`KeepsItsWindow` says of a series. With that a snapshot's binary search
over the suffix and the abstract scan over the log count the same points,
because a window never reaches back beyond what eviction has left. `Tallied` says
that a report has nothing about a window with no points, which is the `debug_assert`
at `aggregate.rs:73`, and what the theorem about quantiles assumes.

**`SnapshotStoreProofs`.** `TypeOK`, `ReadyMeansContent` and `NeverBackwards`,
for any number of clients and snapshots. The two properties speak of answers;
the invariant speaks of views: in every view that a thread can have (`Sound`)
the flag is not ahead of the text, and what answers have told a client is
covered by its view (`Covered`). The order of the two stores and the release on
the flag are what makes the writer's view sound.

**`SamplerProofs`.** `TypeOK` and all six safety properties of the run, for any
number of collectors and samples. `Conservation` and `CountersAgree` are nearly
inductive. `Isolation` needs `DueInv` (the collectors still to be polled in this
pass are enabled exactly if they were when it began), and `SnapshotsMonotone`
needs `ExposedInv` (what a snapshot shows is not ahead of the counters).
Truncation is a lemma about the number of samples of one collector in a buffer
to which another has been appended.

Its second half is about `SamplingLoop`: `LoopTypeOK`, `LagAccountsForDelay`,
`NoOverlap`, and `NoBurst` under the further hypothesis that a period is longer than tokio's
tolerance of 5 ms. (The default `min_period` is 50 ms, `config.rs:85`, but it
may be configured to less; with a period of at most 5 ms tokio makes up for ticks that
are a little late.) `NoBurst` speaks of three intervals; the invariant `Spread`
says that a deadline is at least a period after the one before, and comes after
the start of the pass before the last.

**`PsiCollectorProofs`.** `TypeOK`, `NothingTwice`, `NothingLost` and
`SkewBounded`, for any number of files. `NothingTwice` speaks of the kernel's
counter, which says nothing of the next sample: a call may fail after some files,
and their trackers have moved on. The invariant says it of the tracker instead
(`ClaimedBelow`: a series never claims more than its baseline has gone up since
the first reading), and that the counter is ahead of the baseline by no more than
the time since (`Ahead`), from which `SkewBounded` follows.

**`CpuCollectorProofs`.** `TypeOK`, `NothingLost`, `NothingTwice` and
`SharesAddUp`. The lemmas are about one call: what `Shares` gives of any two
readings (`SharesExact`, `SharesBelow`, `SharesTogether`), where each mode may
have fallen or not. The invariant supplies which: only iowait falls, and by what
`taken` says since the baseline. It also says that switches rise only as time
passes, without which a rate that is refused for zero elapsed time would lose some.

**`HotplugCollectorsProofs`.** `TypeOK`, `NothingInvented` and `NothingLost`, for
any CPUs and any modulus. A sum of counters is the number of packets counted,
so that the theorems on finite sets apply (`SumMonotone`, `SumUnion`,
`SumAfter`). The invariant `AheadOfReading` speaks of the CPUs the latest
reading added up, off line or not: their sum is ahead of the reading by no more than
what has arrived, and by exactly that while they are the ones on line and none of
them has gone or wrapped.

**`DiskCollectorProofs`.** `TypeOK`, `NothingTwice`, `NothingLost`,
`UtilBounded` and `NoBridge`, for any devices, selections and `max_devices`. A
baseline may be of another device of the same name, so the invariant speaks of the
name: what was reported and what the counter is ahead of the baseline, if it is,
are no more than the work done (`WorkSince`), and it is ahead by no more busy time
than has passed since the stamp of the baseline (`BusySince`), which is the time
elapsed and the delay of the read. A device that was not unplugged is still listed
and its counters are not behind (`Steady`), which makes `NothingLost` exact.

**`ExporterProofs`.** `TypeOK`, `Accounted` and `IncreaseSound`, for any number
of lives. What a scraper computes next depends on whether it has scraped this life
before. If it has (`Continues`), the increase so far and what this life has
emitted since that scrape are within the samples emitted; if not (`StartsOver`),
the increase and all of this life are. A crash turns the first into the
second, and the second is also what holds when a scrape of the new life shows
more than the last one of the old, and the reset goes unseen.

Its second half is about `Calculations`: `QuantileSound`, `LoadedIsUsable`,
`NamesTold`, and the part of `WellFormed` that needs no induction. There the invariant (`Answered`) only says that what has been called has
returned what the function says; the work is in the lemmas about the functions.

* *Quantiles*, for any finite window of integers that is not empty, and whole
  percentages from 1 to 99 (`TalliesAssumption`). `Places` and `RankPlaces` bound the
  two places in the slice by the exact rank, whichever way rounding to an eighth goes.
  `SortedFacts` says how many values are no greater than, and how many are below, what
  stands at a place. Values are counted as elements of a set, so that the facts about
  finite sets do the counting (`Complement`). That there is such a value is
  no induction over the window: a least element of a finite set of integers is one
  whose set of lesser ones is minimal under inclusion, which is well founded
  (`Least`). `QuantileGrows` compares two quantiles by their places.
* *Configuration*, for any files and environments in which a setting, if it is there,
  has its own type (`SettingsAssumption`). `ParsedTyped` and `OverriddenTyped` follow
  the types of the settings that matter from the file and the environment into what
  is validated; `LabelInjective` is about the mixed radix of a duration's label.
* *Names*, for any disks and partitions (`NamesAssumption`): the names of one driver
  go on in letters or, after a digit, in digits. It is what the kernel does, and the
  code relies on it: with a disk called `sda1` beside `sda`, nothing could tell which
  one is a partition. `PartitionTold` shows that a partition is always told, and
  `TakenForPartition` that a disk is taken for one only beside a disk whose name it
  continues, also when the device it was compared with is a partition of that disk.
* *Order of a report*, for any metric keys that their families and label values tell
  apart (`ReportAssumption`) and any windows. `ComesFirst` is a strict total order, so
  the number of pairs before a pair is its place, and there are as many places as
  pairs (`PairsInOrder`, by counting again). `FamiliesTogetherAlways` follows: what is
  between two pairs of a family, or of a series, is of that family or series. `render`
  relies on it when it writes headers whenever the family changes.

**Model-checked only.** Liveness (`SnapshotsGoOn`, `Recovers`), which
TLAPS cannot prove under fairness, and `WellFormed`: `Render` puts its text together
with folds over sequences of any length, and `ReadBack` reads it by recursion, so that
what they give for every input is induction over data, which is out of the prover's
reach. The modules have no `RECURSIVE` operators, which tlapm could not work with:
`Leading`, `Tracked` and `Below` count instead of looping.

## 6. What is not modelled

* Text: parsing of `/proc` files, of TOML and of durations, number formats, the
  wording of help texts, logging. A file of `/proc` is its counters; an unparsable
  one is an error. `parse_args` (`main.rs:28`) and `parse_field`
  (`collector/mod.rs:189`) are of this kind.
* Floating point, but for the rounding of a rank. A sample is the pair it is the
  quotient of.
* Widths, except for softnet's: the other counters of the kernel have 64 bits
  and do not overflow in practice.
* `/healthz` has no state. `update_delta` of `RateTracker` computes the same
  pair as `update` and has no caller.
* HTTP below the handlers, tokio's scheduler beyond what `SamplingLoop` needs of
  it, and the packaging.

## 7. Plan

Done: every component of section 1, one module per component or two; theorems
for every safety property of the runs but `WellFormed`.

Next: `parse_args`, if the process is ever modelled from its command line on. What is
left of `WellFormed`, the layout of the text and the escaping, waits for a prover
that can do induction over sequences.

## 8. How to run it

`tlc -config X.cfg M` for each run in `PROJECT.json`; `tlapm M.tla` for each
module ending in `Proofs`. The longest run (`DiskChurn`) takes about two minutes on
two cores; all proofs together take a few minutes.
