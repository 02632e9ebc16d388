--------------------------- MODULE DiskCollector ---------------------------
(***************************************************************************)
(* DiskCollector of src/collector/disk.rs: per-device queue depth and      *)
(* utilization from one read of /proc/diskstats per pass, over devices     *)
(* that come and go.  A baseline is kept for every device that has been    *)
(* tracked and is still listed.                                            *)
(*                                                                         *)
(* A call is given the instant at which its pass began.  It reads the file *)
(* later, after the collectors before it, while devices come and go and    *)
(* the kernel counts on.                                                   *)
(*                                                                         *)
(* Names matter to the code in two ways, which are parameters here: which  *)
(* devices are pseudo-devices, and which pairs of names look like a        *)
(* partition and its base.  A sample is kept as the deltas and the elapsed *)
(* time its two values are the quotients of.                               *)
(***************************************************************************)
EXTENDS Integers, Sequences, FiniteSets, Functions, SequencesExt

CONSTANTS
    Devices,       \* names of block devices
    Include,       \* options.include
    Exclude,       \* options.exclude
    Pseudo,        \* is_pseudo_device: loop, ram, zram, fd and sr devices
    NameExtends,   \* the pairs <<name, base>> is_partition_of_listed looks for
    AggregateAll,  \* options.aggregate_all
    MaxDevices,    \* options.max_devices
    Horizon        \* bound: the last instant of the clock

ASSUME DiskAssumption ==
    /\ {Include, Exclude, Pseudo} \subseteq SUBSET Devices
    /\ NameExtends \subseteq Devices \X Devices
    /\ AggregateAll \in BOOLEAN
    /\ MaxDevices \in Nat /\ Horizon \in Nat

VARIABLES
    clock,        \* the monotonic clock
    now,          \* the instant the current or latest call was given
    reading,      \* a pass has begun whose call has not read the file yet
    listed,       \* kernel: the devices of /proc/diskstats, in order
    counters,     \* kernel: the two counters of each device
    prev,         \* prev: the baselines
    out,          \* the per-device samples of the latest call
    aggregate,    \* the devices summed up in its __all__ sample; {} if none
    work,         \* history: weighted I/O time since a device's first reading
    reported,     \* history: weighted I/O time reported so far
    spoiled,      \* history: devices unplugged after their first reading, or with
                  \* queue time between two readings stamped with one instant
    missed        \* history: devices a call found gone since their last reading

vars == <<clock, now, reading, listed, counters, prev, out, aggregate, work, reported,
          spoiled, missed>>

Fresh == [weighted |-> 0, busy |-> 0]

\* device_selected: an include list decides alone.
Selected(d, names) ==
    IF Include # {}
    THEN d \in Include
    ELSE /\ d \notin Exclude
         /\ d \notin Pseudo
         /\ \A base \in names : <<d, base>> \notin NameExtends

\* The devices the loop gets to: it stops at the first selected device beyond
\* max_devices.
Tracked ==
    LET chosen == {i \in DOMAIN listed : Selected(listed[i], Range(listed))}
        tracked(i) == Cardinality({j \in chosen : j <= i})
    IN  {listed[i] : i \in {j \in chosen : tracked(j) <= MaxDevices}}

\* Seeded fault: counter resets are not looked for.
ComparableAlways(d) == d \in DOMAIN prev /\ now > prev[d].at

\* A device has something to compare its counters with: it was read before, time
\* has passed, and neither counter was reset.
Comparable(d) ==
    /\ d \in DOMAIN prev
    /\ now > prev[d].at
    /\ counters[d].weighted >= prev[d].weighted
    /\ counters[d].busy >= prev[d].busy

Sample(d) ==
    [device  |-> d,
     depth   |-> counters[d].weighted - prev[d].weighted,
     util    |-> counters[d].busy - prev[d].busy,
     elapsed |-> now - prev[d].at]

\* What a tracked device's line says now.
Latest(d) == [weighted |-> counters[d].weighted, busy |-> counters[d].busy, at |-> now]

\* Seeded fault: a baseline is never replaced.
BaselinesKept ==
    [d \in (DOMAIN prev \cup Tracked) \cap Range(listed) |->
        IF d \in DOMAIN prev THEN prev[d] ELSE Latest(d)]

\* Seeded fault: of an existing baseline only the time is replaced.
BaselinesStamped ==
    [d \in (DOMAIN prev \cup Tracked) \cap Range(listed) |->
        IF d \in DOMAIN prev THEN [prev[d] EXCEPT !.at = now] ELSE Latest(d)]

\* Seeded fault: a listed device that was not tracked this time loses its baseline.
BaselinesOfTracked == [d \in Tracked |-> Latest(d)]

\* Seeded fault: devices that are gone keep their baselines.
BaselinesForever ==
    [d \in DOMAIN prev \cup Tracked |->
        IF d \in Tracked THEN Latest(d) ELSE prev[d]]

\* The baselines the call leaves behind: the new readings, and the old ones of
\* devices that are listed still.
Baselines ==
    [d \in (DOMAIN prev \cup Tracked) \cap Range(listed) |->
        IF d \in Tracked THEN Latest(d) ELSE prev[d]]

Init ==
    /\ clock = 0
    /\ now = 0
    /\ reading = FALSE
    /\ listed = <<>>
    /\ counters = [d \in Devices |-> Fresh]
    /\ prev = <<>>
    /\ out = {}
    /\ aggregate = {}
    /\ work = <<>>
    /\ reported = [d \in Devices |-> 0]
    /\ spoiled = {}
    /\ missed = {}

\* Kernel: a unit of time, for which the devices D have k requests in flight.
Serve(D, k) ==
    /\ clock < Horizon
    /\ clock' = clock + 1
    /\ counters' = [d \in Devices |->
                      IF d \in D
                      THEN [weighted |-> counters[d].weighted + k, busy |-> counters[d].busy + 1]
                      ELSE counters[d]]
    /\ work' = [d \in DOMAIN work |-> work[d] + (IF d \in D THEN k ELSE 0)]
    /\ UNCHANGED <<now, reading, listed, prev, out, aggregate, reported, spoiled, missed>>

\* Kernel: a device is registered, at the end of the list, with new counters.
Plug(d) ==
    /\ d \notin Range(listed)
    /\ listed' = Append(listed, d)
    /\ UNCHANGED <<clock, now, reading, counters, prev, out, aggregate, work, reported,
                   spoiled, missed>>

\* Kernel: a device is gone, and its counters with it.
Unplug(d) ==
    /\ \E i \in DOMAIN listed : listed[i] = d /\ listed' = RemoveAt(listed, i)
    /\ counters' = [counters EXCEPT ![d] = Fresh]
    /\ spoiled' = spoiled \cup ({d} \cap DOMAIN work)
    /\ UNCHANGED <<clock, now, reading, prev, out, aggregate, work, reported, missed>>

\* Sampler::run takes the instant that the call will be given.
Begin ==
    /\ ~ reading
    /\ reading' = TRUE
    /\ now' = clock
    /\ out' = {}
    /\ aggregate' = {}
    /\ UNCHANGED <<clock, listed, counters, prev, work, reported, spoiled, missed>>

\* collect() with a /proc/diskstats that can be read and parsed.
Collect ==
    /\ reading
    /\ reading' = FALSE
    /\ out' = {Sample(d) : d \in {e \in Tracked : Comparable(e)}}
    /\ aggregate' = IF AggregateAll THEN {x.device : x \in out'} ELSE {}
    /\ prev' = Baselines
    /\ work' = [d \in DOMAIN work \cup Tracked |-> IF d \in DOMAIN work THEN work[d] ELSE 0]
    /\ reported' = [d \in Devices |->
                      IF \E x \in out' : x.device = d
                      THEN reported[d] + (CHOOSE x \in out' : x.device = d).depth
                      ELSE reported[d]]
    /\ spoiled' = spoiled \cup {d \in Tracked \cap DOMAIN prev :
                                  /\ now = prev[d].at
                                  /\ counters[d].weighted > prev[d].weighted}
    /\ missed' = (missed \cup (DOMAIN work \ Range(listed))) \ Tracked
    /\ UNCHANGED <<clock, now, listed, counters>>

\* An I/O or parse error: nothing of the collector is touched.
Fail ==
    /\ reading
    /\ reading' = FALSE
    /\ UNCHANGED <<clock, now, listed, counters, prev, out, aggregate, work, reported,
                   spoiled, missed>>

Next ==
    \/ \E D \in SUBSET Range(listed), k \in 1..2 : Serve(D, k)
    \/ \E d \in Devices : Plug(d) \/ Unplug(d)
    \/ Begin
    \/ Collect
    \/ Fail

Spec == Init /\ [][Next]_vars
-----------------------------------------------------------------------------
Counts == [weighted : Nat, busy : Nat]
Baseline == [weighted : Nat, busy : Nat, at : Nat]

TypeOK ==
    /\ {clock, now} \subseteq Nat
    /\ reading \in BOOLEAN
    /\ listed \in Seq(Devices)
    /\ counters \in [Devices -> Counts]
    /\ DOMAIN prev \subseteq Devices
    /\ prev \in [DOMAIN prev -> Baseline]
    /\ out \subseteq [device : Devices, depth : Nat, util : Nat, elapsed : Nat \ {0}]
    /\ aggregate \subseteq {x.device : x \in out}
    /\ DOMAIN prev \subseteq DOMAIN work
    /\ work \in [DOMAIN work -> Nat]
    /\ reported \in [Devices -> Nat]
    /\ {spoiled, missed} \subseteq SUBSET Devices

\* No queue time is reported twice and none is made up, even when a device is
\* unplugged and another takes its name before the next pass.
NothingTwice == \A d \in DOMAIN work : reported[d] <= work[d]

\* For a device that has stayed plugged in, the samples add up to all of its
\* queue time between its first reading and the latest, whichever passes failed
\* or had no room for it under max_devices, and however late they read.
NothingLost ==
    \A d \in DOMAIN prev \ spoiled :
        reported[d] + (counters[d].weighted - prev[d].weighted) = work[d]

\* The file is read later than the instant its samples are stamped with
\* (sampler.rs:153, disk.rs:115).  A utilization can come out above 100 percent
\* for that, but by no more than the time the read of this call was late:
\* min(100.0) hides nothing that comes from mixing up baselines.
UtilBounded == \A x \in out : x.util <= x.elapsed + (clock - now)

\* A baseline never bridges an absence that a pass has seen: a device that was
\* found gone starts afresh when it is back (disk.rs:159).
NoBridge == missed \cap DOMAIN prev = {}
=============================================================================
