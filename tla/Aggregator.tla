----------------------------- MODULE Aggregator -----------------------------
(***************************************************************************)
(* Aggregator of src/aggregate.rs: one ExactWindow per metric key, a cap   *)
(* on the number of keys, eviction on insertion, and percentile snapshots. *)
(*                                                                         *)
(* insert(now, samples) is one step per sample of its loop: Begin takes    *)
(* the batch and its timestamp, then one of Occupied, Vacant and Full      *)
(* handles the next sample.  The clock runs on meanwhile, since the stamp  *)
(* of a pass is read before the collectors are.  snapshot(now) runs on the *)
(* same task as insert, hence only when no batch is in hand.               *)
(***************************************************************************)
EXTENDS ExactWindow

CONSTANTS
    Keys,        \* metric keys (name and labels)
    Values,      \* sample values
    Windows,     \* config.windows: the lengths of the rolling windows
    MaxWindow,   \* max_window: the longest of them
    MaxSeries,   \* max_series: the cap on the number of series
    MinInstant,  \* the earliest Instant of the platform; checked_sub fails below it
    MaxBatch,    \* bound: samples in one pass
    Horizon      \* bound: the last instant of the clock

ASSUME KeysAssumption == IsFiniteSet(Keys)
ASSUME WindowsAssumption ==
    /\ Windows \subseteq Nat
    /\ MaxWindow \in Windows
    /\ \A w \in Windows : w <= MaxWindow
ASSUME LimitsAssumption ==
    /\ MaxSeries \in Nat
    /\ MaxBatch \in Nat
    /\ Horizon \in Nat
    /\ MinInstant \in Int /\ MinInstant <= 0

VARIABLES
    clock,         \* the monotonic clock, from the start of the process
    stamp,         \* now of the latest insert
    pending,       \* the samples of the latest insert still to be handled
    series,        \* per key, the points of its ExactWindow
    droppedSeries, \* the dropped_series counter
    report,        \* the latest snapshot
    log,           \* history: per key, every point ever pushed
    rejected       \* history: the keys the cap has turned away

vars == <<clock, stamp, pending, series, droppedSeries, report, log, rejected>>

Sample == [key : Keys, value : Values]
Point  == [at : Nat, value : Values]

\* Instant::checked_sub: an instant that would be below the platform's
\* earliest one does not exist.
Representable(instant) == instant >= MinInstant

\* The series after a point is pushed to the one of key k, which `points`
\* stands for; other series are left alone.
Stored(map, k, points) ==
    [j \in DOMAIN map \cup {k} |-> IF j = k THEN points ELSE map[j]]

\* Seeded fault: insert does not evict.
EvictedNothing(k) == series[k]

\* What insert leaves of an existing series before it pushes the new point.
Evicted(k) ==
    IF Representable(stamp - MaxWindow)
    THEN EvictBefore(series[k], stamp - MaxWindow)
    ELSE series[k]

\* Seeded fault: one series more than max_series.
HasRoomOffByOne == Cardinality(DOMAIN series) <= MaxSeries

\* The cap leaves room for a new series.
HasRoom == Cardinality(DOMAIN series) < MaxSeries

Init ==
    /\ clock = 0
    /\ stamp = 0
    /\ pending = <<>>
    /\ series = <<>>
    /\ droppedSeries = 0
    /\ report = <<>>
    /\ log = <<>>
    /\ rejected = {}

Tick ==
    /\ clock < Horizon
    /\ clock' = clock + 1
    /\ UNCHANGED <<stamp, pending, series, droppedSeries, report, log, rejected>>

\* insert is called with the samples of one pass.  Two passes never share an
\* instant: the clock, which counts nanoseconds, moves on while one runs.
Begin(batch) ==
    /\ pending = <<>>
    /\ clock > stamp
    /\ stamp' = clock
    /\ pending' = batch
    /\ UNCHANGED <<clock, series, droppedSeries, report, log, rejected>>

\* Entry::Occupied: evict from this series, then push.
Occupied ==
    /\ pending # <<>>
    /\ LET s == Head(pending) IN
        /\ s.key \in DOMAIN series
        /\ series' = Stored(series, s.key, Insert(Evicted(s.key), stamp, s.value))
        /\ log' = Stored(log, s.key, Insert(log[s.key], stamp, s.value))
    /\ pending' = Tail(pending)
    /\ UNCHANGED <<clock, stamp, droppedSeries, report, rejected>>

\* Entry::Vacant below the cap: a new series with this one point.
Vacant ==
    /\ pending # <<>>
    /\ LET s == Head(pending) IN
        /\ s.key \notin DOMAIN series
        /\ HasRoom
        /\ series' = Stored(series, s.key, Insert(<<>>, stamp, s.value))
        /\ log' = Stored(log, s.key, Insert(<<>>, stamp, s.value))
    /\ pending' = Tail(pending)
    /\ UNCHANGED <<clock, stamp, droppedSeries, report, rejected>>

\* Entry::Vacant at the cap: the sample is counted and dropped.
Full ==
    /\ pending # <<>>
    /\ LET s == Head(pending) IN
        /\ s.key \notin DOMAIN series
        /\ ~ HasRoom
        /\ rejected' = rejected \cup {s.key}
    /\ droppedSeries' = droppedSeries + 1
    /\ pending' = Tail(pending)
    /\ UNCHANGED <<clock, stamp, series, report, log>>

\* The pairs that snapshot emits percentiles for.
Reported ==
    {kw \in (DOMAIN series) \X Windows :
        /\ Representable(clock - kw[2])
        /\ PartitionPoint(series[kw[1]], clock - kw[2]) < Len(series[kw[1]])}

\* snapshot(now): every key, every window.
Snapshot ==
    /\ pending = <<>>
    /\ report' = [kw \in Reported |-> Percentiles(series[kw[1]], clock - kw[2])]
    /\ UNCHANGED <<clock, stamp, pending, series, droppedSeries, log, rejected>>

Next ==
    \/ Tick
    \/ \E n \in 0..MaxBatch : \E batch \in [1..n -> Sample] : Begin(batch)
    \/ Occupied
    \/ Vacant
    \/ Full
    \/ Snapshot

Spec == Init /\ [][Next]_vars
-----------------------------------------------------------------------------
TypeOK ==
    /\ clock \in Nat
    /\ stamp \in Nat
    /\ pending \in Seq(Sample)
    /\ DOMAIN series \subseteq Keys
    /\ series \in [DOMAIN series -> Seq(Point)]
    /\ DOMAIN log = DOMAIN series
    /\ log \in [DOMAIN log -> Seq(Point)]
    /\ droppedSeries \in Nat
    /\ rejected \subseteq Keys

\* A series holds exactly the last of its points, those of the longest window
\* before the latest one.  That bounds its memory (DESIGN.md:403), also when it
\* falls silent: it then keeps them, however long, and nothing older.
KeepsItsWindow ==
    \A k \in DOMAIN series :
        LET s == series[k]
            l == log[k]
            evicted == Len(l) - Len(s)
        IN  /\ evicted >= 0
            /\ \A i \in DOMAIN s : s[i] = l[i + evicted]
            /\ \A i \in DOMAIN l : i > evicted <=> l[i].at >= l[Len(l)].at - MaxWindow

\* Series are never removed, so the first max_series keys own the aggregator
\* for good: once a key has been turned away the table is full of other keys,
\* and a key that was turned away is never let in later.  Each of them shows in
\* the counter, which goes up once per sample and not once per series.
CapIsFinal ==
    /\ Cardinality(DOMAIN series) <= MaxSeries
    /\ rejected \cap DOMAIN series = {}
    /\ rejected # {} => Cardinality(DOMAIN series) = MaxSeries
    /\ Cardinality(rejected) <= droppedSeries

\* Every report is the report of an aggregator that never evicts and scans
\* all its samples: neither eviction nor the binary search loses a sample of
\* any window or lets an expired one in, whenever passes and snapshots happen.
Abstract == INSTANCE RollingLog WITH dropped <- droppedSeries
ImplementsRollingLog == Abstract!Spec
=============================================================================
