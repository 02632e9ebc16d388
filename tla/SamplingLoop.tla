---------------------------- MODULE SamplingLoop ----------------------------
(***************************************************************************)
(* Sampler::run of src/sampler.rs: one task serves two tokio intervals,    *)
(* one for sampling passes and one for snapshots, both with                *)
(* MissedTickBehavior::Skip, and sets the gauges that tell how well it     *)
(* keeps time.  What a pass does is Sampler's; here it takes time.         *)
(*                                                                         *)
(* Times are relative to now, so that the loop can run for ever in         *)
(* finitely many states: a deadline that has passed is negative.  Between  *)
(* the tick that sets the next deadline and the Instant::now() that starts *)
(* the pass the task may lose its processor, so these are steps of their   *)
(* own.  What Sampler has too is named Loop here, since proofs extend both *)
(* modules.                                                                *)
(***************************************************************************)
EXTENDS Integers

CONSTANTS
    SamplePeriod,      \* sampling.period
    SnapshotInterval,  \* sampling.snapshot_interval
    Tolerance,         \* lateness up to which tokio does not call a tick missed (5 ms)
    MaxBusy,           \* bound: the time one step of the task takes
    MaxLate            \* bound: how late a sampling tick gets before time stops

\* validate() refuses zero periods (src/config.rs:245-250).
ASSUME PeriodsAssumption ==
    /\ SamplePeriod \in Nat \ {0}
    /\ SnapshotInterval \in Nat \ {0}
    /\ Tolerance \in Nat
    /\ MaxBusy \in Nat
    /\ MaxLate \in Nat

VARIABLES
    activity,     \* what the task does
    sampleDue,    \* time until the next deadline of sample_tick
    snapshotDue,  \* time until the next deadline of snapshot_tick
    busy,         \* for how long the task has been in this activity
    scheduled,    \* how long ago the pass at hand was due
    since,        \* how long ago the last pass started (last_tick)
    begun,        \* passes started, counted up to 3; with 0, last_tick is None
    lag,          \* gauge: sample_loop_lag_seconds
    interval,     \* gauge: effective_sample_interval_seconds
    duration,     \* gauge: sample_loop_duration_seconds
    previous      \* history: the gauge interval before its last change

gauges == <<lag, interval, duration>>
loopVars == <<activity, sampleDue, snapshotDue, busy, scheduled, since, begun, gauges, previous>>

Activities == {"idle", "ticked", "sampling", "publishing"}

\* Seeded fault: MissedTickBehavior::Burst, tokio's default.
NextDueBurst(due, period) == due + period

\* The deadline after one that was due at that time: one period on, or, when
\* the tick was missed, the first one still to come.
NextDue(due, period) ==
    IF -due > Tolerance THEN period - ((-due) % period) ELSE due + period

\* bound: how late the snapshot deadline is on record.  The code has no such step:
\* a missed deadline one interval later leads to the same next one.
Forgiven(due) ==
    IF -due > Tolerance + SnapshotInterval THEN due + SnapshotInterval ELSE due

LoopInit ==
    /\ activity = "idle"
    /\ sampleDue = 0
    /\ snapshotDue = 0
    /\ busy = 0
    /\ scheduled = 0
    /\ since = 0
    /\ begun = 0
    /\ lag = 0
    /\ interval = 0
    /\ duration = 0
    /\ previous = 0

\* The clock goes on, also while the task is late for a tick.
Elapse ==
    /\ sampleDue > -MaxLate
    /\ activity # "idle" => busy < MaxBusy
    /\ sampleDue' = sampleDue - 1
    /\ snapshotDue' = Forgiven(snapshotDue - 1)
    /\ busy' = IF activity = "idle" THEN 0 ELSE busy + 1
    /\ scheduled' = IF activity \in {"ticked", "sampling"} THEN scheduled + 1 ELSE 0
    /\ since' = IF begun = 0 THEN 0 ELSE since + 1
    /\ UNCHANGED <<activity, begun, gauges, previous>>

\* sample_tick.tick() is ready and select! takes it.
SampleTick ==
    /\ activity = "idle"
    /\ sampleDue <= 0
    /\ activity' = "ticked"
    /\ sampleDue' = NextDue(sampleDue, SamplePeriod)
    /\ scheduled' = -sampleDue
    /\ UNCHANGED <<snapshotDue, busy, since, begun, gauges, previous>>

\* Seeded fault: the time of the tick itself is taken for the schedule.
LatenessOfTick == busy

\* started - scheduled
Lateness == scheduled

\* The pass starts: its lag is taken, and sample_once takes its interval.
StartPass ==
    /\ activity = "ticked"
    /\ activity' = "sampling"
    /\ lag' = Lateness
    /\ interval' = IF begun = 0 THEN interval ELSE since
    /\ since' = 0
    /\ begun' = IF begun = 3 THEN 3 ELSE begun + 1
    /\ previous' = interval
    /\ busy' = 0
    /\ UNCHANGED <<sampleDue, snapshotDue, scheduled, duration>>

\* Seeded fault: the duration is taken from the schedule.
ElapsedSinceDue == scheduled

\* started.elapsed()
Elapsed == busy

EndPass ==
    /\ activity = "sampling"
    /\ activity' = "idle"
    /\ duration' = Elapsed
    /\ busy' = 0
    /\ scheduled' = 0
    /\ UNCHANGED <<sampleDue, snapshotDue, since, begun, lag, interval, previous>>

\* Seeded fault: select! is biased towards its first branch.
SnapshotTickLast ==
    /\ activity = "idle"
    /\ sampleDue > 0
    /\ snapshotDue <= 0
    /\ activity' = "publishing"
    /\ snapshotDue' = NextDue(snapshotDue, SnapshotInterval)
    /\ UNCHANGED <<sampleDue, busy, scheduled, since, begun, gauges, previous>>

\* snapshot_tick.tick() is ready and select! takes it, whatever sample_tick is.
SnapshotTick ==
    /\ activity = "idle"
    /\ snapshotDue <= 0
    /\ activity' = "publishing"
    /\ snapshotDue' = NextDue(snapshotDue, SnapshotInterval)
    /\ UNCHANGED <<sampleDue, busy, scheduled, since, begun, gauges, previous>>

EndPublish ==
    /\ activity = "publishing"
    /\ activity' = "idle"
    /\ busy' = 0
    /\ UNCHANGED <<sampleDue, snapshotDue, scheduled, since, begun, gauges, previous>>

LoopNext == Elapse \/ SampleTick \/ StartPass \/ EndPass \/ SnapshotTick \/ EndPublish

\* Time goes on and what the task has begun it ends.  select! polls its
\* branches in random order, so that a branch that is ready again and again is
\* taken at last, although the other one may be ready each time as well.
LoopFairness ==
    /\ WF_loopVars(Elapse)
    /\ WF_loopVars(StartPass) /\ WF_loopVars(EndPass) /\ WF_loopVars(EndPublish)
    /\ SF_loopVars(SampleTick) /\ SF_loopVars(SnapshotTick)

LoopSpec == LoopInit /\ [][LoopNext]_loopVars /\ LoopFairness
-----------------------------------------------------------------------------
LoopTypeOK ==
    /\ activity \in Activities
    /\ sampleDue \in Int
    /\ snapshotDue \in Int
    /\ snapshotDue >= -(Tolerance + SnapshotInterval)
    /\ busy \in Nat
    /\ scheduled \in Nat
    /\ since \in Nat
    /\ begun \in 0..3
    /\ lag \in Nat
    /\ interval \in Nat
    /\ duration \in Nat
    /\ previous \in Nat

\* No delay goes unseen: when two passes started further apart than the
\* period, the lag gauge of the later one shows at least the excess, however
\* many ticks were skipped in between and whatever held the task up.
LagAccountsForDelay == begun >= 2 => interval <= lag + SamplePeriod

\* The pass at hand starts.
PassStarts == activity = "ticked" /\ activity' = "sampling"

\* The reason to choose Skip: however far the loop has fallen behind, it never
\* makes up for it with a burst of passes.  Of four passes in a row the last
\* starts more than a period after the first, as long as a period is longer
\* than tokio's tolerance.
NoBurst ==
    [][PassStarts /\ begun = 3 => previous + interval + interval' > SamplePeriod]_loopVars

\* Passes do not overlap: the interval a pass reports is no shorter than the
\* duration reported by the pass before.
NoOverlap == [][PassStarts /\ begun > 0 => interval' >= duration]_loopVars

\* Snapshots go on: one that is due is published in the end, even if sampling
\* passes take longer than their period and are always due as well.
SnapshotsGoOn == snapshotDue <= 0 ~> activity = "publishing"
=============================================================================
