---------------------------- MODULE PsiCollector ----------------------------
(***************************************************************************)
(* PsiCollector of src/collector/psi.rs.  One collect() call reads three   *)
(* files, /proc/pressure/{cpu,memory,io}, one after the other, while the   *)
(* kernel goes on counting stall time; every sample of the call carries    *)
(* the instant at which the pass began.  A file that cannot be read or     *)
(* parsed ends the call, and the sampler cuts off what it has written      *)
(* (sampler.rs:105,115), but the trackers of the files read before it have *)
(* already moved on.                                                       *)
(*                                                                         *)
(* The value of a sample is min(100 percent, delta / elapsed); a sample is *)
(* kept as [delta, elapsed], and Shown is the stall that its value stands  *)
(* for.                                                                    *)
(***************************************************************************)
EXTENDS RateTracker, FiniteSets

CONSTANTS
    R,         \* the number of PSI files, read in the order 1..R
    HasFull,   \* those of them that have a `full` line
    MaxDelay,  \* bound: time from the start of a pass to its last read
    Horizon    \* bound: the last instant of the clock

Resources == 1..R

ASSUME PsiAssumption ==
    R \in Nat /\ HasFull \subseteq Resources /\ MaxDelay \in Nat /\ Horizon \in Nat

\* The stall totals of the files: (resource, kind) pairs.
Series == (Resources \X {"some"}) \cup (HasFull \X {"full"})

VARIABLES
    clock,     \* the monotonic clock
    total,     \* kernel: stall time of each series, in units of the clock
    now,       \* the instant the current or latest call was given
    next,      \* the file to be read next; 0 when no call is running
    tracker,   \* some_tracker and full_tracker of each resource
    out,       \* the samples this call has written
    enabled,   \* the sampler still polls the collector
    first,     \* history: the total at the first reading of each series
    reported,  \* history: the stall reported by samples that were kept
    spoiled    \* history: series with a sample cut off, clamped or not made

vars == <<clock, total, now, next, tracker, out, enabled, first, reported, spoiled>>

Init ==
    /\ clock = 0
    /\ total = [s \in Series |-> 0]
    /\ now = 0
    /\ next = 0
    /\ tracker = [s \in Series |-> {}]
    /\ out = {}
    /\ enabled = TRUE
    /\ first = [s \in Series |-> 0]
    /\ reported = [s \in Series |-> 0]
    /\ spoiled = {}

\* Kernel: in one unit of time each series stalls or does not; when all tasks
\* of a resource stall, some do.
Stall(S) ==
    /\ clock < Horizon
    /\ next # 0 => clock < now + MaxDelay
    /\ \A r \in HasFull : <<r, "full">> \in S => <<r, "some">> \in S
    /\ clock' = clock + 1
    /\ total' = [s \in Series |-> total[s] + (IF s \in S THEN 1 ELSE 0)]
    /\ UNCHANGED <<now, next, tracker, out, enabled, first, reported, spoiled>>

Begin ==
    /\ next = 0
    /\ enabled
    /\ now' = clock
    /\ next' = 1
    /\ out' = {}
    /\ UNCHANGED <<clock, total, tracker, enabled, first, reported, spoiled>>

\* min(100.0): the stall a sample shows is at most its interval.
Shown(x) == IF x.delta <= x.elapsed THEN x.delta ELSE x.elapsed

\* The samples one series gives when its total is read.
Samples(s) ==
    {[series |-> s, delta |-> d.delta, elapsed |-> d.elapsed] :
        d \in Rate(tracker[s], total[s], now)}

\* The file is read and parsed: both of its trackers are updated.
Read ==
    /\ next \in Resources
    /\ LET S == {s \in Series : s[1] = next} IN
        /\ out' = out \cup UNION {Samples(s) : s \in S}
        /\ tracker' = [s \in Series |-> IF s \in S
                                        THEN Remembered(tracker[s], total[s], now)
                                        ELSE tracker[s]]
        /\ first' = [s \in Series |-> IF s \in S /\ tracker[s] = {}
                                      THEN total[s] ELSE first[s]]
        /\ spoiled' = spoiled \cup {s \in S : /\ tracker[s] # {}
                                            /\ \A x \in Samples(s) : Shown(x) < x.delta}
    /\ next' = next + 1
    /\ UNCHANGED <<clock, total, now, enabled, reported>>

\* The call ends early and its samples are truncated away.
Abandon ==
    /\ next \in Resources
    /\ out' = {}
    /\ spoiled' = spoiled \cup {x.series : x \in out}
    /\ next' = 0
    /\ UNCHANGED <<clock, total, now, tracker, first, reported>>

\* An I/O or parse error.
Fail == Abandon /\ UNCHANGED enabled

\* The file is not there: the sampler disables the collector.
Missing == Abandon /\ enabled' = FALSE

\* The call returns Ok; the pass keeps its samples.
Return ==
    /\ next = R + 1
    /\ reported' = [s \in Series |->
                      IF \E x \in out : x.series = s
                      THEN reported[s] + Shown(CHOOSE x \in out : x.series = s)
                      ELSE reported[s]]
    /\ out' = {}
    /\ next' = 0
    /\ UNCHANGED <<clock, total, now, tracker, enabled, first, spoiled>>

Next ==
    \/ \E S \in SUBSET Series : Stall(S)
    \/ Begin
    \/ Read
    \/ Fail
    \/ Missing
    \/ Return

Spec == Init /\ [][Next]_vars
-----------------------------------------------------------------------------
TypeOK ==
    /\ clock \in Nat
    /\ total \in [Series -> Nat]
    /\ now \in Nat
    /\ next \in 0..(R + 1)
    /\ tracker \in [Series -> SUBSET Reading]
    /\ \A s \in Series : Cardinality(tracker[s]) <= 1
    /\ out \subseteq [series : Series, delta : Nat, elapsed : Nat \ {0}]
    /\ enabled \in BOOLEAN
    /\ first \in [Series -> Nat]
    /\ reported \in [Series -> Nat]
    /\ spoiled \subseteq Series

\* What a series has reported, with what the running call is about to report.
Claimed(s) ==
    reported[s] + (IF \E x \in out : x.series = s
                   THEN Shown(CHOOSE x \in out : x.series = s) ELSE 0)

\* No stall is reported twice, whichever calls fail at whichever file: a series
\* never claims more than has been counted since its first reading.
NothingTwice ==
    \A s \in Series : tracker[s] # {} => Claimed(s) <= total[s] - first[s]

\* Stall goes missing from the samples only where a call failed after reading
\* it, where min(100.0) cut it, or where two passes shared an instant: otherwise
\* the samples add up to exactly what the kernel counted between the first
\* reading and the latest.
NothingLost ==
    \A s \in Series \ spoiled : \A p \in tracker[s] : Claimed(s) = p.value - first[s]

\* The files are read later than the instant the samples are stamped with.  A
\* share can come out above 100 percent for that, but only by the time the
\* reads of this call were late: min(100.0) hides no more.
SkewBounded == \A x \in out : x.delta <= x.elapsed + (clock - now)
=============================================================================
