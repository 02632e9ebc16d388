---------------------------- MODULE CpuCollector ----------------------------
(***************************************************************************)
(* CpuCollector of src/collector/cpu.rs: shares of CPU time by mode and    *)
(* event rates, from one read of /proc/stat per pass.  Everything is read  *)
(* and parsed before any state is touched, so a call that fails changes    *)
(* nothing.                                                                *)
(*                                                                         *)
(* The modes are the groups the code adds up: user (with nice), system     *)
(* (with irq and softirq), iowait, and the rest (idle and steal), which    *)
(* only counts towards the total.  A share is kept as the pair of jiffies  *)
(* it is the quotient of.  The context-switch and interrupt counters are   *)
(* treated alike; one of them stands for both.                             *)
(***************************************************************************)
EXTENDS RateTracker, FiniteSets

CONSTANTS
    MaxJiffies,  \* bound: jiffies of each mode
    Horizon      \* bound: the last instant of the clock

ASSUME CpuAssumption == MaxJiffies \in Nat /\ Horizon \in Nat

Shared == {"user", "system", "iowait"}
Modes == Shared \cup {"rest"}

VARIABLES
    clock,     \* the monotonic clock
    jiffies,   \* kernel: cumulative CPU time of each mode
    ctxt,      \* kernel: cumulative context switches
    prevCpu,   \* prev_cpu: the times at the last good read, if any
    ctxtRate,  \* ctxt_rate
    shares,    \* the shares written by the latest call
    first,     \* history: the times and switches at the first good read
    reported,  \* history: the jiffies of each mode reported so far
    switches,  \* history: the context switches reported so far
    fell,      \* history: the kernel has taken iowait back
    taken      \* history: how much, since the latest good read

vars == <<clock, jiffies, ctxt, prevCpu, ctxtRate, shares, first, reported, switches,
          fell, taken>>

\* Seeded fault: iowait is left out of the total.
TotalWithoutIowait(times) == times["user"] + times["system"] + times["rest"]

\* CpuTimes::total
Total(times) == times["user"] + times["system"] + times["iowait"] + times["rest"]

\* Seeded fault: a subtraction that does not saturate.
PlainSub(m, n) == m - n

\* u64::saturating_sub
SaturatingSub(m, n) == IF m >= n THEN m - n ELSE 0

\* The shares of the time since prev, if the total has grown.
Shares(prev, curr) ==
    {[mode |-> m, delta |-> SaturatingSub(curr[m], p[m]), total |-> Total(curr) - Total(p)] :
        m \in Shared, p \in {q \in prev : Total(curr) > Total(q)}}

\* Seeded fault: Option::get_or_insert for Option::replace.
ReplacedOnce(prev, times) == IF prev = {} THEN {times} ELSE prev

\* Option::replace
Replaced(prev, times) == {times}

Init ==
    /\ clock = 0
    /\ jiffies = [m \in Modes |-> 0]
    /\ ctxt = 0
    /\ prevCpu = {}
    /\ ctxtRate = {}
    /\ shares = {}
    /\ first = [times |-> jiffies, ctxt |-> 0]
    /\ reported = [m \in Shared |-> 0]
    /\ switches = 0
    /\ fell = FALSE
    /\ taken = 0

\* Kernel: time passes.  It is accounted to the modes M, by the jiffy, or not
\* yet, and c context switches happen.
Run(M, c) ==
    /\ clock < Horizon
    /\ \A m \in M : jiffies[m] < MaxJiffies
    /\ clock' = clock + 1
    /\ jiffies' = [m \in Modes |-> jiffies[m] + (IF m \in M THEN 1 ELSE 0)]
    /\ ctxt' = ctxt + c
    /\ UNCHANGED <<prevCpu, ctxtRate, shares, first, reported, switches, fell,
                   taken>>

\* Kernel: iowait is taken back, as proc(5) warns it may be.
FallBack ==
    /\ jiffies["iowait"] > 0
    /\ fell' = TRUE
    /\ taken' = taken + 1
    /\ jiffies' = [jiffies EXCEPT !["iowait"] = @ - 1]
    /\ UNCHANGED <<clock, ctxt, prevCpu, ctxtRate, shares, first, reported, switches>>

\* The jiffies of mode m among the shares S.
Share(S, m) ==
    IF \E x \in S : x.mode = m THEN (CHOOSE x \in S : x.mode = m).delta ELSE 0

\* collect() with a /proc/stat that can be read and parsed.
Collect ==
    /\ shares' = Shares(prevCpu, jiffies)
    /\ prevCpu' = Replaced(prevCpu, jiffies)
    /\ ctxtRate' = Remembered(ctxtRate, ctxt, clock)
    /\ reported' = [m \in Shared |-> reported[m] + Share(shares', m)]
    /\ switches' = IF \E r \in Rate(ctxtRate, ctxt, clock) : TRUE
                   THEN switches + (CHOOSE r \in Rate(ctxtRate, ctxt, clock) : TRUE).delta
                   ELSE switches
    /\ first' = IF prevCpu = {} THEN [times |-> jiffies, ctxt |-> ctxt] ELSE first
    /\ taken' = 0
    /\ UNCHANGED <<clock, jiffies, ctxt, fell>>

\* Seeded fault: a failed read forgets the baseline.
FailForgets ==
    /\ shares' = {}
    /\ prevCpu' = {}
    /\ UNCHANGED <<clock, jiffies, ctxt, ctxtRate, first, reported, switches, fell,
                   taken>>

\* An I/O or parse error: no field of the collector is touched.
Fail ==
    /\ shares' = {}
    /\ UNCHANGED <<clock, jiffies, ctxt, prevCpu, ctxtRate, first, reported, switches,
                   fell, taken>>

Next ==
    \/ \E M \in SUBSET Modes, c \in 0..1 : Run(M, c)
    \/ FallBack
    \/ Collect
    \/ Fail

Spec == Init /\ [][Next]_vars
-----------------------------------------------------------------------------
Times == [Modes -> Nat]

TypeOK ==
    /\ clock \in Nat
    /\ jiffies \in Times
    /\ ctxt \in Nat
    /\ prevCpu \in SUBSET Times
    /\ Cardinality(prevCpu) <= 1
    /\ ctxtRate \in SUBSET Reading
    /\ Cardinality(ctxtRate) <= 1
    /\ shares \subseteq [mode : Shared, delta : Nat, total : Nat \ {0}]
    /\ first \in [times : Times, ctxt : Nat]
    /\ reported \in [Shared -> Nat]
    /\ switches \in Nat
    /\ fell \in BOOLEAN
    /\ taken \in Nat

\* The shares of one call never add up to more than 100 percent, but for the
\* iowait that the kernel has taken back since the baseline, however many reads
\* failed meanwhile.
SharesAddUp ==
    [][Collect => \A x \in shares' :
          Share(shares', "user") + Share(shares', "system") + Share(shares', "iowait")
              <= x.total + taken]_vars

\* Whatever calls fail, and however jiffies lag behind the clock, the context
\* switches reported add up to what the kernel counted between the first good
\* read and the latest, and the jiffies do until iowait is taken back.
NothingLost ==
    /\ ~ fell => \A p \in prevCpu : \A m \in Shared : reported[m] = p[m] - first.times[m]
    /\ \A p \in ctxtRate : switches = p.value - first.ctxt

\* Even when iowait falls, no user or system time is reported twice.
NothingTwice ==
    prevCpu # {} =>
        \A m \in {"user", "system"} : reported[m] <= jiffies[m] - first.times[m]

\* The unit of the CPU mode metrics is percent, 0..100 (DESIGN.md:301).
SharesArePercentages == \A x \in shares : x.delta <= x.total
=============================================================================
