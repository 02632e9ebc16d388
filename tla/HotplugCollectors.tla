------------------------- MODULE HotplugCollectors --------------------------
(***************************************************************************)
(* The two collectors that see CPUs go on and off line: SoftnetCollector   *)
(* of src/collector/softnet.rs, which adds up the rows that                *)
(* /proc/net/softnet_stat has for the CPUs on line, and RunQueueCollector  *)
(* of src/collector/run_queue.rs, which counts them once.                  *)
(*                                                                         *)
(* The kernel keeps the counters of a CPU while it is off line, and prints *)
(* them in 32 bits, here modulo Modulus.  The three softnet counters are   *)
(* treated alike; one stands for all.  Both collectors read and parse      *)
(* before they touch their state, but the run queue reads two files.       *)
(***************************************************************************)
EXTENDS RateTracker, FiniteSets

CONSTANTS
    CPUs,         \* possible CPUs
    Modulus,      \* a softnet counter that reaches it wraps
    MaxRunnable,  \* bound: runnable tasks
    Horizon       \* bound: the last instant of the clock

ASSUME HotplugAssumption ==
    /\ IsFiniteSet(CPUs) /\ CPUs # {}
    /\ Modulus \in Nat \ {0} /\ MaxRunnable \in Nat /\ Horizon \in Nat

VARIABLES
    clock,       \* the monotonic clock
    online,      \* kernel: the CPUs on line
    packets,     \* kernel: softnet's counter of each CPU
    tracker,     \* processed
    softnet,     \* the softnet sample of the latest call
    numCpus,     \* num_cpus
    runQueue,    \* the run-queue samples of the latest call
    arrived,     \* history: packets since the tracker's last reading
    gone,        \* history: a CPU went off line, or wrapped, since then
    counted      \* history: the CPUs that reading added up

kernel == <<online, packets>>
vars == <<clock, kernel, tracker, softnet, numCpus, runQueue, arrived, gone, counted>>

\* What the CPUs C have counted, the nth packet of CPU c as <<c, n>>: there are
\* as many as the counters of C add up to.
PacketsOf(counters, C) == UNION {{c} \X (1..counters[c]) : c \in C}

Sum(counters, C) == Cardinality(PacketsOf(counters, C))

\* What parse_softnet makes of the file: the sum over the rows there are.
SoftnetTotal == Sum(packets, online)

Init ==
    /\ clock = 0
    /\ online = CPUs
    /\ packets = [c \in CPUs |-> 0]
    /\ tracker = {}
    /\ softnet = {}
    /\ numCpus = {}
    /\ runQueue = {}
    /\ arrived = 0
    /\ gone = FALSE
    /\ counted = {}

\* Kernel: a unit of time, in which each of the CPUs C takes a packet.
Arrive(C) ==
    /\ clock < Horizon
    /\ clock' = clock + 1
    /\ packets' = [c \in CPUs |-> IF c \in C THEN (packets[c] + 1) % Modulus ELSE packets[c]]
    /\ arrived' = arrived + Cardinality(C)
    /\ gone' = (gone \/ \E c \in C : packets'[c] = 0)
    /\ UNCHANGED <<online, tracker, softnet, numCpus, runQueue, counted>>

\* Kernel: a CPU goes off line, and its row with it.
GoOffline(c) ==
    /\ c \in online
    /\ online # {c}
    /\ online' = online \ {c}
    /\ gone' = TRUE
    /\ UNCHANGED <<clock, packets, tracker, softnet, numCpus, runQueue, arrived, counted>>

\* Kernel: a CPU comes on line, with the counters it had.
GoOnline(c) ==
    /\ c \notin online
    /\ online' = online \cup {c}
    /\ UNCHANGED <<clock, packets, tracker, softnet, numCpus, runQueue, arrived, gone,
                   counted>>

\* SoftnetCollector::collect with a file that can be read and parsed.
CollectSoftnet ==
    /\ softnet' = Rate(tracker, SoftnetTotal, clock)
    /\ tracker' = Remembered(tracker, SoftnetTotal, clock)
    /\ arrived' = 0
    /\ gone' = FALSE
    /\ counted' = online
    /\ UNCHANGED <<clock, kernel, numCpus, runQueue>>

\* Seeded fault: a read that fails counts as one of zero.
FailSoftnetZero ==
    /\ softnet' = {}
    /\ tracker' = {[value |-> 0, at |-> r.at] : r \in tracker}
    /\ UNCHANGED <<clock, kernel, numCpus, runQueue, arrived, gone, counted>>

\* An I/O or parse error, or no such file: no tracker is touched.
FailSoftnet ==
    /\ softnet' = {}
    /\ UNCHANGED <<clock, kernel, tracker, numCpus, runQueue, arrived, gone, counted>>

\* count_cpus: /proc/stat lists the CPUs on line, at least one.
CountCpus == Cardinality(online)

\* num_cpus after /proc/stat has been read, if it had to be.
Counted == IF numCpus = {} THEN {CountCpus} ELSE numCpus

\* Seeded fault: the subtraction does not saturate.
DepthUnsaturated(runnable) == runnable - 1

\* The exporter itself is not counted.
Depth(runnable) == IF runnable > 0 THEN runnable - 1 ELSE 0

\* RunQueueCollector::collect when n tasks are runnable.
CollectRunQueue(n) ==
    /\ numCpus' = Counted
    /\ runQueue' = {[depth |-> Depth(n), cpus |-> c] : c \in Counted}
    /\ UNCHANGED <<clock, kernel, tracker, softnet, arrived, gone, counted>>

\* An I/O or parse error: in /proc/stat, or in /proc/loadavg after the count is
\* known.
FailRunQueue ==
    /\ numCpus' \in {numCpus, Counted}
    /\ runQueue' = {}
    /\ UNCHANGED <<clock, kernel, tracker, softnet, arrived, gone, counted>>

Next ==
    \/ \E C \in SUBSET online : Arrive(C)
    \/ \E c \in CPUs : GoOffline(c) \/ GoOnline(c)
    \/ CollectSoftnet
    \/ FailSoftnet
    \/ \E n \in 0..MaxRunnable : CollectRunQueue(n)
    \/ FailRunQueue

Spec == Init /\ [][Next]_vars
-----------------------------------------------------------------------------
TypeOK ==
    /\ clock \in Nat
    /\ online \in (SUBSET CPUs) \ {{}}
    /\ packets \in [CPUs -> 0..(Modulus - 1)]
    /\ tracker \in SUBSET Reading
    /\ Cardinality(tracker) <= 1
    /\ softnet \subseteq [delta : Nat, elapsed : Nat \ {0}]
    /\ numCpus \in SUBSET (1..Cardinality(CPUs))
    /\ Cardinality(numCpus) <= 1
    /\ runQueue \subseteq [depth : Nat, cpus : 1..Cardinality(CPUs)]
    /\ arrived \in Nat
    /\ gone \in BOOLEAN
    /\ counted \subseteq CPUs

\* Neither a CPU that goes off line nor a counter that wraps makes a burst: the
\* sum falls then, or rises by less than arrived, and falling sums are dropped.
\* The one thing that can be reported beside the packets of the interval is what
\* CPUs that have come on line since bring with them.
NothingInvented ==
    [][CollectSoftnet =>
          \A x \in softnet' :
              x.delta <= arrived + Sum(packets, online \ counted)]_vars

\* A disturbance spoils the one interval it falls into: between two good reads
\* of the same CPUs, none of which wrapped, however many reads failed in between
\* and whatever was disturbed before, the sample is there and shows every packet.
NothingLost ==
    [][CollectSoftnet /\ ~ gone /\ online = counted =>
          \A r \in tracker : clock > r.at => \E x \in softnet' : x.delta = arrived]_vars

\* The per-CPU series is runnable tasks divided by online CPU count
\* (run_queue.rs:16).
PerCpuOfOnline ==
    [][\A n \in 0..MaxRunnable :
          CollectRunQueue(n) => \A x \in runQueue' : x.cpus = Cardinality(online)]_vars
=============================================================================
