------------------------------ MODULE Exporter ------------------------------
(***************************************************************************)
(* The whole exporter through crashes and restarts: main() of src/main.rs  *)
(* with its two tasks, the supervisor of hi-res-exporter.service, and a    *)
(* scraper that computes what Prometheus computes.  Of the collectors the  *)
(* smallest is there, VmstatCollector of src/collector/vmstat.rs; a pass   *)
(* is one step, which no other part of the process can see into (Sampler). *)
(*                                                                         *)
(* All that the process knows is one record, which it loses whenever it    *)
(* ends.  What is outside goes on: the kernel's counter, the scraper, the  *)
(* configuration file, and other processes that want the port.             *)
(***************************************************************************)
EXTENDS RateTracker, FiniteSets

CONSTANT Horizon   \* bound: the last instant of the clock

ASSUME ExporterAssumption == Horizon \in Nat

VARIABLES
    clock,     \* the monotonic clock
    faults,    \* kernel: pgmajfault of /proc/vmstat
    loadable,  \* the configuration can be read, parsed and validated
    taken,     \* another process listens on the port
    phase,     \* what has become of the process
    serving,   \* its server task listens
    memory,    \* what the process knows
    scraper,   \* the last samples_total scraped, and the increase computed
    history    \* history: what no single part knows, see Init

environment == <<loadable, taken>>
process == <<phase, serving, memory>>
vars == <<clock, faults, environment, process, scraper, history>>

Phases == {"starting", "running", "failed", "done"}

\* Seeded fault: a new tracker starts from a reading of zero.
FreshFromZero == [tracker |-> {[value |-> 0, at |-> 0]}, samplesTotal |-> 0, text |-> {}]

\* VmstatCollector::new, SelfMetrics::new and SnapshotStore::new.  A text is the
\* samples_total it shows; there is none, and /readyz says so, before the first
\* publish.
Fresh == [tracker |-> {}, samplesTotal |-> 0, text |-> {}]

Init ==
    /\ clock = 0
    /\ faults = 0
    /\ loadable \in BOOLEAN
    /\ taken \in BOOLEAN
    /\ phase = "starting"
    /\ serving = FALSE
    /\ memory = Fresh
    /\ scraper = [last |-> {}, increase |-> 0]
    /\ history = [reported |-> 0,      \* faults reported, in all lives
                  skipped  |-> 0,      \* faults no life has a baseline for
                  emitted  |-> 0,      \* samples emitted, in all lives
                  read     |-> FALSE,  \* this life has read the counter
                  ended    |-> FALSE]  \* ended in a way systemd takes for success

\* Kernel: time passes, with k major page faults.
Fault(k) ==
    /\ clock < Horizon
    /\ clock' = clock + 1
    /\ faults' = faults + k
    /\ UNCHANGED <<environment, process, scraper, history>>

\* The file is edited; another process takes the port, or lets go of it.
Disturb ==
    /\ \/ loadable' = ~ loadable /\ UNCHANGED taken
       \/ ~ serving /\ taken' = ~ taken /\ UNCHANGED loadable
    /\ UNCHANGED <<clock, faults, process, scraper, history>>

\* Config::load succeeds; the collectors are built and both tasks spawned.
Start ==
    /\ phase = "starting" /\ loadable
    /\ phase' = "running"
    /\ UNCHANGED <<clock, faults, environment, serving, memory, scraper, history>>

\* The process is no more, and nothing it knew.
Gone(next, clean) ==
    /\ phase' = next
    /\ serving' = FALSE
    /\ memory' = Fresh
    /\ history' = [history EXCEPT !.read = FALSE, !.ended = clean]
    /\ UNCHANGED <<clock, faults, environment, scraper>>

\* Config::load fails: exit code 2.
LoadFails ==
    /\ phase = "starting" /\ ~ loadable
    /\ Gone("failed", FALSE)

\* serve: the listener is bound, before or after the first passes.
Bind ==
    /\ phase = "running" /\ ~ serving /\ ~ taken
    /\ serving' = TRUE
    /\ UNCHANGED <<clock, faults, environment, phase, memory, scraper, history>>

\* Seeded fault: the error is printed and the task ends, which ends main().
BindFailsQuietly ==
    /\ phase = "running" /\ ~ serving /\ taken
    /\ Gone("done", FALSE)

\* serve fails: exit code 1, with the sampler in the middle of whatever it does.
BindFails ==
    /\ phase = "running" /\ ~ serving /\ taken
    /\ Gone("failed", FALSE)

\* The sampler task ends, which makes exit code 1, or the process dies of a signal
\* such as SIGKILL or SIGABRT, at any point and any number of times.
Crash ==
    /\ phase \in {"starting", "running"}
    /\ Gone("failed", FALSE)

\* SIGINT, or the end of the server task: main() returns, exit code 0.
Return ==
    /\ phase = "running"
    /\ Gone("done", TRUE)

\* SIGTERM or SIGHUP, of which main() handles neither, or SIGINT before it waits
\* for that: the process dies of it, which on-failure takes for a clean exit.
Terminate ==
    /\ phase \in {"starting", "running"}
    /\ Gone("done", TRUE)

\* systemd, Restart=on-failure: exit codes but 0, and signals but the clean ones.
Restart ==
    /\ phase = "failed"
    /\ phase' = "starting"
    /\ UNCHANGED <<clock, faults, environment, serving, memory, scraper, history>>

\* A sampling pass whose read of /proc/vmstat succeeds.
Pass ==
    /\ phase = "running"
    /\ LET rate == Rate(memory.tracker, faults, clock) IN
        /\ memory' = [memory EXCEPT !.tracker = Remembered(@, faults, clock),
                                    !.samplesTotal = @ + (IF rate = {} THEN 0 ELSE 1)]
        /\ history' = [history EXCEPT
                         !.reported = @ + (IF rate = {} THEN 0
                                           ELSE (CHOOSE r \in rate : TRUE).delta),
                         !.skipped = IF history.read THEN @ ELSE faults - history.reported,
                         !.emitted = @ + (IF rate = {} THEN 0 ELSE 1),
                         !.read = TRUE]
    /\ UNCHANGED <<clock, faults, environment, phase, serving, scraper>>

\* Seeded fault: the baseline is dropped when a read fails.
PassFailsForgetting ==
    /\ phase = "running"
    /\ memory' = [memory EXCEPT !.tracker = {}]
    /\ UNCHANGED <<clock, faults, environment, phase, serving, scraper, history>>

\* Seeded fault: the counter is corrected for the samples that are cut off.
PassFailsCounting ==
    /\ phase = "running" /\ memory.samplesTotal > 0
    /\ memory' = [memory EXCEPT !.samplesTotal = @ - 1]
    /\ UNCHANGED <<clock, faults, environment, phase, serving, scraper, history>>

\* One whose read or parse fails: nothing of the collector is touched.
PassFails == phase = "running" /\ UNCHANGED vars

\* publish_snapshot; what readers make of its two stores is SnapshotStore's.
Publish ==
    /\ phase = "running"
    /\ memory' = [memory EXCEPT !.text = {memory.samplesTotal}]
    /\ UNCHANGED <<clock, faults, environment, phase, serving, scraper, history>>

\* GET /metrics of a scraper that sums up as Prometheus does: a counter that
\* has fallen was reset, and counts from zero.  An empty text shows no counter.
Scrape ==
    /\ serving
    /\ \E total \in memory.text :
        scraper' = [last |-> {total},
                    increase |-> scraper.increase
                        + (IF scraper.last = {} THEN 0
                           ELSE LET last == CHOOSE n \in scraper.last : TRUE
                                IN  IF total >= last THEN total - last ELSE total)]
    /\ UNCHANGED <<clock, faults, environment, process, history>>

Next ==
    \/ \E k \in 0..1 : Fault(k)
    \/ Disturb \/ Start \/ LoadFails \/ Bind \/ BindFails \/ Restart
    \/ Crash \/ Return \/ Terminate
    \/ Pass \/ PassFails \/ Publish \/ Scrape

\* main() goes through its start, the supervisor restarts what has failed (five
\* seconds apart, which its limit of starts allows), and snapshots go on, as
\* SamplingLoop shows.  Nothing is assumed of the environment here.
Fairness ==
    /\ WF_vars(Start \/ LoadFails)
    /\ WF_vars(Bind \/ BindFails)
    /\ WF_vars(Restart)
    /\ WF_vars(Publish)

Spec == Init /\ [][Next]_vars /\ Fairness
-----------------------------------------------------------------------------
Memory == [tracker : SUBSET Reading, samplesTotal : Nat, text : SUBSET Nat]

TypeOK ==
    /\ clock \in Nat
    /\ faults \in Nat
    /\ {loadable, taken, serving, history.read, history.ended} \subseteq BOOLEAN
    /\ phase \in Phases
    /\ memory \in Memory
    /\ Cardinality(memory.tracker) <= 1
    /\ scraper \in [last : SUBSET Nat, increase : Nat]
    /\ {history.reported, history.skipped, history.emitted} \subseteq Nat

\* Every fault the kernel has counted by the latest reading was reported once,
\* wherever the process died and however often it came back, unless it fell
\* between two lives or before the first: a life without a baseline never takes
\* the counter for a delta, and reads that fail cost nothing (vmstat.rs:55).
Accounted ==
    /\ history.reported + history.skipped <= faults
    /\ \A p \in memory.tracker : history.reported + history.skipped = p.value

\* What a scraper computes from hires_exporter_samples_total, taking a fall for
\* a reset, is never more than the samples there were, although the counter
\* starts over with each life and scrapes see only some of its values.
IncreaseSound == scraper.increase <= history.emitted

\* Ready to be scraped, for a snapshot.
Up == serving /\ memory.text # {}

\* Whatever configurations, ports and crashes it has been through, the exporter
\* serves again and again once the configuration can be loaded, the port is left
\* to it and nothing kills it any more, unless it has ended in one of the ways
\* that its supervisor takes for success.
Recovers ==
    (<>[](loadable /\ ~ taken) /\ <>[][~ Crash]_vars /\ []~ history.ended) => []<>Up
=============================================================================
