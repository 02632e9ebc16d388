----------------------------- MODULE RollingLog -----------------------------
(***************************************************************************)
(* What src/aggregate.rs promises: percentiles, over every configured      *)
(* rolling window, of every sample accepted so far.  The log of a series   *)
(* is never evicted here; a report counts the samples of the last w time   *)
(* units by looking at all of them.  The Aggregator module, which keeps    *)
(* only what it needs, is shown to implement this one.                     *)
(***************************************************************************)
EXTENDS ExactWindow

CONSTANTS
    Keys,        \* metric keys (name and labels)
    Values,      \* sample values
    Windows,     \* configured window lengths
    MaxSeries,   \* the max_series cap
    MinInstant   \* the earliest Instant the platform can represent

VARIABLES
    clock,       \* the monotonic clock
    stamp,       \* the time the samples of the latest pass are stamped with
    log,         \* per accepted key, every sample ever accepted
    dropped,     \* how many samples the cap has turned away
    report       \* the latest report: per key and window, a multiset of values

vars == <<clock, stamp, log, dropped, report>>

\* The samples of key k in the window of length w that ends now.
Recent(k, w) == {i \in DOMAIN log[k] : log[k][i].at >= clock - w}

\* The (key, window) pairs a report has: those with a sample in the window,
\* when the start of the window is an instant the platform can represent.
Reported ==
    {kw \in (DOMAIN log) \X Windows :
        clock - kw[2] >= MinInstant /\ Recent(kw[1], kw[2]) # {}}

Init ==
    /\ clock = 0
    /\ stamp = 0
    /\ log = <<>>
    /\ dropped = 0
    /\ report = <<>>

Tick ==
    /\ clock' = clock + 1
    /\ UNCHANGED <<stamp, log, dropped, report>>

Begin ==
    /\ stamp' = clock
    /\ UNCHANGED <<clock, log, dropped, report>>

Accept(k, v) ==
    /\ k \in DOMAIN log \/ Cardinality(DOMAIN log) < MaxSeries
    /\ log' = [j \in DOMAIN log \cup {k} |->
                 IF j # k THEN log[j]
                 ELSE Insert(IF k \in DOMAIN log THEN log[k] ELSE <<>>, stamp, v)]
    /\ UNCHANGED <<clock, stamp, dropped, report>>

Reject(k) ==
    /\ k \notin DOMAIN log
    /\ Cardinality(DOMAIN log) >= MaxSeries
    /\ dropped' = dropped + 1
    /\ UNCHANGED <<clock, stamp, log, report>>

Report ==
    /\ report' = [kw \in Reported |-> Tally(log[kw[1]], Recent(kw[1], kw[2]))]
    /\ UNCHANGED <<clock, stamp, log, dropped>>

Next ==
    \/ Tick
    \/ Begin
    \/ \E k \in Keys, v \in Values : Accept(k, v)
    \/ \E k \in Keys : Reject(k)
    \/ Report

Spec == Init /\ [][Next]_vars
=============================================================================
