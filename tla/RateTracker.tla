---------------------------- MODULE RateTracker ----------------------------
(***************************************************************************)
(* RateTracker of src/collector/mod.rs: what becomes of a cumulative       *)
(* kernel counter.  An Option is a set of at most one element; a rate is   *)
(* kept as the pair it is the quotient of, [delta, elapsed].               *)
(***************************************************************************)
EXTENDS Integers

Reading == [value : Nat, at : Nat]

\* Seeded fault: the difference is not taken.
RateOfTotal(prev, value, now) ==
    {[delta |-> value, elapsed |-> now - p.at] :
        p \in {q \in prev : now > q.at /\ value >= q.value}}

\* Seeded fault: a counter that falls is taken to have risen.
RateOfDistance(prev, value, now) ==
    {[delta |-> IF value >= p.value THEN value - p.value ELSE p.value - value,
      elapsed |-> now - p.at] : p \in {q \in prev : now > q.at}}

\* Seeded fault: the elapsed time is not looked at.
RateOfNoTime(prev, value, now) ==
    {[delta |-> value - p.value, elapsed |-> now - p.at] :
        p \in {q \in prev : value >= q.value}}

\* update: the rate since the previous reading.  There is none on the first
\* call, after a counter reset, or when no time has elapsed.
Rate(prev, value, now) ==
    {[delta |-> value - p.value, elapsed |-> now - p.at] :
        p \in {q \in prev : now > q.at /\ value >= q.value}}

\* Seeded fault: the first reading is kept for good.
RememberedFirst(prev, value, now) ==
    IF prev = {} THEN {[value |-> value, at |-> now]} ELSE prev

\* Seeded fault: only the time of the reading is brought up to date.
RememberedTime(prev, value, now) ==
    {[value |-> v, at |-> now] : v \in IF prev = {} THEN {value} ELSE {p.value : p \in prev}}

\* What the tracker remembers after update, whatever it has returned.
Remembered(prev, value, now) == {[value |-> value, at |-> now]}
=============================================================================
