---------------------------- MODULE ExactWindow ----------------------------
(***************************************************************************)
(* The exact percentile engine of src/aggregate.rs: the time-ordered       *)
(* (timestamp, value) points of one series.  A window is a sequence of     *)
(* records [at, value]; every operator is one method of ExactWindow.       *)
(*                                                                         *)
(* percentiles() sorts the values in the window and interpolates between   *)
(* them, so that its result depends only on how many times each value      *)
(* occurs.  That multiset (Tally) is what the model returns for it.        *)
(***************************************************************************)
EXTENDS Integers, Sequences, FiniteSets

\* How many times each value occurs among the points at the indices I.
Tally(points, I) ==
    [v \in {points[i].value : i \in I} |->
        Cardinality({i \in I : points[i].value = v})]

\* insert: push_back, whatever the timestamp.
Insert(points, at, value) == Append(points, [at |-> at, value |-> value])

\* The points that the pop_front loop of evict_before removes: it stops at
\* the first point that is not older than the cutoff.
Leading(points, cutoff) ==
    {i \in DOMAIN points : \A j \in 1..i : points[j].at < cutoff}

EvictBefore(points, cutoff) ==
    SubSeq(points, Cardinality(Leading(points, cutoff)) + 1, Len(points))

\* Seeded fault: a point right at the cutoff counts as older.
PartitionPointInclusive(points, cutoff) ==
    Cardinality({i \in DOMAIN points : points[i].at <= cutoff})

\* partition_point: the number of points older than the cutoff.
PartitionPoint(points, cutoff) ==
    Cardinality({i \in DOMAIN points : points[i].at < cutoff})

\* percentiles: the points from the partition point to the end; an empty
\* tally is the None of the code.
Percentiles(points, cutoff) ==
    Tally(points, (PartitionPoint(points, cutoff) + 1)..Len(points))
=============================================================================
