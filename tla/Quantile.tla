------------------------------ MODULE Quantile ------------------------------
(***************************************************************************)
(* interpolated_quantile of src/aggregate.rs: from the values of a window, *)
(* as ExactWindow tallies them, to the number a scrape shows.              *)
(*                                                                         *)
(* A quantile is a whole number of percents, and a value is kept times     *)
(* Grid.  f64 has no exact product q * (len - 1): the rank is rounded to   *)
(* the nearest of Grid steps per unit, which lets it land on a whole       *)
(* number, as it may in f64.                                               *)
(***************************************************************************)
EXTENDS Integers, FiniteSets

Grid == 8

\* The values of the window one by one: the nth that is v is <<v, n>>.
Values(tally) == UNION {{v} \X (1..tally[v]) : v \in DOMAIN tally}

Size(tally) == Cardinality(Values(tally))

Below(tally, v) == Cardinality({x \in Values(tally) : x[1] <= v})

\* sorted[k]: the least value that more than k values do not exceed.
Sorted(tally, k) ==
    CHOOSE v \in DOMAIN tally :
        /\ Below(tally, v) > k
        /\ \A w \in DOMAIN tally : Below(tally, w) > k => v <= w

Nearest(m, n) == (2 * m + n) \div (2 * n)

\* rank, in steps of the grid.
Rank(len, q) == Nearest(q * (len - 1) * Grid, 100)

Floor(rank) == rank \div Grid
Ceil(rank) == (rank + Grid - 1) \div Grid

\* Seeded fault: the weights are swapped.
BetweenSwapped(low, high, frac) == low * frac + high * (Grid - frac)

Between(low, high, frac) == low * (Grid - frac) + high * frac

InterpolatedQuantile(tally, q) ==
    LET rank == Rank(Size(tally), q)
        lo   == Floor(rank)
        hi   == Ceil(rank)
    IN  IF lo = hi
        THEN Sorted(tally, lo) * Grid
        ELSE Between(Sorted(tally, lo), Sorted(tally, hi), rank - lo * Grid)
=============================================================================
