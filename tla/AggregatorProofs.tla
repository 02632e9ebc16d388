-------------------------- MODULE AggregatorProofs --------------------------
(***************************************************************************)
(* Theorems about Aggregator, for every set of keys, values and windows,   *)
(* every cap and every platform.  The invariant relates the points a       *)
(* series still holds to the log of all the points ever pushed to it: the  *)
(* series is a suffix of the log, and what is missing was evicted because  *)
(* it had left the longest window.                                         *)
(*                                                                         *)
(* First, what the operators of ExactWindow return for every sequence of   *)
(* points.                                                                 *)
(***************************************************************************)
EXTENDS Aggregator, FiniteSetTheorems, TLAPS

\* The elements of a sequence of points, one by one.
LEMMA PointTypes ==
    ASSUME NEW V, NEW points \in Seq([at : Nat, value : V])
    PROVE  /\ Len(points) \in Nat
           /\ DOMAIN points = 1..Len(points)
           /\ \A i \in 1..Len(points) :
                 /\ points[i] \in [at : Nat, value : V]
                 /\ points[i].at \in Nat
                 /\ points[i].value \in V
<1> DEFINE P == [at : Nat, value : V]
<1>1. points \in Seq(P)
  OBVIOUS
<1> HIDE DEF P
<1>3. /\ Len(points) \in Nat
      /\ DOMAIN points = 1..Len(points)
      /\ \A i \in 1..Len(points) : points[i] \in P
  BY <1>1
<1>2. \A x \in [at : Nat, value : V] : x.at \in Nat /\ x.value \in V
  OBVIOUS
<1> QED
  BY <1>3, <1>2 DEF P

\* Later points are not older than earlier ones.
Sorted(points) ==
    \A i, j \in DOMAIN points : i <= j => points[i].at <= points[j].at

\* A set of indices that is closed downwards is an initial segment, and its
\* length is its cardinality.
LEMMA InitialSegment ==
    ASSUME NEW n \in Nat, NEW A \in SUBSET (1..n),
           \A a \in A : \A b \in 1..a : b \in A
    PROVE  /\ Cardinality(A) \in 0..n
           /\ A = 1..Cardinality(A)
<1>1. IsFiniteSet(1..n) /\ Cardinality(1..n) = n
  BY FS_Interval
<1>2. IsFiniteSet(A) /\ Cardinality(A) \in Nat /\ Cardinality(A) <= n
  <2>1. IsFiniteSet(A) /\ Cardinality(A) <= Cardinality(1..n)
    BY <1>1, FS_Subset
  <2>2. Cardinality(A) \in Nat
    BY <2>1, FS_CardinalityType
  <2> QED
    BY <1>1, <2>1, <2>2
<1> DEFINE c == Cardinality(A)
<1>3. ASSUME NEW a \in A PROVE a <= c
  <2>1. a \in Nat /\ a >= 1
    OBVIOUS
  <2>2. 1..a \in SUBSET A
    OBVIOUS
  <2>3. Cardinality(1..a) = a
    BY <2>1, FS_Interval
  <2>4. Cardinality(1..a) <= c
    BY <1>2, <2>2, FS_Subset
  <2> QED
    BY <2>3, <2>4
<1>4. A \in SUBSET (1..c)
  BY <1>2, <1>3
<1>5. IsFiniteSet(1..c) /\ Cardinality(1..c) = c
  BY <1>2, FS_Interval
<1>6. A = 1..c
  BY <1>4, <1>5, FS_Subset
<1> QED
  BY <1>2, <1>6

\* evict_before removes a prefix, every point of which is older than the
\* cutoff, and leaves the rest in place; the new front is not older.
LEMMA EvictBeforeSuffix ==
    ASSUME NEW V, NEW points \in Seq([at : Nat, value : V]), NEW cutoff \in Int
    PROVE  LET kept == EvictBefore(points, cutoff)
               gone == Len(points) - Len(kept)
           IN  /\ kept \in Seq([at : Nat, value : V])
               /\ gone \in 0..Len(points)
               /\ \A i \in 1..gone : points[i].at < cutoff
               /\ \A i \in 1..Len(kept) : kept[i] = points[i + gone]
               /\ Len(kept) > 0 => kept[1].at >= cutoff
<1> DEFINE n == Len(points)
           A == Leading(points, cutoff)
           c == Cardinality(A)
           kept == EvictBefore(points, cutoff)
<1>1. /\ n \in Nat
      /\ DOMAIN points = 1..n
      /\ \A i \in 1..n : points[i] \in [at : Nat, value : V] /\ points[i].at \in Nat
  BY PointTypes
<1>2. A \in SUBSET (1..n) /\ \A a \in A : \A b \in 1..a : b \in A
  BY <1>1 DEF Leading
<1>3. c \in 0..n /\ A = 1..c
  BY <1>1, <1>2, InitialSegment
<1>4. kept = SubSeq(points, c + 1, n)
  BY DEF EvictBefore
<1> HIDE DEF A, n, c, kept
<1>5. /\ kept \in Seq([at : Nat, value : V])
      /\ Len(kept) = n - c
      /\ \A i \in 1..(n - c) : kept[i] = points[i + c]
  <2>1. \A i \in (c + 1)..n : points[i] \in [at : Nat, value : V]
    BY <1>1, <1>3
  <2>2. kept = [i \in 1..(n - c) |-> points[i + c]]
    BY <1>1, <1>3, <1>4 DEF n
  <2>3. \A i \in 1..(n - c) : points[i + c] \in [at : Nat, value : V]
    BY <1>1, <1>3, <2>1
  <2> QED
    BY <1>1, <1>3, <2>2, <2>3
<1>6. \A i \in 1..c : points[i].at < cutoff
  <2> TAKE i \in 1..c
  <2>1. i \in A
    BY <1>3
  <2> QED
    BY <2>1, <1>2, <1>1, <1>3 DEF A, Leading
<1>7. ASSUME n - c > 0 PROVE kept[1].at >= cutoff
  <2>1. kept[1] = points[c + 1] /\ c + 1 \in 1..n
    BY <1>1, <1>3, <1>5, <1>7
  <2>2. c + 1 \notin A
    BY <1>3
  <2>3. \E j \in 1..(c + 1) : ~ (points[j].at < cutoff)
    BY <2>1, <2>2, <1>1 DEF A, Leading
  <2>4. ~ (points[c + 1].at < cutoff)
    BY <2>3, <1>6, <1>3
  <2>5. points[c + 1].at \in Nat
    BY <2>1, <1>1
  <2> QED
    BY <2>1, <2>4, <2>5
<1> QED
  BY <1>1, <1>3, <1>5, <1>6, <1>7 DEF n, kept

\* partition_point of a time-ordered window separates the points older than
\* the cutoff from the others.
LEMMA PartitionPointSplits ==
    ASSUME NEW V, NEW points \in Seq([at : Nat, value : V]), NEW cutoff \in Int,
           Sorted(points)
    PROVE  /\ PartitionPoint(points, cutoff) \in 0..Len(points)
           /\ \A i \in DOMAIN points :
                 points[i].at < cutoff <=> i <= PartitionPoint(points, cutoff)
<1> DEFINE n == Len(points)
           A == {i \in DOMAIN points : points[i].at < cutoff}
           c == Cardinality(A)
<1>1. n \in Nat /\ DOMAIN points = 1..n /\ \A i \in 1..n : points[i].at \in Nat
  BY PointTypes
<1>2. ASSUME NEW a \in A, NEW b \in 1..a PROVE b \in A
  <2>1. a \in 1..n /\ b \in 1..n /\ b <= a /\ points[a].at < cutoff
    BY <1>1
  <2>2. points[b].at <= points[a].at
    BY <1>1, <2>1 DEF Sorted
  <2> QED
    BY <1>1, <2>1, <2>2
<1>3. A \in SUBSET (1..n)
  BY <1>1
<1>4. c \in 0..n /\ A = 1..c
  BY <1>1, <1>2, <1>3, InitialSegment
<1>5. PartitionPoint(points, cutoff) = c
  BY DEF PartitionPoint
<1>6. ASSUME NEW i \in DOMAIN points PROVE points[i].at < cutoff <=> i <= c
  <2>1. points[i].at < cutoff <=> i \in A
    OBVIOUS
  <2>2. i \in A <=> i <= c
    BY <1>1, <1>4
  <2> QED
    BY <2>1, <2>2
<1> QED
  BY <1>1, <1>4, <1>5, <1>6

\* The indices I, moved up.
Shifted(I, shift) == {i + shift : i \in I}

\* The points of p at the indices I are found shift places later in q.
Agree(p, q, I, shift) == \A i \in I : p[i] = q[i + shift]

\* Two sequences that agree on shifted indices have the same tally there.
LEMMA TallyShift ==
    \A p, q : \A I \in SUBSET Nat : \A shift \in Nat :
        IsFiniteSet(I) /\ Agree(p, q, I, shift)
        => Tally(p, I) = Tally(q, Shifted(I, shift))
<1> SUFFICES ASSUME NEW p, NEW q, NEW I \in SUBSET Nat, NEW shift \in Nat,
                    IsFiniteSet(I), Agree(p, q, I, shift)
             PROVE  Tally(p, I) = Tally(q, Shifted(I, shift))
  OBVIOUS
<1> DEFINE J == Shifted(I, shift)
<1>0. J = {i + shift : i \in I}
  BY DEF Shifted
<1> HIDE DEF J
<1> USE DEF Agree
<1>1. {p[i].value : i \in I} = {q[j].value : j \in J}
  BY <1>0
<1>2. ASSUME NEW v
      PROVE  Cardinality({i \in I : p[i].value = v})
               = Cardinality({j \in J : q[j].value = v})
  <2> DEFINE S == {i \in I : p[i].value = v}
             T == {j \in J : q[j].value = v}
             f == [i \in S |-> i + shift]
  <2>1. IsFiniteSet(S)
    <3>1. S \in SUBSET I
      OBVIOUS
    <3> QED
      BY <3>1, FS_Subset
  <2>2. f \in [S -> T]
    BY <1>0
  <2>3. \A a, b \in S : f[a] = f[b] => a = b
    OBVIOUS
  <2>4. ASSUME NEW t \in T PROVE \E s \in S : f[s] = t
    <3>1. PICK i \in I : t = i + shift
      BY <1>0
    <3>2. i \in S
      BY <3>1
    <3> QED
      BY <3>1, <3>2
  <2>5. f \in Bijection(S, T)
    <3> HIDE DEF S, T
    <3>1. DOMAIN f = S
      OBVIOUS
    <3> HIDE DEF f
    <3> QED
      BY <3>1, <2>2, <2>3, <2>4 DEF Bijection, Injection, Surjection, IsInjective
  <2>6. ExistsBijection(S, T)
    BY <2>5 DEF ExistsBijection
  <2> QED
    BY <2>1, <2>6, FS_Bijection
<1> QED
  BY <1>1, <1>2 DEF Tally, J
-----------------------------------------------------------------------------
\* A series s and its log l at the time of pass st.
SeriesInv(s, l, st) ==
    /\ s \in Seq(Point)
    /\ l \in Seq(Point)
    /\ Len(s) <= Len(l)
    /\ \A i \in 1..Len(s) : s[i] = l[i + (Len(l) - Len(s))]
    /\ \A i \in 1..(Len(l) - Len(s)) : l[i].at < st - MaxWindow
    /\ \A i, j \in 1..Len(l) : i <= j => l[i].at <= l[j].at
    /\ \A i \in 1..Len(l) : l[i].at <= st
    /\ \A i, j \in 1..Len(s) : s[j].at - s[i].at <= MaxWindow
    /\ \A i \in 1..(Len(l) - Len(s)) : l[i].at < l[Len(l)].at - MaxWindow

Inv ==
    /\ TypeOK
    /\ stamp <= clock
    /\ \A k \in DOMAIN series : SeriesInv(series[k], log[k], stamp)
    /\ CapIsFinal

\* MaxWindow is a duration like the windows it is the longest of.
LEMMA MaxWindowType == MaxWindow \in Nat
  BY WindowsAssumption

\* A pushed point goes to the end.
LEMMA InsertShape ==
    ASSUME NEW s \in Seq(Point), NEW st \in Nat, NEW v \in Values,
           NEW t, t = Insert(s, st, v)
    PROVE  /\ t \in Seq(Point)
           /\ Len(t) = Len(s) + 1
           /\ \A i \in 1..Len(s) : t[i] = s[i]
           /\ t[Len(s) + 1] = [at |-> st, value |-> v]
<1> DEFINE p == [at |-> st, value |-> v]
<1>1. p \in Point /\ p.at = st
  BY DEF Point
<1>2. Insert(s, st, v) = Append(s, p)
  BY DEF Insert
<1> HIDE DEF p
<1>3. /\ Append(s, p) \in Seq(Point)
      /\ Len(Append(s, p)) = Len(s) + 1
      /\ \A i \in 1..Len(s) : Append(s, p)[i] = s[i]
      /\ Append(s, p)[Len(s) + 1] = p
  BY <1>1
<1> QED
  BY <1>2, <1>3 DEF p

\* A pushed point carries the time it was pushed at.
LEMMA InsertStamp ==
    ASSUME NEW s \in Seq(Point), NEW st \in Nat, NEW v \in Values,
           NEW t, t = Insert(s, st, v)
    PROVE  t[Len(s) + 1].at = st
<1> DEFINE p == [at |-> st, value |-> v]
<1>1. p.at = st
  OBVIOUS
<1>2. t[Len(s) + 1] = p
  BY InsertShape
<1> HIDE DEF p
<1> QED
  BY <1>1, <1>2

\* Elements of a sequence of points.
LEMMA AtTypes ==
    ASSUME NEW s \in Seq(Point)
    PROVE  /\ Len(s) \in Nat
           /\ DOMAIN s = 1..Len(s)
           /\ \A i \in 1..Len(s) : s[i] \in Point /\ s[i].at \in Nat
  BY PointTypes DEF Point

\* A new series.
LEMMA FreshSeries ==
    ASSUME NEW e \in Seq(Point), NEW st \in Nat, NEW v \in Values,
           NEW t, t = Insert(e, st, v)
    PROVE  Len(e) = 0 => SeriesInv(t, t, st)
<1>1. t \in Seq(Point) /\ Len(t) = Len(e) + 1
  BY InsertShape
<1>2. t[Len(e) + 1].at = st
  BY InsertStamp
<1> HAVE Len(e) = 0
<1>3. t \in Seq(Point) /\ Len(t) = 1 /\ t[1].at = st
  BY <1>1, <1>2
<1> QED
  BY <1>3, MaxWindowType DEF SeriesInv

\* Time passing keeps a series in order.
LEMMA LaterSeries ==
    ASSUME NEW s, NEW l, NEW st \in Nat, NEW later \in Nat, st <= later,
           SeriesInv(s, l, st)
    PROVE  SeriesInv(s, l, later)
<1>1. /\ Len(l) \in Nat /\ Len(s) \in Nat /\ Len(s) <= Len(l)
      /\ \A i \in 1..Len(l) : l[i].at \in Nat
  BY AtTypes DEF SeriesInv
<1>2. \A i \in 1..(Len(l) - Len(s)) : l[i].at < later - MaxWindow
  <2> TAKE i \in 1..(Len(l) - Len(s))
  <2>1. i \in 1..Len(l)
    BY <1>1
  <2>2. l[i].at < st - MaxWindow
    BY DEF SeriesInv
  <2> QED
    BY <1>1, <2>1, <2>2, MaxWindowType
<1>3. \A i \in 1..Len(l) : l[i].at <= later
  BY <1>1 DEF SeriesInv
<1> QED
  BY <1>2, <1>3 DEF SeriesInv

\* kept is what is left of s when only points older than the cutoff leave,
\* all from the front, until the front is not older.
Trimmed(s, kept, cutoff) ==
    /\ kept \in Seq(Point)
    /\ Len(kept) <= Len(s)
    /\ \A i \in 1..(Len(s) - Len(kept)) : s[i].at < cutoff
    /\ \A i \in 1..Len(kept) : kept[i] = s[i + (Len(s) - Len(kept))]
    /\ Len(kept) > 0 => kept[1].at >= cutoff

\* Eviction trims, also where the cutoff is not representable: every stamp is
\* then within the longest window of any later one.
LEMMA EvictedTrims ==
    ASSUME NEW s \in Seq(Point), NEW st \in Nat
    PROVE  Trimmed(s, IF Representable(st - MaxWindow)
                      THEN EvictBefore(s, st - MaxWindow) ELSE s,
                   st - MaxWindow)
<1>1. Len(s) \in Nat /\ \A i \in 1..Len(s) : s[i].at \in Nat
  BY AtTypes
<1>2. MaxWindow \in Nat /\ st - MaxWindow \in Int
  BY MaxWindowType
<1>3. CASE Representable(st - MaxWindow)
  <2> DEFINE kept == EvictBefore(s, st - MaxWindow)
  <2>1. /\ kept \in Seq(Point)
        /\ Len(s) - Len(kept) \in 0..Len(s)
        /\ \A i \in 1..(Len(s) - Len(kept)) : s[i].at < st - MaxWindow
        /\ \A i \in 1..Len(kept) : kept[i] = s[i + (Len(s) - Len(kept))]
        /\ Len(kept) > 0 => kept[1].at >= st - MaxWindow
    BY <1>2, EvictBeforeSuffix DEF Point
  <2> HIDE DEF kept
  <2>2. Len(kept) <= Len(s)
    <3>1. Len(kept) \in Nat
      BY <2>1
    <3> QED
      BY <1>1, <2>1, <3>1
  <2>3. Trimmed(s, kept, st - MaxWindow)
    BY <2>1, <2>2 DEF Trimmed
  <2> QED
    BY <1>3, <2>3 DEF kept
<1>4. CASE ~ Representable(st - MaxWindow)
  <2>1. st - MaxWindow < 0
    BY <1>2, <1>4, LimitsAssumption DEF Representable
  <2>2. Len(s) > 0 => s[1].at >= st - MaxWindow
    BY <1>1, <1>2, <2>1
  <2>3. Len(s) - Len(s) = 0
    BY <1>1
  <2>4. \A i \in 1..Len(s) : i + 0 = i
    BY <1>1
  <2>5. Trimmed(s, s, st - MaxWindow)
    BY <2>2, <2>3, <2>4, <1>1 DEF Trimmed
  <2> QED
    BY <1>4, <2>5
<1> QED
  BY <1>3, <1>4

\* insert of a sample of an existing series: eviction, then the push.
LEMMA PushedSeries ==
    ASSUME NEW s, NEW l, NEW st \in Nat, NEW v \in Values,
           SeriesInv(s, l, st),
           NEW kept, Trimmed(s, kept, st - MaxWindow)
    PROVE  SeriesInv(Insert(kept, st, v), Insert(l, st, v), st)
<1> DEFINE gone == Len(s) - Len(kept)
           before == Len(l) - Len(s)
           t == Insert(kept, st, v)
           m == Insert(l, st, v)
<1>1. /\ s \in Seq(Point) /\ l \in Seq(Point)
      /\ Len(s) \in Nat /\ Len(l) \in Nat /\ Len(s) <= Len(l)
  BY DEF SeriesInv
<1>2. /\ \A i \in 1..Len(l) : l[i].at \in Nat
      /\ \A i \in 1..Len(s) : s[i].at \in Nat
  BY <1>1, AtTypes
<1>3. MaxWindow \in Nat /\ st - MaxWindow \in Int
  BY MaxWindowType
<1>4. /\ kept \in Seq(Point)
      /\ gone \in 0..Len(s)
      /\ \A i \in 1..gone : s[i].at < st - MaxWindow
      /\ \A i \in 1..Len(kept) : kept[i] = s[i + gone]
      /\ Len(kept) > 0 => kept[1].at >= st - MaxWindow
  <2>1. kept \in Seq(Point) /\ Len(kept) \in Nat /\ Len(kept) <= Len(s)
    BY DEF Trimmed
  <2> QED
    BY <1>1, <2>1 DEF Trimmed
<1> HIDE DEF gone, before, t, m
<1>5. /\ t \in Seq(Point) /\ Len(t) = Len(kept) + 1
      /\ \A i \in 1..Len(kept) : t[i] = kept[i]
      /\ t[Len(kept) + 1] = [at |-> st, value |-> v]
      /\ t[Len(kept) + 1].at = st
  BY <1>4, InsertShape, InsertStamp DEF t
<1>6. /\ m \in Seq(Point) /\ Len(m) = Len(l) + 1
      /\ \A i \in 1..Len(l) : m[i] = l[i]
      /\ m[Len(l) + 1] = [at |-> st, value |-> v]
      /\ m[Len(l) + 1].at = st
  BY <1>1, InsertShape, InsertStamp DEF m
<1>7. /\ Len(kept) \in Nat /\ gone \in Nat /\ before \in Nat
      /\ Len(s) = Len(kept) + gone
      /\ Len(l) = Len(kept) + (before + gone)
      /\ Len(t) = Len(kept) + 1
      /\ Len(m) = Len(l) + 1
      /\ Len(m) - Len(t) = before + gone
  <2>1. Len(kept) \in Nat /\ gone \in Nat /\ before \in Nat
    BY <1>1, <1>4 DEF before
  <2>2. Len(s) = Len(kept) + gone /\ Len(l) = Len(s) + before
    BY <1>1, <2>1 DEF gone, before
  <2>3. Len(t) = Len(kept) + 1 /\ Len(m) = Len(l) + 1
    BY <1>5, <1>6
  <2> QED
    BY <2>1, <2>2, <2>3
<1>8. /\ \A i \in 1..Len(s) : s[i] = l[i + before]
      /\ \A i \in 1..before : l[i].at < st - MaxWindow
      /\ \A i, j \in 1..Len(l) : i <= j => l[i].at <= l[j].at
      /\ \A i \in 1..Len(l) : l[i].at <= st
  BY DEF SeriesInv, before
<1>9. ASSUME NEW i \in 1..Len(kept)
      PROVE  i + (before + gone) \in 1..Len(l) /\ kept[i] = l[i + (before + gone)]
  <2>1. /\ i + gone \in 1..Len(s)
        /\ i + (before + gone) \in 1..Len(l)
        /\ (i + gone) + before = i + (before + gone)
    BY <1>7
  <2>2. kept[i] = s[i + gone]
    BY <1>4
  <2>3. s[i + gone] = l[(i + gone) + before]
    BY <1>8, <2>1
  <2> QED
    BY <2>1, <2>2, <2>3
<1>10. ASSUME NEW i \in 1..Len(t) PROVE t[i] = m[i + (before + gone)]
  <2>1. i \in 1..Len(kept) \/ i = Len(kept) + 1
    BY <1>7
  <2>2. CASE i \in 1..Len(kept)
    <3>1. t[i] = kept[i]
      BY <1>5, <2>2
    <3>2. m[i + (before + gone)] = l[i + (before + gone)]
      BY <1>6, <1>9, <2>2
    <3> QED
      BY <1>9, <2>2, <3>1, <3>2
  <2>3. CASE i = Len(kept) + 1
    <3>1. i + (before + gone) = Len(l) + 1
      BY <1>7, <2>3
    <3> QED
      BY <1>5, <1>6, <2>3, <3>1
  <2> QED
    BY <2>1, <2>2, <2>3
<1>11. ASSUME NEW i \in 1..(before + gone) PROVE m[i].at < st - MaxWindow
  <2>1. i \in 1..Len(l)
    BY <1>7
  <2>2. m[i] = l[i]
    BY <1>6, <2>1
  <2>3. i \in 1..before \/ i - before \in 1..gone
    BY <1>7
  <2>4. CASE i \in 1..before
    BY <1>8, <2>2, <2>4
  <2>5. CASE i - before \in 1..gone
    <3>1. i - before \in 1..Len(s) /\ (i - before) + before = i
      BY <1>7, <2>5
    <3>2. s[i - before] = l[i]
      BY <1>8, <3>1
    <3> QED
      BY <1>4, <2>2, <2>5, <3>2
  <2> QED
    BY <2>3, <2>4, <2>5
<1>12. ASSUME NEW i \in 1..Len(m) PROVE i \in 1..Len(l) \/ i = Len(l) + 1
  BY <1>1, <1>7
<1>13. ASSUME NEW i \in 1..Len(m) PROVE m[i].at <= st
  BY <1>6, <1>8, <1>12
<1>14. ASSUME NEW i \in 1..Len(m), NEW j \in 1..Len(m), i <= j
       PROVE  m[i].at <= m[j].at
  <2>1. CASE j = Len(l) + 1
    BY <1>6, <1>13, <2>1
  <2>2. CASE j \in 1..Len(l)
    <3>1. i \in 1..Len(l)
      BY <1>1, <1>14, <2>2
    <3> QED
      BY <1>6, <1>8, <1>14, <2>2, <3>1
  <2> QED
    BY <1>12, <2>1, <2>2
<1>15. ASSUME NEW i \in 1..Len(t)
       PROVE  t[i].at \in Nat /\ t[i].at >= st - MaxWindow /\ t[i].at <= st
  <2>1. i \in 1..Len(kept) \/ i = Len(kept) + 1
    BY <1>7
  <2>2. CASE i = Len(kept) + 1
    BY <1>3, <1>5, <2>2
  <2>3. CASE i \in 1..Len(kept)
    <3>1. 1 \in 1..Len(kept) /\ 1 + (before + gone) <= i + (before + gone)
      BY <1>7, <2>3
    <3>2. kept[1].at <= kept[i].at /\ kept[i].at <= st
      BY <1>8, <1>9, <2>3, <3>1
    <3>3. kept[i].at \in Nat /\ kept[1].at \in Nat /\ kept[1].at >= st - MaxWindow
      BY <1>4, <1>7, <2>3, <3>1, AtTypes
    <3>4. t[i] = kept[i]
      BY <1>5, <2>3
    <3> QED
      BY <1>3, <3>2, <3>3, <3>4
  <2> QED
    BY <2>1, <2>2, <2>3
<1>16. \A i, j \in 1..Len(t) : t[j].at - t[i].at <= MaxWindow
  BY <1>3, <1>15
<1>17. Len(t) <= Len(m)
  BY <1>7
<1>18. /\ \A i \in 1..Len(t) : t[i] = m[i + (Len(m) - Len(t))]
       /\ \A i \in 1..(Len(m) - Len(t)) : m[i].at < st - MaxWindow
  BY <1>7, <1>10, <1>11
<1>19. m[Len(m)].at = st
  BY <1>6, <1>7
<1>20. \A i \in 1..(Len(m) - Len(t)) : m[i].at < m[Len(m)].at - MaxWindow
  BY <1>18, <1>19
<1>21. SeriesInv(t, m, st)
  BY <1>5, <1>6, <1>13, <1>14, <1>16, <1>17, <1>18, <1>20 DEF SeriesInv
<1> QED
  BY <1>21 DEF t, m

\* What a snapshot reads from a series is what a scan of its whole log finds.
LEMMA SnapshotExact ==
    ASSUME NEW s, NEW l, NEW st \in Nat, NEW now \in Nat, st <= now,
           SeriesInv(s, l, st), NEW w \in Windows,
           NEW R, \A i : i \in R <=> i \in DOMAIN l /\ l[i].at >= now - w
    PROVE  /\ PartitionPoint(s, now - w) < Len(s) <=> R # {}
           /\ Percentiles(s, now - w) = Tally(l, R)
<1> DEFINE cutoff == now - w
           p == PartitionPoint(s, cutoff)
           gone == Len(l) - Len(s)
           I == (p + 1)..Len(s)
<1>1. /\ s \in Seq(Point) /\ l \in Seq(Point)
      /\ Len(s) \in Nat /\ Len(l) \in Nat /\ Len(s) <= Len(l)
      /\ DOMAIN s = 1..Len(s) /\ DOMAIN l = 1..Len(l)
  BY AtTypes DEF SeriesInv
<1>2. /\ \A i \in 1..Len(l) : l[i].at \in Nat
      /\ \A i \in 1..Len(s) : s[i].at \in Nat
  BY <1>1, AtTypes
<1>3. MaxWindow \in Nat /\ w \in Nat /\ w <= MaxWindow /\ cutoff \in Int
  BY MaxWindowType, WindowsAssumption
<1>4. gone \in Nat /\ Len(l) = Len(s) + gone
  BY <1>1
<1>5. /\ \A i \in 1..Len(s) : s[i] = l[i + gone]
      /\ \A i \in 1..gone : l[i].at < st - MaxWindow
      /\ \A i, j \in 1..Len(l) : i <= j => l[i].at <= l[j].at
  BY DEF SeriesInv
<1> HIDE DEF gone
<1>6. Sorted(s)
  <2> SUFFICES ASSUME NEW i \in 1..Len(s), NEW j \in 1..Len(s), i <= j
               PROVE  s[i].at <= s[j].at
    BY <1>1 DEF Sorted
  <2>1. i + gone \in 1..Len(l) /\ j + gone \in 1..Len(l) /\ i + gone <= j + gone
    BY <1>1, <1>4
  <2> QED
    BY <1>5, <2>1
<1>7. /\ p \in 0..Len(s)
      /\ \A i \in 1..Len(s) : s[i].at < cutoff <=> i <= p
  BY <1>1, <1>3, <1>6, PartitionPointSplits DEF Point
<1> HIDE DEF p, cutoff
<1>8. \A i : i \in R <=> i \in 1..Len(l) /\ l[i].at >= cutoff
  BY <1>1 DEF cutoff
<1>9. R = Shifted(I, gone)
  <2>1. ASSUME NEW i \in I PROVE i + gone \in R
    <3>1. i \in 1..Len(s) /\ ~ (i <= p) /\ i + gone \in 1..Len(l)
      BY <1>1, <1>4, <1>7
    <3>2. s[i] = l[i + gone] /\ ~ (s[i].at < cutoff) /\ s[i].at \in Nat
      BY <1>2, <1>5, <1>7, <3>1
    <3>3. l[i + gone].at >= cutoff
      BY <1>3, <3>2
    <3> QED
      BY <1>8, <3>1, <3>3
  <2>2. ASSUME NEW r \in R PROVE \E i \in I : r = i + gone
    <3>1. r \in 1..Len(l) /\ l[r].at >= cutoff /\ l[r].at \in Nat
      BY <1>2, <1>8
    <3>2. r \notin 1..gone
      <4>1. cutoff >= st - MaxWindow
        BY <1>3 DEF cutoff
      <4>2. st - MaxWindow \in Int
        BY <1>3
      <4> QED
        BY <1>3, <1>5, <3>1, <4>1, <4>2
    <3>3. r - gone \in 1..Len(s) /\ r = (r - gone) + gone
      BY <1>1, <1>4, <3>1, <3>2
    <3>4. s[r - gone] = l[r]
      BY <1>5, <3>3
    <3>5. ~ (s[r - gone].at < cutoff)
      BY <1>3, <3>1, <3>4
    <3>6. r - gone \in I
      BY <1>1, <1>7, <3>3, <3>5
    <3> QED
      BY <3>3, <3>6
  <2> QED
    BY <2>1, <2>2 DEF Shifted
<1>10. p < Len(s) <=> R # {}
  <2>1. p < Len(s) <=> I # {}
    BY <1>1, <1>7
  <2> QED
    BY <1>9, <2>1 DEF Shifted
<1>11. Tally(s, I) = Tally(l, R)
  <2>1. I \in SUBSET (1..Len(s)) /\ I \in SUBSET Nat
    BY <1>1, <1>7
  <2>0. IsFiniteSet(I)
    <3>1. IsFiniteSet(1..Len(s))
      BY <1>1, FS_Interval
    <3> HIDE DEF I
    <3> QED
      BY <2>1, <3>1, FS_Subset
  <2>2. Agree(s, l, I, gone)
    BY <1>5, <2>1 DEF Agree
  <2> HIDE DEF I
  <2> QED
    BY <1>4, <1>9, <2>0, <2>1, <2>2, TallyShift
<1>12. Percentiles(s, now - w) = Tally(s, I)
  BY DEF Percentiles, p, cutoff
<1> QED
  BY <1>10, <1>11, <1>12 DEF p, cutoff

\* The next sample of a batch.
LEMMA NextSample ==
    ASSUME pending \in Seq(Sample), pending # <<>>
    PROVE  /\ Head(pending).key \in Keys
           /\ Head(pending).value \in Values
           /\ Tail(pending) \in Seq(Sample)
<1>1. Head(pending) \in Sample /\ Tail(pending) \in Seq(Sample)
  OBVIOUS
<1>2. \A x \in Sample : x.key \in Keys /\ x.value \in Values
  BY DEF Sample
<1> QED
  BY <1>1, <1>2

\* The keys of the table are finitely many.
LEMMA FiniteKeys ==
    ASSUME NEW S \in SUBSET Keys
    PROVE  IsFiniteSet(S) /\ Cardinality(S) \in Nat
  BY KeysAssumption, FS_Subset, FS_CardinalityType

\* One more key makes a set larger by one at most.
LEMMA AddedKey ==
    ASSUME NEW S, IsFiniteSet(S), NEW k
    PROVE  Cardinality(S \cup {k}) <= Cardinality(S) + 1
<1>1. Cardinality(S) \in Nat
  BY FS_CardinalityType
<1>2. CASE k \in S
  <2>1. S \cup {k} = S
    BY <1>2
  <2> QED
    BY <1>1, <2>1
<1>3. CASE k \notin S
  <2>1. Cardinality(S \cup {k}) = Cardinality(S) + 1
    BY <1>3, FS_AddElement
  <2> QED
    BY <1>1, <2>1
<1> QED
  BY <1>2, <1>3

\* The inductive invariant, from which everything below follows.
THEOREM Invariance == Spec => []Inv
<1>1. Init => Inv
  <2> SUFFICES ASSUME Init PROVE Inv
    OBVIOUS
  <2>1. DOMAIN series = {} /\ DOMAIN log = {}
    BY DEF Init
  <2>2. series \in [DOMAIN series -> Seq(Point)] /\ log \in [DOMAIN log -> Seq(Point)]
    BY <2>1 DEF Init
  <2>3. pending \in Seq(Sample)
    BY DEF Init
  <2>4. TypeOK
    BY <2>1, <2>2, <2>3 DEF Init, TypeOK
  <2>5. CapIsFinal
    BY <2>1, FS_EmptySet, LimitsAssumption DEF Init, CapIsFinal
  <2> QED
    BY <2>1, <2>4, <2>5 DEF Init, Inv
<1>2. Inv /\ [Next]_vars => Inv'
  <2> SUFFICES ASSUME Inv, [Next]_vars PROVE Inv'
    OBVIOUS
  <2>0. /\ TypeOK /\ stamp <= clock /\ CapIsFinal
        /\ \A k \in DOMAIN series : SeriesInv(series[k], log[k], stamp)
    BY DEF Inv
  <2>00. series \in [DOMAIN series -> Seq(Point)] /\ log \in [DOMAIN series -> Seq(Point)]
    BY <2>0 DEF TypeOK
  <2>1. CASE Tick
    <3>1. TypeOK'
      BY <2>0, <2>1 DEF Tick, TypeOK
    <3>2. CapIsFinal'
      BY <2>0, <2>1 DEF Tick, CapIsFinal
    <3>3. (stamp <= clock)'
      BY <2>0, <2>1 DEF Tick, TypeOK
    <3> QED
      BY <2>0, <2>1, <3>1, <3>2, <3>3 DEF Tick, Inv
  <2>2. ASSUME NEW n \in 0..MaxBatch, NEW batch \in [1..n -> Sample], Begin(batch)
        PROVE  Inv'
    <3>1. batch \in Seq(Sample)
      BY LimitsAssumption
    <3>2. TypeOK'
      BY <2>0, <2>2, <3>1 DEF Begin, TypeOK
    <3>3. CapIsFinal'
      BY <2>0, <2>2 DEF Begin, CapIsFinal
    <3>4. ASSUME NEW k \in DOMAIN series PROVE SeriesInv(series[k], log[k], clock)
      BY <2>0, LaterSeries DEF TypeOK
    <3> QED
      BY <2>0, <2>2, <3>2, <3>3, <3>4 DEF Begin, Inv, TypeOK
  <2> DEFINE k == Head(pending).key
             v == Head(pending).value
  <2>3. CASE Occupied
    <3> DEFINE kept == Evicted(k)
               t == Insert(kept, stamp, v)
               m == Insert(log[k], stamp, v)
    <3>1. /\ k \in Keys /\ v \in Values /\ pending' \in Seq(Sample)
          /\ k \in DOMAIN series
      BY <2>0, <2>3, NextSample DEF Occupied, TypeOK
    <3>2. SeriesInv(series[k], log[k], stamp) /\ stamp \in Nat
      BY <2>0, <3>1 DEF TypeOK
    <3>3. Trimmed(series[k], kept, stamp - MaxWindow)
      BY <3>2, EvictedTrims DEF Evicted, SeriesInv
    <3>4. SeriesInv(t, m, stamp)
      BY <3>1, <3>2, <3>3, PushedSeries
    <3>5. series' = Stored(series, k, t) /\ log' = Stored(log, k, m)
      BY <2>3 DEF Occupied
    <3> HIDE DEF k, v, t, m
    <3>6. t \in Seq(Point) /\ m \in Seq(Point)
      BY <3>4 DEF SeriesInv
    <3>7. /\ DOMAIN series' = DOMAIN series
          /\ series' \in [DOMAIN series -> Seq(Point)]
          /\ series'[k] = t
          /\ \A j \in DOMAIN series : j # k => series'[j] = series[j]
      BY <2>00, <3>1, <3>5, <3>6 DEF Stored
    <3>8. /\ DOMAIN log' = DOMAIN series
          /\ log' \in [DOMAIN series -> Seq(Point)]
          /\ log'[k] = m
          /\ \A j \in DOMAIN series : j # k => log'[j] = log[j]
      BY <2>00, <3>1, <3>5, <3>6 DEF Stored
    <3>9. UNCHANGED <<clock, stamp, droppedSeries, rejected>>
      BY <2>3 DEF Occupied
    <3>10. TypeOK'
      BY <2>0, <3>1, <3>7, <3>8, <3>9 DEF TypeOK
    <3>11. CapIsFinal'
      BY <2>0, <3>7, <3>9 DEF CapIsFinal
    <3>12. \A j \in DOMAIN series : SeriesInv(series'[j], log'[j], stamp)
      BY <2>0, <3>4, <3>7, <3>8
    <3> QED
      BY <2>0, <3>7, <3>9, <3>10, <3>11, <3>12 DEF Inv
  <2>4. CASE Vacant
    <3> DEFINE e == <<>>
               t == Insert(e, stamp, v)
    <3>1. /\ k \in Keys /\ v \in Values /\ pending' \in Seq(Sample)
          /\ k \notin DOMAIN series /\ Cardinality(DOMAIN series) < MaxSeries
      BY <2>0, <2>4, NextSample DEF Vacant, HasRoom, TypeOK
    <3>2. series' = Stored(series, k, t) /\ log' = Stored(log, k, t)
      BY <2>4 DEF Vacant, HasRoom
    <3>3. e \in Seq(Point) /\ Len(e) = 0 /\ stamp \in Nat
      BY <2>0 DEF TypeOK
    <3>4. t = Insert(e, stamp, v)
      OBVIOUS
    <3> HIDE DEF e, k, v, t
    <3>5. SeriesInv(t, t, stamp)
      BY <3>1, <3>3, <3>4, FreshSeries
    <3>6. t \in Seq(Point)
      BY <3>5 DEF SeriesInv
    <3>7. /\ DOMAIN series' = DOMAIN series \cup {k}
          /\ series' \in [DOMAIN series \cup {k} -> Seq(Point)]
          /\ series'[k] = t
          /\ \A j \in DOMAIN series : j # k => series'[j] = series[j]
      BY <2>00, <3>2, <3>6 DEF Stored
    <3>8. /\ DOMAIN log' = DOMAIN series \cup {k}
          /\ log' \in [DOMAIN series \cup {k} -> Seq(Point)]
          /\ log'[k] = t
          /\ \A j \in DOMAIN series : j # k => log'[j] = log[j]
      BY <2>00, <3>2, <3>6 DEF Stored
    <3>9. UNCHANGED <<clock, stamp, droppedSeries, rejected>>
      BY <2>4 DEF Vacant, HasRoom
    <3>10. TypeOK'
      BY <2>0, <3>1, <3>7, <3>8, <3>9 DEF TypeOK
    <3>11. CapIsFinal'
      <4>1. /\ IsFiniteSet(DOMAIN series)
            /\ Cardinality(DOMAIN series) \in Nat
        BY <2>0, FiniteKeys DEF TypeOK
      <4>2. Cardinality(DOMAIN series \cup {k}) = Cardinality(DOMAIN series) + 1
        BY <3>1, <4>1, FS_AddElement
      <4>3. rejected = {}
        BY <2>0, <3>1, <4>1, LimitsAssumption DEF CapIsFinal
      <4>4. Cardinality(DOMAIN series') <= MaxSeries
        BY <3>1, <3>7, <4>1, <4>2, LimitsAssumption
      <4>5. Cardinality(rejected') <= droppedSeries'
        BY <2>0, <3>9 DEF CapIsFinal
      <4> QED
        BY <3>9, <4>3, <4>4, <4>5 DEF CapIsFinal
    <3>12. \A j \in DOMAIN series \cup {k} : SeriesInv(series'[j], log'[j], stamp)
      BY <2>0, <3>5, <3>7, <3>8
    <3> QED
      BY <2>0, <3>7, <3>9, <3>10, <3>11, <3>12 DEF Inv
  <2>5. CASE Full
    <3>0. Cardinality(DOMAIN series) \in Nat /\ MaxSeries \in Nat
      BY <2>0, FiniteKeys, LimitsAssumption DEF TypeOK
    <3>1. /\ k \in Keys /\ pending' \in Seq(Sample)
          /\ k \notin DOMAIN series /\ Cardinality(DOMAIN series) >= MaxSeries
          /\ rejected' = rejected \cup {k}
          /\ droppedSeries' = droppedSeries + 1
          /\ UNCHANGED <<clock, stamp, series, log>>
      BY <2>0, <2>5, <3>0, NextSample DEF Full, HasRoom, TypeOK
    <3> HIDE DEF k
    <3>2. TypeOK'
      BY <2>0, <3>1 DEF TypeOK
    <3>3. CapIsFinal'
      <4>1. Cardinality(DOMAIN series) \in Nat
        BY <2>0, FiniteKeys DEF TypeOK
      <4>2. Cardinality(DOMAIN series) = MaxSeries
        BY <2>0, <3>1, <4>1, LimitsAssumption DEF CapIsFinal
      <4>3. IsFiniteSet(rejected) /\ Cardinality(rejected) \in Nat
        BY <2>0, FiniteKeys DEF TypeOK
      <4>4. Cardinality(rejected \cup {k}) <= Cardinality(rejected) + 1
        BY <4>3, AddedKey
      <4>5. rejected \cup {k} \in SUBSET Keys /\ droppedSeries \in Nat
        BY <2>0, <3>1 DEF TypeOK
      <4>6. Cardinality(rejected \cup {k}) \in Nat
        BY <4>5, FiniteKeys
      <4>7. Cardinality(rejected) <= droppedSeries
        BY <2>0 DEF CapIsFinal
      <4>8. Cardinality(rejected') <= droppedSeries'
        BY <3>1, <4>3, <4>4, <4>5, <4>6, <4>7
      <4> QED
        BY <2>0, <3>1, <4>2, <4>8 DEF CapIsFinal
    <3> QED
      BY <2>0, <3>1, <3>2, <3>3 DEF Inv
  <2>6. CASE Snapshot
    <3>1. TypeOK'
      BY <2>0, <2>6 DEF Snapshot, TypeOK
    <3>2. CapIsFinal'
      BY <2>0, <2>6 DEF Snapshot, CapIsFinal
    <3> QED
      BY <2>0, <2>6, <3>1, <3>2 DEF Snapshot, Inv
  <2>7. CASE UNCHANGED vars
    <3>1. TypeOK'
      BY <2>0, <2>7 DEF vars, TypeOK
    <3>2. CapIsFinal'
      BY <2>0, <2>7 DEF vars, CapIsFinal
    <3> QED
      BY <2>0, <2>7, <3>1, <3>2 DEF vars, Inv
  <2> QED
    BY <2>1, <2>2, <2>3, <2>4, <2>5, <2>6, <2>7 DEF Next
<1> QED
  BY <1>1, <1>2, PTL DEF Spec

\* Every variable keeps its type, for every input.
THEOREM TypeCorrect == Spec => []TypeOK
<1>1. Inv => TypeOK
  BY DEF Inv
<1> QED
  BY <1>1, Invariance, PTL

\* Which of its log a series holds.
LEMMA HeldPoints ==
    ASSUME NEW s, NEW l, NEW st \in Nat, SeriesInv(s, l, st)
    PROVE  /\ Len(l) - Len(s) >= 0
           /\ \A i \in DOMAIN s : s[i] = l[i + (Len(l) - Len(s))]
           /\ \A i \in DOMAIN l :
                 i > Len(l) - Len(s) <=> l[i].at >= l[Len(l)].at - MaxWindow
<1>1. /\ Len(s) \in Nat /\ Len(l) \in Nat /\ Len(s) <= Len(l)
      /\ DOMAIN s = 1..Len(s) /\ DOMAIN l = 1..Len(l)
      /\ \A i \in 1..Len(l) : l[i].at \in Nat
  BY AtTypes DEF SeriesInv
<1>2. /\ \A i \in 1..Len(s) : s[i] = l[i + (Len(l) - Len(s))]
      /\ \A i \in 1..(Len(l) - Len(s)) : l[i].at < l[Len(l)].at - MaxWindow
      /\ \A i, j \in 1..Len(s) : s[j].at - s[i].at <= MaxWindow
  BY DEF SeriesInv
<1>3. ASSUME NEW i \in 1..Len(l), i > Len(l) - Len(s)
      PROVE  l[i].at >= l[Len(l)].at - MaxWindow
  <2> DEFINE h == i - (Len(l) - Len(s))
  <2>1. /\ h \in 1..Len(s) /\ h + (Len(l) - Len(s)) = i
        /\ Len(s) \in 1..Len(s) /\ Len(s) + (Len(l) - Len(s)) = Len(l)
        /\ Len(l) \in 1..Len(l)
    BY <1>1, <1>3
  <2> HIDE DEF h
  <2>2. s[h] = l[i] /\ s[Len(s)] = l[Len(l)]
    BY <1>2, <2>1
  <2>3. s[Len(s)].at - s[h].at <= MaxWindow
    BY <1>2, <2>1
  <2>4. l[Len(l)].at - l[i].at <= MaxWindow /\ l[i].at \in Nat /\ l[Len(l)].at \in Nat
    BY <1>1, <2>1, <2>2, <2>3
  <2> QED
    BY <2>4, MaxWindowType
<1>4. ASSUME NEW i \in 1..Len(l), l[i].at >= l[Len(l)].at - MaxWindow
      PROVE  i > Len(l) - Len(s)
  <2>1. Len(l) \in 1..Len(l)
    BY <1>1
  <2>2. l[i].at \in Nat /\ l[Len(l)].at \in Nat
    BY <1>1, <2>1
  <2>3. ~ (l[i].at < l[Len(l)].at - MaxWindow)
    BY <1>4, <2>2, MaxWindowType
  <2>4. i \notin 1..(Len(l) - Len(s))
    BY <1>2, <2>3
  <2> QED
    BY <1>1, <2>4
<1> QED
  BY <1>1, <1>2, <1>3, <1>4

\* What a series holds are the points of the longest window before its latest
\* one, all of them and no others, however long it has been silent.
THEOREM KeepsItsWindowAlways == Spec => []KeepsItsWindow
<1>1. Inv => KeepsItsWindow
  <2> SUFFICES ASSUME Inv PROVE KeepsItsWindow
    OBVIOUS
  <2>1. ASSUME NEW k \in DOMAIN series PROVE SeriesInv(series[k], log[k], stamp)
    BY DEF Inv
  <2>2. stamp \in Nat
    BY DEF Inv, TypeOK
  <2> QED
    BY <2>1, <2>2, HeldPoints DEF KeepsItsWindow
<1> QED
  BY <1>1, Invariance, PTL

\* The cap holds, and a key it has turned away never gets a series.
THEOREM CapIsFinalAlways == Spec => []CapIsFinal
<1>1. Inv => CapIsFinal
  BY DEF Inv
<1> QED
  BY <1>1, Invariance, PTL

\* The instance counts, tallies and inserts as this module does.
LEMMA SameOperators ==
    /\ \A S : Abstract!Cardinality(S) = Cardinality(S)
    /\ \A points, I : Abstract!Tally(points, I) = Tally(points, I)
    /\ \A points, at, value : Abstract!Insert(points, at, value) = Insert(points, at, value)
<1>1. \A S : Abstract!Cardinality(S) = Cardinality(S)
  BY DEF Abstract!Cardinality, Cardinality
<1>2. \A points, I : Abstract!Tally(points, I) = Tally(points, I)
  BY <1>1 DEF Abstract!Tally, Tally
<1>3. \A points, at, value : Abstract!Insert(points, at, value) = Insert(points, at, value)
  BY DEF Abstract!Insert, Insert
<1> QED
  BY <1>1, <1>2, <1>3

\* A snapshot of the evicted windows is a report over the whole log.
LEMMA SnapshotReports ==
    ASSUME Inv, Snapshot
    PROVE  Abstract!Report
<1>1. /\ stamp \in Nat /\ clock \in Nat /\ stamp <= clock
      /\ DOMAIN log = DOMAIN series
      /\ \A k \in DOMAIN series : SeriesInv(series[k], log[k], stamp)
  BY DEF Inv, TypeOK
<1>2. ASSUME NEW k \in DOMAIN series, NEW w \in Windows
      PROVE  /\ PartitionPoint(series[k], clock - w) < Len(series[k])
                   <=> Abstract!Recent(k, w) # {}
             /\ Percentiles(series[k], clock - w) = Tally(log[k], Abstract!Recent(k, w))
  <2>1. \A i : i \in Abstract!Recent(k, w)
                 <=> i \in DOMAIN log[k] /\ log[k][i].at >= clock - w
    BY DEF Abstract!Recent
  <2>2. SeriesInv(series[k], log[k], stamp)
    BY <1>1
  <2> QED
    BY <1>1, <2>1, <2>2, SnapshotExact
<1>3. Reported = Abstract!Reported
  <2>1. ASSUME NEW kw \in (DOMAIN series) \X Windows
        PROVE  /\ Representable(clock - kw[2]) <=> clock - kw[2] >= MinInstant
               /\ PartitionPoint(series[kw[1]], clock - kw[2]) < Len(series[kw[1]])
                     <=> Abstract!Recent(kw[1], kw[2]) # {}
    BY <1>2 DEF Representable
  <2> QED
    BY <1>1, <2>1 DEF Reported, Abstract!Reported
<1>4. \A kw \in Reported : Percentiles(series[kw[1]], clock - kw[2])
                               = Tally(log[kw[1]], Abstract!Recent(kw[1], kw[2]))
  BY <1>2 DEF Reported
<1>5. report' = [kw \in Abstract!Reported |-> Tally(log[kw[1]], Abstract!Recent(kw[1], kw[2]))]
  BY <1>3, <1>4 DEF Snapshot
<1>6. report' = [kw \in Abstract!Reported |->
                   Abstract!Tally(log[kw[1]], Abstract!Recent(kw[1], kw[2]))]
  BY <1>5, SameOperators
<1> QED
  BY <1>6 DEF Snapshot, Abstract!Report

\* The aggregator implements the log that forgets nothing.
THEOREM Refinement == Spec => ImplementsRollingLog
<1>1. Init => Abstract!Init
  BY DEF Init, Abstract!Init
<1>2. Inv /\ [Next]_vars => [Abstract!Next]_(Abstract!vars)
  <2> SUFFICES ASSUME Inv, [Next]_vars PROVE [Abstract!Next]_(Abstract!vars)
    OBVIOUS
  <2> DEFINE k == Head(pending).key
             v == Head(pending).value
  <2>0. /\ pending \in Seq(Sample) /\ DOMAIN log = DOMAIN series
        /\ Cardinality(DOMAIN series) \in Nat
    BY FiniteKeys DEF Inv, TypeOK
  <2>1. CASE Tick
    BY <2>1 DEF Tick, Abstract!Tick, Abstract!Next
  <2>2. ASSUME NEW n \in 0..MaxBatch, NEW batch \in [1..n -> Sample], Begin(batch)
        PROVE  Abstract!Next
    BY <2>2 DEF Begin, Abstract!Begin, Abstract!Next
  <2>3. CASE Occupied
    <3>1. k \in Keys /\ v \in Values /\ k \in DOMAIN log
      BY <2>0, <2>3, NextSample DEF Occupied
    <3>2. log' = Stored(log, k, Insert(log[k], stamp, v))
      BY <2>3 DEF Occupied
    <3>3. UNCHANGED <<clock, stamp, droppedSeries, report>>
      BY <2>3 DEF Occupied
    <3> HIDE DEF k, v
    <3>4. Abstract!Accept(k, v)
      <4>1. log' = [j \in DOMAIN log \cup {k} |->
                      IF j # k THEN log[j]
                      ELSE Abstract!Insert(IF k \in DOMAIN log THEN log[k] ELSE <<>>,
                                           stamp, v)]
        BY <3>1, <3>2, SameOperators DEF Stored
      <4> QED
        BY <3>1, <3>3, <4>1, SameOperators DEF Abstract!Accept
    <3> QED
      BY <3>1, <3>4 DEF Abstract!Next
  <2>4. CASE Vacant
    <3>1. /\ k \in Keys /\ v \in Values /\ k \notin DOMAIN log
          /\ Cardinality(DOMAIN log) < MaxSeries
      BY <2>0, <2>4, NextSample DEF Vacant, HasRoom
    <3>2. log' = Stored(log, k, Insert(<<>>, stamp, v))
      BY <2>4 DEF Vacant, HasRoom
    <3>3. UNCHANGED <<clock, stamp, droppedSeries, report>>
      BY <2>4 DEF Vacant, HasRoom
    <3> HIDE DEF k, v
    <3>4. Abstract!Accept(k, v)
      <4>1. log' = [j \in DOMAIN log \cup {k} |->
                      IF j # k THEN log[j]
                      ELSE Abstract!Insert(IF k \in DOMAIN log THEN log[k] ELSE <<>>,
                                           stamp, v)]
        BY <3>1, <3>2, SameOperators DEF Stored
      <4> QED
        BY <3>1, <3>3, <4>1, SameOperators DEF Abstract!Accept
    <3> QED
      BY <3>1, <3>4 DEF Abstract!Next
  <2>5. CASE Full
    <3>0. Cardinality(DOMAIN series) \in Nat /\ MaxSeries \in Nat
      BY <2>0, FiniteKeys, LimitsAssumption DEF TypeOK
    <3>1. k \in Keys
      BY <2>0, <2>5, NextSample DEF Full, HasRoom
    <3>2. /\ k \notin DOMAIN log /\ Cardinality(DOMAIN log) >= MaxSeries
          /\ droppedSeries' = droppedSeries + 1
          /\ UNCHANGED <<clock, stamp, log, report>>
      BY <2>0, <2>5, <3>0 DEF Full, HasRoom
    <3> HIDE DEF k
    <3>3. Abstract!Reject(k)
      BY <3>2, SameOperators DEF Abstract!Reject
    <3> QED
      BY <3>1, <3>3 DEF Abstract!Next
  <2>6. CASE Snapshot
    BY <2>6, SnapshotReports DEF Abstract!Next
  <2>7. CASE UNCHANGED vars
    BY <2>7 DEF vars, Abstract!vars
  <2> QED
    BY <2>1, <2>2, <2>3, <2>4, <2>5, <2>6, <2>7 DEF Next
<1> QED
  BY <1>1, <1>2, Invariance, PTL DEF Spec, ImplementsRollingLog, Abstract!Spec

\* A tally of some points of a sequence.
LEMMA TallyOfPoints ==
    ASSUME NEW points \in Seq(Point), NEW I \in SUBSET (1..Len(points)), I # {}
    PROVE  LET t == Tally(points, I) IN
           /\ DOMAIN t # {} /\ DOMAIN t \subseteq Values /\ IsFiniteSet(DOMAIN t)
           /\ \A v \in DOMAIN t : t[v] \in Nat \ {0}
<1> DEFINE V == {points[i].value : i \in I}
           f == [i \in I |-> points[i].value]
<1>1. Len(points) \in Nat /\ \A i \in 1..Len(points) : points[i].value \in Values
  BY PointTypes DEF Point
<1>2. IsFiniteSet(1..Len(points))
  BY <1>1, FS_Interval
<1>3. IsFiniteSet(I)
  BY <1>2, FS_Subset
<1>4. IsFiniteSet(V)
  <2>1. f \in Surjection(I, V)
    BY DEF Surjection
  <2> HIDE DEF f, V
  <2> QED
    BY <1>3, <2>1, FS_Surjection
<1>5. ASSUME NEW v \in V
      PROVE  Cardinality({i \in I : points[i].value = v}) \in Nat \ {0}
  <2> DEFINE J == {i \in I : points[i].value = v}
  <2>1. IsFiniteSet(J) /\ J # {}
    BY <1>3, FS_Subset
  <2> HIDE DEF J
  <2>2. Cardinality(J) \in Nat /\ Cardinality(J) # 0
    BY <2>1, FS_CardinalityType, FS_EmptySet
  <2> QED
    BY <2>2 DEF J
<1>6. V # {} /\ V \subseteq Values
  BY <1>1
<1> QED
  BY <1>4, <1>5, <1>6 DEF Tally

\* What a report says of a series in a window is said of some of its points.
Tallied ==
    \A kw \in DOMAIN report :
        /\ kw \in Keys \X Windows
        /\ DOMAIN report[kw] # {} /\ DOMAIN report[kw] \subseteq Values
        /\ IsFiniteSet(DOMAIN report[kw])
        /\ \A v \in DOMAIN report[kw] : report[kw][v] \in Nat \ {0}

\* No quantile is asked of an empty window: what interpolated_quantile of
\* src/aggregate.rs asserts in debug builds, and relies on in others, since
\* sorted.len() - 1 would wrap.
THEOREM TalliedAlways == Spec => []Tallied
<1>1. Init => Tallied
  BY DEF Init, Tallied
<1>2. ASSUME Inv, Tallied, [Next]_vars
      PROVE  Tallied'
  <2>1. CASE Snapshot
    <3>1. /\ DOMAIN series \subseteq Keys /\ clock \in Nat
          /\ \A k \in DOMAIN series : SeriesInv(series[k], log[k], stamp)
      BY <1>2 DEF Inv, TypeOK
    <3>2. report' = [kw \in Reported |-> Percentiles(series[kw[1]], clock - kw[2])]
      BY <2>1 DEF Snapshot
    <3>3. ASSUME NEW kw \in Reported
          PROVE  LET t == Percentiles(series[kw[1]], clock - kw[2]) IN
                 /\ kw \in Keys \X Windows
                 /\ DOMAIN t # {} /\ DOMAIN t \subseteq Values /\ IsFiniteSet(DOMAIN t)
                 /\ \A v \in DOMAIN t : t[v] \in Nat \ {0}
      <4> DEFINE s == series[kw[1]]
                 p == PartitionPoint(s, clock - kw[2])
                 I == (p + 1)..Len(s)
      <4>1. kw \in (DOMAIN series) \X Windows /\ p < Len(s)
        BY DEF Reported
      <4>2. SeriesInv(s, log[kw[1]], stamp)
        BY <3>1, <4>1
      <4>3. s \in Seq(Point) /\ Len(s) \in Nat /\ DOMAIN s = 1..Len(s)
        BY <4>2, AtTypes DEF SeriesInv
      <4>4. p \in Nat
        <5>1. IsFiniteSet(1..Len(s))
          BY <4>3, FS_Interval
        <5>2. IsFiniteSet({i \in DOMAIN s : s[i].at < clock - kw[2]})
          BY <4>3, <5>1, FS_Subset
        <5> QED
          BY <5>2, FS_CardinalityType DEF PartitionPoint
      <4> HIDE DEF s, p
      <4>5. I \in SUBSET (1..Len(s)) /\ I # {}
        <5>1. p < Len(s) /\ p \in Nat /\ Len(s) \in Nat
          BY <4>1, <4>3, <4>4
        <5>2. Len(s) \in I
          BY <5>1
        <5>3. \A i \in I : i \in 1..Len(s)
          BY <5>1
        <5> QED
          BY <5>2, <5>3
      <4>6. Percentiles(s, clock - kw[2]) = Tally(s, I)
        BY DEF Percentiles, p
      <4> HIDE DEF I
      <4>7. /\ DOMAIN Tally(s, I) # {} /\ DOMAIN Tally(s, I) \subseteq Values
            /\ IsFiniteSet(DOMAIN Tally(s, I))
            /\ \A v \in DOMAIN Tally(s, I) : Tally(s, I)[v] \in Nat \ {0}
        BY <4>3, <4>5, TallyOfPoints
      <4> QED
        BY <3>1, <4>1, <4>6, <4>7 DEF s
    <3> QED
      BY <3>2, <3>3 DEF Tallied
  <2>2. CASE UNCHANGED report
    BY <1>2, <2>2 DEF Tallied
  <2>3. Snapshot \/ UNCHANGED report
    BY <1>2 DEF Next, Tick, Begin, Occupied, Vacant, Full, vars
  <2> QED
    BY <2>1, <2>2, <2>3
<1> QED
  BY <1>1, <1>2, Invariance, PTL DEF Spec
=============================================================================
