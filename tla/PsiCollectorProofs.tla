------------------------- MODULE PsiCollectorProofs -------------------------
(***************************************************************************)
(* Theorems about PsiCollector, for any number of files, of which any may  *)
(* have a `full` line, and calls that fail anywhere.  The invariant        *)
(* relates what a series claims to its baseline, the reading that the next *)
(* sample will be taken from, rather than to the counter.                  *)
(***************************************************************************)
EXTENDS PsiCollector, FiniteSetTheorems, TLAPS

\* An Option has at most one element, and a call gives at most one sample of each
\* series, of files it has read already.
Call ==
    /\ now <= clock
    /\ next = 0 => out = {}
    /\ \A s \in Series : \A p, q \in tracker[s] : p = q
    /\ \A x \in out : x.series[1] < next
    /\ \A x, y \in out : x.series = y.series => x = y

\* Stall time never falls, and grows no faster than time.
Ahead ==
    \A s \in Series : \A p \in tracker[s] :
        /\ p.at <= now
        /\ p.value <= total[s]
        /\ total[s] - p.value <= clock - p.at

\* Up to its baseline, a series claims no more than was counted, and without one
\* it claims nothing.
ClaimedBelow ==
    \A s \in Series :
        /\ \A p \in tracker[s] : Claimed(s) <= p.value - first[s]
        /\ tracker[s] = {} => reported[s] = 0 /\ \A x \in out : x.series # s

Inv == TypeOK /\ Call /\ Ahead /\ ClaimedBelow /\ NothingLost /\ SkewBounded
-----------------------------------------------------------------------------
\* The stall that the samples o are about to report of a series.
Pending(o, s) ==
    IF \E x \in o : x.series = s THEN Shown(CHOOSE x \in o : x.series = s) ELSE 0

\* A claim is what was reported before, and what is pending.
LEMMA ClaimedIs ==
    /\ \A s : Claimed(s) = reported[s] + Pending(out, s)
    /\ \A s : Claimed(s)' = reported'[s] + Pending(out', s)
BY DEF Claimed, Pending, Shown

\* It is what the one sample of the series shows, if there is one.
LEMMA PendingIs ==
    ASSUME NEW o, NEW s
    PROVE  /\ (\A x \in o : x.series # s) => Pending(o, s) = 0
           /\ \A x \in o : /\ x.series = s
                           /\ \A y \in o : y.series = s => y = x
                           => Pending(o, s) = Shown(x)
<1>1. ASSUME NEW x \in o, x.series = s, \A y \in o : y.series = s => y = x
      PROVE  Pending(o, s) = Shown(x)
  <2> DEFINE z == CHOOSE y \in o : y.series = s
  <2>1. z \in o /\ z.series = s
    BY <1>1
  <2>2. z = x
    BY <1>1, <2>1
  <2> QED
    BY <1>1, <2>2 DEF Pending
<1>2. (\A x \in o : x.series # s) => Pending(o, s) = 0
  BY DEF Pending
<1> QED
  BY <1>1, <1>2

\* The same samples of a series show the same.
LEMMA PendingSame ==
    ASSUME NEW o, NEW s, NEW r,
           \A x, y \in o : x.series = y.series => x = y,
           \A x : x \in r /\ x.series = s <=> x \in o /\ x.series = s
    PROVE  Pending(r, s) = Pending(o, s)
<1>1. CASE \A x \in o : x.series # s
  <2>1. \A x \in r : x.series # s
    BY <1>1
  <2> QED
    BY <1>1, <2>1, PendingIs
<1>2. ASSUME NEW x \in o, x.series = s
      PROVE  Pending(r, s) = Pending(o, s)
  <2>1. x \in r /\ \A y \in r : y.series = s => y = x
    BY <1>2
  <2>2. Pending(r, s) = Shown(x)
    BY <1>2, <2>1, PendingIs
  <2>3. Pending(o, s) = Shown(x)
    BY <1>2, PendingIs
  <2> QED
    BY <2>2, <2>3
<1> QED
  BY <1>1, <1>2

\* A sample shows part of the stall it was made from.
LEMMA ShownIs ==
    ASSUME NEW x, x.delta \in Nat, x.elapsed \in Nat
    PROVE  /\ Shown(x) \in Nat
           /\ Shown(x) <= x.delta
           /\ ~ (Shown(x) < x.delta) => Shown(x) = x.delta
BY DEF Shown

\* The file a series is read from is a number.
LEMMA SeriesType == \A s \in Series : s[1] \in Nat
<1> SUFFICES ASSUME NEW s \in Series
             PROVE  s[1] \in Nat
  OBVIOUS
<1>1. PICK r \in Resources, k \in {"some", "full"} : s = <<r, k>>
  BY PsiAssumption DEF Series
<1> QED
  BY <1>1 DEF Resources

\* The variables of a state with the invariant, one by one.
LEMMA Types ==
    ASSUME TypeOK
    PROVE  /\ clock \in Nat /\ now \in Nat /\ next \in Nat
           /\ \A s \in Series :
                 /\ total[s] \in Nat /\ first[s] \in Nat /\ reported[s] \in Nat
                 /\ \A p \in tracker[s] : p.at \in Nat /\ p.value \in Nat
           /\ \A x \in out : x.series \in Series /\ x.delta \in Nat /\ x.elapsed \in Nat
<1>1. next \in Nat
  BY PsiAssumption DEF TypeOK
<1>2. \A s \in Series : \A p \in tracker[s] : p.at \in Nat /\ p.value \in Nat
  BY DEF TypeOK, Reading
<1> QED
  BY <1>1, <1>2 DEF TypeOK

\* What is pending is a natural.
LEMMA PendingType ==
    ASSUME TypeOK, Call
    PROVE  \A s : Pending(out, s) \in Nat
<1> SUFFICES ASSUME NEW s
             PROVE  Pending(out, s) \in Nat
  OBVIOUS
<1>1. CASE \A x \in out : x.series # s
  BY <1>1, PendingIs
<1>2. ASSUME NEW x \in out, x.series = s
      PROVE  Pending(out, s) \in Nat
  <2>1. Pending(out, s) = Shown(x)
    BY <1>2, PendingIs DEF Call
  <2> QED
    BY <2>1, Types, ShownIs
<1> QED
  BY <1>1, <1>2

\* What a series gives when its total is read: its stall since the baseline, if
\* there is one and time has passed.
LEMMA SamplesAre ==
    ASSUME Inv, NEW s \in Series
    PROVE  /\ tracker[s] = {} => Samples(s) = {}
           /\ \A p \in tracker[s] :
                 Samples(s) =
                     IF now > p.at
                     THEN {[series  |-> s,
                            delta   |-> total[s] - p.value,
                            elapsed |-> now - p.at]}
                     ELSE {}
<1>1. tracker[s] = {} => Samples(s) = {}
  BY DEF Samples, Rate
<1>2. ASSUME NEW p \in tracker[s]
      PROVE  Samples(s) =
                IF now > p.at
                THEN {[series |-> s, delta |-> total[s] - p.value, elapsed |-> now - p.at]}
                ELSE {}
  <2>1. tracker[s] = {p}
    BY DEF Inv, Call
  <2>2. total[s] \in Nat /\ p.value \in Nat /\ p.value <= total[s]
    BY Types DEF Inv, Ahead
  <2>3. CASE now > p.at
    <3>1. Rate(tracker[s], total[s], now) =
              {[delta |-> total[s] - p.value, elapsed |-> now - p.at]}
      BY <2>1, <2>2, <2>3 DEF Rate
    <3> QED
      BY <2>3, <3>1 DEF Samples
  <2>4. CASE ~ (now > p.at)
    <3>1. Rate(tracker[s], total[s], now) = {}
      BY <2>1, <2>4 DEF Rate
    <3> QED
      BY <2>4, <3>1 DEF Samples
  <2> QED
    BY <2>3, <2>4
<1> QED
  BY <1>1, <1>2

\* So each of them is of that series, and late by the reads of this call at most.
LEMMA SampleBounds ==
    ASSUME Inv, NEW s \in Series, NEW x \in Samples(s)
    PROVE  /\ x \in [series : Series, delta : Nat, elapsed : Nat \ {0}]
           /\ x.series = s
           /\ x.delta <= x.elapsed + (clock - now)
           /\ \A y \in Samples(s) : y = x
<1>1. PICK p \in tracker[s] : TRUE
  BY SamplesAre
<1>2. /\ now > p.at
      /\ x = [series |-> s, delta |-> total[s] - p.value, elapsed |-> now - p.at]
      /\ \A y \in Samples(s) : y = x
  BY SamplesAre
<1>3. /\ total[s] \in Nat /\ p.value \in Nat /\ p.value <= total[s]
      /\ now \in Nat /\ p.at \in Nat /\ p.at <= now /\ clock \in Nat
      /\ total[s] - p.value <= clock - p.at
  BY Types DEF Inv, Ahead
<1>4. total[s] - p.value \in Nat /\ now - p.at \in Nat \ {0}
  BY <1>2, <1>3
<1> QED
  BY <1>2, <1>3, <1>4
-----------------------------------------------------------------------------
\* What reading a file does to the series of that file, and to the others.
LEMMA ReadShape ==
    ASSUME Inv, Read
    PROVE  /\ \A x : x \in out' <=> \/ x \in out
                                    \/ \E s \in Series : s[1] = next /\ x \in Samples(s)
           /\ \A s \in Series : s[1] = next =>
                 /\ tracker'[s] = {[value |-> total[s], at |-> now]}
                 /\ first'[s] = IF tracker[s] = {} THEN total[s] ELSE first[s]
           /\ \A s \in Series : s[1] # next => tracker'[s] = tracker[s] /\ first'[s] = first[s]
           /\ spoiled \subseteq spoiled' /\ spoiled' \subseteq spoiled \cup Series
           /\ \A s \in Series : s[1] = next /\ tracker[s] # {} /\ s \notin spoiled' =>
                 \E x \in Samples(s) : ~ (Shown(x) < x.delta)
<1> DEFINE S == {s \in Series : s[1] = next}
           tracker1 == [s \in Series |-> IF s \in S THEN Remembered(tracker[s], total[s], now)
                                         ELSE tracker[s]]
           first1 == [s \in Series |-> IF s \in S /\ tracker[s] = {} THEN total[s] ELSE first[s]]
           spoiled1 == {s \in S : /\ tracker[s] # {}
                                  /\ \A x \in Samples(s) : Shown(x) < x.delta}
<1>1. /\ out' = out \cup UNION {Samples(s) : s \in S}
      /\ tracker' = tracker1 /\ first' = first1
      /\ spoiled' = spoiled \cup spoiled1
  BY DEF Read
<1>2. \A x : x \in out' <=> x \in out \/ \E s \in Series : s[1] = next /\ x \in Samples(s)
  BY <1>1
<1>3. \A s \in Series : s[1] = next =>
          /\ tracker1[s] = {[value |-> total[s], at |-> now]}
          /\ first1[s] = IF tracker[s] = {} THEN total[s] ELSE first[s]
  BY DEF Remembered
<1>4. \A s \in Series : s[1] # next => tracker1[s] = tracker[s] /\ first1[s] = first[s]
  OBVIOUS
<1>5. spoiled \subseteq spoiled' /\ spoiled' \subseteq spoiled \cup Series
  BY <1>1
<1>6. ASSUME NEW s \in Series, s[1] = next, tracker[s] # {}, s \notin spoiled'
      PROVE  \E x \in Samples(s) : ~ (Shown(x) < x.delta)
  <2>1. s \in S /\ s \notin spoiled1
    BY <1>1, <1>6
  <2> QED
    BY <1>6, <2>1
<1> HIDE DEF tracker1, first1
<1> QED
  BY <1>1, <1>2, <1>3, <1>4, <1>5, <1>6

\* What is pending afterwards.
LEMMA ReadPending ==
    ASSUME Inv, Read, NEW s \in Series
    PROVE  /\ s[1] # next => Pending(out', s) = Pending(out, s)
           /\ s[1] = next => /\ Pending(out, s) = 0
                             /\ Samples(s) = {} => Pending(out', s) = 0
                             /\ \A x \in Samples(s) : Pending(out', s) = Shown(x)
<1>1. /\ \A x \in out : x.series[1] < next
      /\ \A x, y \in out : x.series = y.series => x = y
      /\ next \in Nat
  BY Types DEF Inv, Call
<1>2. \A x : x \in out' <=> x \in out \/ \E t \in Series : t[1] = next /\ x \in Samples(t)
  BY ReadShape
<1>3. \A t \in Series : \A x \in Samples(t) : x.series = t
  BY SampleBounds
<1>4. CASE s[1] # next
  <2>1. \A x : x \in out' /\ x.series = s <=> x \in out /\ x.series = s
    BY <1>2, <1>3, <1>4
  <2>2. Pending(out', s) = Pending(out, s)
    BY <1>1, <2>1, PendingSame
  <2> QED
    BY <1>4, <2>2
<1>5. CASE s[1] = next
  <2>1. \A x \in out : x.series # s
    <3> SUFFICES ASSUME NEW x \in out, x.series = s
                 PROVE  FALSE
      OBVIOUS
    <3>1. s[1] < next
      BY <1>1
    <3> QED
      BY <1>1, <1>5, <3>1
  <2>2. Pending(out, s) = 0
    BY <2>1, PendingIs
  <2>3. ASSUME Samples(s) = {}
        PROVE  Pending(out', s) = 0
    <3>1. \A x \in out' : x.series # s
      BY <1>2, <1>3, <2>1, <2>3
    <3> QED
      BY <3>1, PendingIs
  <2>4. ASSUME NEW x \in Samples(s)
        PROVE  Pending(out', s) = Shown(x)
    <3>1. x.series = s /\ \A y \in Samples(s) : y = x
      BY SampleBounds
    <3>2. x \in out'
      BY <1>2, <1>5
    <3>3. \A y \in out' : y.series = s => y = x
      BY <1>2, <1>3, <2>1, <3>1
    <3> QED
      BY <3>1, <3>2, <3>3, PendingIs
  <2> QED
    BY <1>5, <2>2, <2>3, <2>4
<1> QED
  BY <1>4, <1>5

\* Reading a file keeps what each of its series claims up to its new baseline.
LEMMA ReadClaims ==
    ASSUME Inv, Read, NEW s \in Series
    PROVE  /\ \A p \in tracker'[s] : Claimed(s)' <= p.value - first'[s]
           /\ tracker'[s] = {} => reported'[s] = 0 /\ \A x \in out' : x.series # s
           /\ s \notin spoiled' => \A p \in tracker'[s] : Claimed(s)' = p.value - first'[s]
<1>1. /\ reported' = reported
      /\ Claimed(s) = reported[s] + Pending(out, s)
      /\ Claimed(s)' = reported[s] + Pending(out', s)
  BY ClaimedIs DEF Read
<1>2. /\ total[s] \in Nat /\ first[s] \in Nat /\ reported[s] \in Nat /\ now \in Nat
      /\ \A p \in tracker[s] : p.at \in Nat /\ p.value \in Nat
      /\ Pending(out, s) \in Nat
  BY Types, PendingType DEF Inv
<1>3. spoiled \subseteq spoiled'
  BY ReadShape
<1>4. CASE s[1] # next
  <2>1. tracker'[s] = tracker[s] /\ first'[s] = first[s] /\ Claimed(s)' = Claimed(s)
    BY <1>1, <1>4, ReadShape, ReadPending
  <2>2. /\ \A p \in tracker[s] : Claimed(s) <= p.value - first[s]
        /\ s \notin spoiled => \A p \in tracker[s] : Claimed(s) = p.value - first[s]
    BY DEF Inv, ClaimedBelow, NothingLost
  <2>3. ASSUME tracker[s] = {}
        PROVE  reported'[s] = 0 /\ \A x \in out' : x.series # s
    <3>1. reported[s] = 0 /\ \A x \in out : x.series # s
      BY <2>3 DEF Inv, ClaimedBelow
    <3>2. \A x \in out' : x \in out \/ \E t \in Series : t[1] = next /\ x \in Samples(t)
      BY ReadShape
    <3>3. \A t \in Series : \A x \in Samples(t) : x.series = t
      BY SampleBounds
    <3> QED
      BY <1>1, <1>4, <3>1, <3>2, <3>3
  <2> QED
    BY <1>3, <2>1, <2>2, <2>3
<1>5. CASE s[1] = next
  <2>1. tracker'[s] # {} /\ \A p \in tracker'[s] : p.value = total[s]
    <3>1. tracker'[s] = {[value |-> total[s], at |-> now]}
      BY <1>5, ReadShape
    <3> QED
      BY <3>1
  <2>2. Pending(out, s) = 0
    BY <1>5, ReadPending
  <2>3. CASE tracker[s] = {}
    <3>1. first'[s] = total[s]
      BY <1>5, <2>3, ReadShape
    <3>2. Pending(out', s) = 0
      BY <1>5, <2>3, ReadPending, SamplesAre
    <3>3. reported[s] = 0
      BY <2>3 DEF Inv, ClaimedBelow
    <3>4. Claimed(s)' = total[s] - first'[s]
      BY <1>1, <1>2, <3>1, <3>2, <3>3
    <3>5. Claimed(s)' <= total[s] - first'[s]
      BY <1>2, <3>1, <3>4
    <3> QED
      BY <2>1, <3>4, <3>5
  <2>4. ASSUME NEW p \in tracker[s]
        PROVE  /\ Claimed(s)' <= total[s] - first'[s]
               /\ s \notin spoiled' => Claimed(s)' = total[s] - first'[s]
    <3>1. first'[s] = first[s]
      BY <1>5, ReadShape
    <3>2. /\ p.value \in Nat /\ p.value <= total[s]
          /\ reported[s] + Pending(out, s) <= p.value - first[s]
          /\ s \notin spoiled => reported[s] + Pending(out, s) = p.value - first[s]
      BY <1>1, <1>2 DEF Inv, Ahead, ClaimedBelow, NothingLost
    <3>3. reported[s] <= p.value - first[s]
          /\ (s \notin spoiled => reported[s] = p.value - first[s])
      BY <1>2, <2>2, <3>2
    <3>4. CASE Samples(s) = {}
      <4>1. Pending(out', s) = 0
        BY <1>5, <3>4, ReadPending
      <4>2. s \in spoiled'
        BY <1>5, <3>4, ReadShape
      <4>3. Claimed(s)' <= total[s] - first'[s]
        BY <1>1, <1>2, <3>1, <3>2, <3>3, <4>1
      <4> QED
        BY <4>2, <4>3
    <3>5. ASSUME NEW x \in Samples(s)
          PROVE  /\ Claimed(s)' <= total[s] - first'[s]
                 /\ s \notin spoiled' => Claimed(s)' = total[s] - first'[s]
      <4>1. Pending(out', s) = Shown(x)
        BY <1>5, ReadPending
      <4>2. x.delta = total[s] - p.value
        <5>1. x = [series |-> s, delta |-> total[s] - p.value, elapsed |-> now - p.at]
          BY SamplesAre
        <5> QED
          BY <5>1
      <4>3. x.delta \in Nat /\ x.elapsed \in Nat
        BY SampleBounds
      <4>4. Shown(x) \in Nat /\ Shown(x) <= x.delta
        BY <4>3, ShownIs
      <4>5. Claimed(s)' <= total[s] - first'[s]
        BY <1>1, <1>2, <3>1, <3>2, <3>3, <4>1, <4>2, <4>4
      <4>6. ASSUME s \notin spoiled'
            PROVE  Claimed(s)' = total[s] - first'[s]
        <5>1. Shown(x) = x.delta
          <6>1. PICK y \in Samples(s) : ~ (Shown(y) < y.delta)
            BY <1>5, <4>6, ReadShape
          <6>2. y = x
            BY <6>1, SampleBounds
          <6> QED
            BY <4>3, <6>1, <6>2, ShownIs
        <5>2. reported[s] = p.value - first[s]
          BY <1>3, <3>3, <4>6
        <5> QED
          BY <1>1, <1>2, <3>1, <3>2, <4>1, <4>2, <5>1, <5>2
      <4> QED
        BY <4>5, <4>6
    <3> QED
      BY <3>4, <3>5
  <2> QED
    BY <2>1, <2>3, <2>4
<1> QED
  BY <1>4, <1>5

\* Reading a file keeps the invariant.
LEMMA ReadKeeps ==
    ASSUME Inv, Read
    PROVE  Inv'
<1>0. TypeOK /\ Call /\ Ahead /\ ClaimedBelow /\ NothingLost /\ SkewBounded
  BY DEF Inv
<1>1. /\ next \in Resources /\ next' = next + 1
      /\ UNCHANGED <<clock, total, now, enabled, reported>>
  BY DEF Read
<1>2. next \in 0..(R + 1) /\ next' \in 0..(R + 1) /\ next \in Nat /\ next' # 0
  BY <1>1, PsiAssumption DEF Resources
<1>3. \A x \in out' : x \in out \/ \E s \in Series : s[1] = next /\ x \in Samples(s)
  BY ReadShape
<1>4. \A s \in Series :
          \/ tracker'[s] = tracker[s] /\ first'[s] = first[s]
          \/ /\ tracker'[s] = {[value |-> total[s], at |-> now]}
             /\ first'[s] \in {total[s], first[s]}
  BY ReadShape
<1>5. /\ clock \in Nat /\ now \in Nat /\ now <= clock
      /\ \A s \in Series : total[s] \in Nat /\ first[s] \in Nat
  BY <1>0, Types DEF Call
<1>6. TypeOK'
  <2>1. \A s \in Series : [value |-> total[s], at |-> now] \in Reading
    BY <1>5 DEF Reading
  <2>2. \A s \in Series : {[value |-> total[s], at |-> now]} \in SUBSET Reading
    BY <2>1
  <2>3. \A s \in Series : tracker[s] \in SUBSET Reading /\ Cardinality(tracker[s]) <= 1
    BY <1>0 DEF TypeOK
  <2>4. \A s \in Series : tracker'[s] \in SUBSET Reading
    BY <1>4, <2>2, <2>3
  <2>5. \A s \in Series : Cardinality(tracker'[s]) <= 1
    <3> TAKE s \in Series
    <3>1. Cardinality({[value |-> total[s], at |-> now]}) = 1
      BY FS_Singleton
    <3>2. CASE tracker'[s] = tracker[s]
      BY <2>3, <3>2
    <3>3. CASE tracker'[s] = {[value |-> total[s], at |-> now]}
      BY <3>1, <3>3
    <3> QED
      BY <1>4, <3>2, <3>3
  <2>6. tracker' = [s \in Series |-> tracker'[s]] /\ first' = [s \in Series |-> first'[s]]
    BY DEF Read
  <2>7. \A s \in Series : first'[s] \in Nat
    BY <1>4, <1>5
  <2>8. tracker' \in [Series -> SUBSET Reading] /\ first' \in [Series -> Nat]
    BY <2>4, <2>6, <2>7
  <2>9. out' \subseteq [series : Series, delta : Nat, elapsed : Nat \ {0}]
    BY <1>0, <1>3, SampleBounds DEF TypeOK
  <2>10. spoiled' \subseteq Series
    BY <1>0, ReadShape DEF TypeOK
  <2> QED
    BY <1>0, <1>1, <1>2, <2>5, <2>8, <2>9, <2>10 DEF TypeOK
<1>7. Call'
  <2>1. \A s \in Series : \A p, q \in tracker'[s] : p = q
    BY <1>0, <1>4 DEF Call
  <2>2. \A x \in out' : x.series[1] < next'
    <3>1. \A s \in Series : \A x \in Samples(s) : x.series = s
      BY SampleBounds
    <3>2. \A x \in out : x.series \in Series /\ x.series[1] < next /\ x.series[1] \in Nat
      BY <1>0, Types, SeriesType DEF Call
    <3>3. \A x \in out : x.series[1] < next'
      BY <1>1, <1>2, <3>2
    <3>4. next < next'
      BY <1>1, <1>2
    <3> QED
      BY <1>3, <3>1, <3>3, <3>4
  <2>3. \A x, y \in out' : x.series = y.series => x = y
    <3> SUFFICES ASSUME NEW x \in out', NEW y \in out', x.series = y.series
                 PROVE  x = y
      OBVIOUS
    <3>1. \A z \in out : z.series[1] # next
      BY <1>0, <1>2, Types, SeriesType DEF Call
    <3>2. \A s \in Series : \A z \in Samples(s) : z.series = s
      BY SampleBounds
    <3>3. CASE x \in out /\ y \in out
      BY <1>0, <3>3 DEF Call
    <3>4. CASE \E s \in Series : s[1] = next /\ x \in Samples(s)
      <4>1. PICK s \in Series : s[1] = next /\ x \in Samples(s)
        BY <3>4
      <4>2. x.series = s
        BY <3>2, <4>1
      <4>3. y \notin out
        BY <3>1, <4>1, <4>2
      <4>4. y \in Samples(s)
        BY <1>3, <3>2, <4>2, <4>3
      <4> QED
        BY <4>1, <4>4, SampleBounds
    <3>5. CASE \E s \in Series : s[1] = next /\ y \in Samples(s)
      <4>1. PICK s \in Series : s[1] = next /\ y \in Samples(s)
        BY <3>5
      <4>2. y.series = s
        BY <3>2, <4>1
      <4>3. x \notin out
        BY <3>1, <4>1, <4>2
      <4>4. x \in Samples(s)
        BY <1>3, <3>2, <4>2, <4>3
      <4> QED
        BY <4>1, <4>4, SampleBounds
    <3> QED
      BY <1>3, <3>3, <3>4, <3>5
  <2> QED
    BY <1>0, <1>1, <1>2, <2>1, <2>2, <2>3 DEF Call
<1>8. Ahead'
  <2> SUFFICES ASSUME NEW s \in Series, NEW p \in tracker'[s]
               PROVE  /\ p.at <= now
                      /\ p.value <= total[s]
                      /\ total[s] - p.value <= clock - p.at
    BY <1>1 DEF Ahead
  <2>1. CASE tracker'[s] = tracker[s]
    BY <1>0, <2>1 DEF Ahead
  <2>2. CASE tracker'[s] = {[value |-> total[s], at |-> now]}
    <3>1. p.value = total[s] /\ p.at = now
      BY <2>2
    <3> QED
      BY <1>5, <3>1
  <2> QED
    BY <1>4, <2>1, <2>2
<1>9. ClaimedBelow'
  BY ReadClaims DEF ClaimedBelow
<1>10. NothingLost'
  BY ReadClaims DEF NothingLost
<1>11. SkewBounded'
  BY <1>0, <1>1, <1>3, SampleBounds DEF SkewBounded
<1> QED
  BY <1>6, <1>7, <1>8, <1>9, <1>10, <1>11 DEF Inv

\* Cutting off the samples of a call takes back what they claimed, and no more.
LEMMA AbandonKeeps ==
    ASSUME Inv, Abandon, enabled' \in BOOLEAN
    PROVE  Inv'
<1>0. TypeOK /\ Call /\ Ahead /\ ClaimedBelow /\ NothingLost /\ SkewBounded
  BY DEF Inv
<1>1. /\ out' = {} /\ next' = 0
      /\ spoiled' = spoiled \cup {x.series : x \in out}
      /\ UNCHANGED <<clock, total, now, tracker, first, reported>>
  BY DEF Abandon
<1>2. TypeOK'
  <2>1. 0 \in 0..(R + 1)
    BY PsiAssumption
  <2>2. spoiled' \subseteq Series
    BY <1>0, <1>1 DEF TypeOK
  <2> QED
    BY <1>0, <1>1, <2>1, <2>2 DEF TypeOK
<1>3. Call' /\ Ahead' /\ SkewBounded'
  <2>1. Call'
    BY <1>0, <1>1 DEF Call
  <2>2. Ahead'
    BY <1>0, <1>1 DEF Ahead
  <2>3. SkewBounded'
    BY <1>1 DEF SkewBounded
  <2> QED
    BY <2>1, <2>2, <2>3
<1>4. ASSUME NEW s \in Series
      PROVE  /\ Claimed(s)' <= Claimed(s)
             /\ s \notin spoiled' => Claimed(s)' = Claimed(s)
  <2>1. Claimed(s)' = reported[s] + Pending({}, s) /\ Claimed(s) = reported[s] + Pending(out, s)
    BY <1>1, ClaimedIs
  <2>2. Pending({}, s) = 0
    BY PendingIs
  <2>3. Pending(out, s) \in Nat /\ reported[s] \in Nat
    BY <1>0, PendingType, Types
  <2>4. s \notin spoiled' => Pending(out, s) = 0
    BY <1>1, PendingIs
  <2>5. Claimed(s)' <= Claimed(s)
    BY <2>1, <2>2, <2>3
  <2> QED
    BY <2>1, <2>2, <2>4, <2>5
<1>5. \A s \in Series : Claimed(s)' \in Nat /\ Claimed(s) \in Nat
  <2> TAKE s \in Series
  <2>1. Claimed(s)' = reported[s] + Pending({}, s) /\ Claimed(s) = reported[s] + Pending(out, s)
    BY <1>1, ClaimedIs
  <2>2. Pending({}, s) = 0 /\ Pending(out, s) \in Nat /\ reported[s] \in Nat
    BY <1>0, PendingIs, PendingType, Types
  <2> QED
    BY <2>1, <2>2
<1>6. ClaimedBelow'
  <2> SUFFICES ASSUME NEW s \in Series
               PROVE  /\ \A p \in tracker[s] : Claimed(s)' <= p.value - first[s]
                      /\ tracker[s] = {} => reported[s] = 0
    BY <1>1 DEF ClaimedBelow
  <2>1. ASSUME NEW p \in tracker[s]
        PROVE  Claimed(s)' <= p.value - first[s]
    <3>1. Claimed(s) <= p.value - first[s]
      BY <1>0 DEF ClaimedBelow
    <3>2. p.value \in Nat /\ first[s] \in Nat
      BY <1>0, Types
    <3> QED
      BY <1>4, <1>5, <3>1, <3>2
  <2>2. tracker[s] = {} => reported[s] = 0
    BY <1>0 DEF ClaimedBelow
  <2> QED
    BY <2>1, <2>2
<1>7. NothingLost'
  <2>1. spoiled \subseteq spoiled'
    BY <1>1
  <2> QED
    BY <1>0, <1>1, <1>4, <2>1 DEF NothingLost
<1> QED
  BY <1>2, <1>3, <1>6, <1>7 DEF Inv

\* The pass keeps the samples of a call that returns: what was pending is reported.
LEMMA ReturnKeeps ==
    ASSUME Inv, Return
    PROVE  Inv'
<1>0. TypeOK /\ Call /\ Ahead /\ ClaimedBelow /\ NothingLost /\ SkewBounded
  BY DEF Inv
<1>1. /\ out' = {} /\ next' = 0
      /\ UNCHANGED <<clock, total, now, tracker, enabled, first, spoiled>>
  BY DEF Return
<1>2. reported' = [s \in Series |-> reported'[s]]
  BY DEF Return
<1>3. ASSUME NEW s \in Series
      PROVE  reported'[s] = reported[s] + Pending(out, s) /\ reported[s] \in Nat
  <2>1. reported[s] \in Nat
    BY <1>0, Types
  <2>2. reported'[s] = IF \E x \in out : x.series = s
                       THEN reported[s] + Shown(CHOOSE x \in out : x.series = s)
                       ELSE reported[s]
    BY DEF Return
  <2> QED
    BY <2>1, <2>2 DEF Pending
<1>4. \A s \in Series : reported'[s] \in Nat
  BY <1>0, <1>3, PendingType
<1>5. \A s \in Series : Claimed(s)' = Claimed(s)
  <2> TAKE s \in Series
  <2>1. Claimed(s)' = reported'[s] + Pending({}, s) /\ Claimed(s) = reported[s] + Pending(out, s)
    BY <1>1, ClaimedIs
  <2>2. Pending({}, s) = 0 /\ reported'[s] \in Nat
    BY <1>4, PendingIs
  <2> QED
    BY <1>3, <2>1, <2>2
<1>6. TypeOK'
  <2>1. 0 \in 0..(R + 1)
    BY PsiAssumption
  <2>2. reported' \in [Series -> Nat]
    BY <1>2, <1>4
  <2> QED
    BY <1>0, <1>1, <2>1, <2>2 DEF TypeOK
<1>7. Call' /\ Ahead' /\ SkewBounded'
  <2>1. Call'
    BY <1>0, <1>1 DEF Call
  <2>2. Ahead'
    BY <1>0, <1>1 DEF Ahead
  <2>3. SkewBounded'
    BY <1>1 DEF SkewBounded
  <2> QED
    BY <2>1, <2>2, <2>3
<1>8. ClaimedBelow'
  <2>1. \A s \in Series : tracker[s] = {} => reported'[s] = 0
    <3> SUFFICES ASSUME NEW s \in Series, tracker[s] = {}
                 PROVE  reported'[s] = 0
      OBVIOUS
    <3>1. reported[s] = 0 /\ \A x \in out : x.series # s
      BY <1>0 DEF ClaimedBelow
    <3>2. Pending(out, s) = 0
      BY <3>1, PendingIs
    <3> QED
      BY <1>3, <3>1, <3>2
  <2> QED
    BY <1>0, <1>1, <1>5, <2>1 DEF ClaimedBelow
<1>9. NothingLost'
  BY <1>0, <1>1, <1>5 DEF NothingLost
<1> QED
  BY <1>6, <1>7, <1>8, <1>9 DEF Inv

\* Time passes, and no series stalls for longer.
LEMMA StallKeeps ==
    ASSUME Inv, NEW S \in SUBSET Series, Stall(S)
    PROVE  Inv'
<1>0. TypeOK /\ Call /\ Ahead /\ ClaimedBelow /\ NothingLost /\ SkewBounded
  BY DEF Inv
<1>1. /\ clock' = clock + 1
      /\ total' = [s \in Series |-> total[s] + (IF s \in S THEN 1 ELSE 0)]
      /\ UNCHANGED <<now, next, tracker, out, enabled, first, reported, spoiled>>
  BY DEF Stall
<1>2. clock \in Nat /\ now \in Nat /\ \A s \in Series : total[s] \in Nat
  BY <1>0, Types
<1>3. \A s \in Series : total'[s] \in Nat /\ total'[s] \in total[s]..(total[s] + 1)
  BY <1>1, <1>2
<1>4. TypeOK'
  <2>1. total' \in [Series -> Nat]
    BY <1>1, <1>2
  <2> QED
    BY <1>0, <1>1, <1>2, <2>1 DEF TypeOK
<1>5. Call'
  BY <1>0, <1>1, <1>2 DEF Call
<1>6. Ahead'
  <2> SUFFICES ASSUME NEW s \in Series, NEW p \in tracker[s]
               PROVE  /\ p.at <= now
                      /\ p.value <= total'[s]
                      /\ total'[s] - p.value <= clock' - p.at
    BY <1>1 DEF Ahead
  <2>1. p.at \in Nat /\ p.value \in Nat /\ total[s] \in Nat
    BY <1>0, Types
  <2>2. p.at <= now /\ p.value <= total[s] /\ total[s] - p.value <= clock - p.at
    BY <1>0 DEF Ahead
  <2>3. total'[s] \in Nat /\ total'[s] >= total[s] /\ total'[s] <= total[s] + 1
    BY <1>2, <1>3
  <2> QED
    BY <1>1, <1>2, <2>1, <2>2, <2>3
<1>7. \A s : Claimed(s)' = Claimed(s)
  BY <1>1, ClaimedIs
<1>8. ClaimedBelow' /\ NothingLost'
  <2>1. ClaimedBelow'
    BY <1>0, <1>1, <1>7 DEF ClaimedBelow
  <2>2. NothingLost'
    BY <1>0, <1>1, <1>7 DEF NothingLost
  <2> QED
    BY <2>1, <2>2
<1>9. SkewBounded'
  <2>1. \A x \in out : x.delta \in Nat /\ x.elapsed \in Nat
    BY <1>0, Types
  <2> QED
    BY <1>0, <1>1, <1>2, <2>1 DEF SkewBounded
<1> QED
  BY <1>4, <1>5, <1>6, <1>8, <1>9 DEF Inv
-----------------------------------------------------------------------------
\* The invariant holds, whichever calls fail and at whichever file.
THEOREM Invariance == Spec => []Inv
<1>1. Init => Inv
  <2> SUFFICES ASSUME Init
               PROVE  Inv
    OBVIOUS
  <2>1. /\ clock = 0 /\ now = 0 /\ next = 0 /\ out = {} /\ enabled = TRUE /\ spoiled = {}
        /\ total = [s \in Series |-> 0] /\ first = [s \in Series |-> 0]
        /\ reported = [s \in Series |-> 0] /\ tracker = [s \in Series |-> {}]
    BY DEF Init
  <2>2. TypeOK
    <3>1. \A s \in Series : Cardinality(tracker[s]) <= 1
      BY <2>1, FS_EmptySet
    <3>2. 0 \in 0..(R + 1)
      BY PsiAssumption
    <3>3. tracker \in [Series -> SUBSET Reading]
      BY <2>1
    <3> QED
      BY <2>1, <3>1, <3>2, <3>3 DEF TypeOK
  <2>3. Call /\ Ahead /\ ClaimedBelow /\ NothingLost /\ SkewBounded
    BY <2>1 DEF Call, Ahead, ClaimedBelow, NothingLost, SkewBounded
  <2> QED
    BY <2>2, <2>3 DEF Inv
<1>2. Inv /\ [Next]_vars => Inv'
  <2> SUFFICES ASSUME Inv, [Next]_vars
               PROVE  Inv'
    OBVIOUS
  <2>0. TypeOK /\ Call /\ Ahead /\ ClaimedBelow /\ NothingLost /\ SkewBounded
    BY DEF Inv
  <2>1. ASSUME NEW S \in SUBSET Series, Stall(S)
        PROVE  Inv'
    BY <2>1, StallKeeps
  <2>2. CASE Begin
    <3>1. /\ now' = clock /\ next' = 1 /\ out' = {} /\ next = 0
          /\ UNCHANGED <<clock, total, tracker, enabled, first, reported, spoiled>>
      BY <2>2 DEF Begin
    <3>2. out = {} /\ clock \in Nat /\ now \in Nat /\ now <= clock
      BY <2>0, <3>1, Types DEF Call
    <3>3. 1 \in 0..(R + 1)
      BY PsiAssumption
    <3>4. TypeOK'
      BY <2>0, <3>1, <3>2, <3>3 DEF TypeOK
    <3>5. Call'
      BY <2>0, <3>1, <3>2 DEF Call
    <3>6. Ahead'
      <4>1. \A s \in Series : \A p \in tracker[s] : p.at \in Nat
        BY <2>0, Types
      <4>2. \A s \in Series : \A p \in tracker[s] : p.at <= now'
        BY <2>0, <3>1, <3>2, <4>1 DEF Ahead
      <4> QED
        BY <2>0, <3>1, <4>2 DEF Ahead
    <3>7. \A s : Claimed(s)' = Claimed(s)
      BY <3>1, <3>2, ClaimedIs
    <3>8. ClaimedBelow'
      BY <2>0, <3>1, <3>2, <3>7 DEF ClaimedBelow
    <3>9. NothingLost' /\ SkewBounded'
      BY <2>0, <3>1, <3>7 DEF NothingLost, SkewBounded
    <3> QED
      BY <3>4, <3>5, <3>6, <3>8, <3>9 DEF Inv
  <2>3. CASE Read
    BY <2>3, ReadKeeps
  <2>4. CASE Fail
    <3>1. enabled' \in BOOLEAN
      BY <2>0, <2>4 DEF Fail, TypeOK
    <3> QED
      BY <2>4, <3>1, AbandonKeeps DEF Fail
  <2>5. CASE Missing
    BY <2>5, AbandonKeeps DEF Missing
  <2>6. CASE Return
    BY <2>6, ReturnKeeps
  <2>7. CASE UNCHANGED vars
    <3>1. UNCHANGED <<clock, total, now, next, tracker, out, enabled, first, reported, spoiled>>
      BY <2>7 DEF vars
    <3>2. \A s : Claimed(s)' = Claimed(s)
      BY <3>1, ClaimedIs
    <3>3. TypeOK' /\ Call' /\ Ahead' /\ SkewBounded'
      BY <2>0, <3>1 DEF TypeOK, Call, Ahead, SkewBounded
    <3>4. ClaimedBelow' /\ NothingLost'
      BY <2>0, <3>1, <3>2 DEF ClaimedBelow, NothingLost
    <3> QED
      BY <3>3, <3>4 DEF Inv
  <2> QED
    BY <2>1, <2>2, <2>3, <2>4, <2>5, <2>6, <2>7 DEF Next
<1> QED
  BY <1>1, <1>2, PTL DEF Spec

\* Every variable keeps its type, whatever the number of files.
THEOREM TypeCorrect == Spec => []TypeOK
<1>1. Inv => TypeOK
  BY DEF Inv
<1> QED
  BY <1>1, Invariance, PTL

\* No stall is reported twice: a call that fails at one file does not make the next
\* report again what the trackers of the files before it have gone past.
THEOREM NothingTwiceAlways == Spec => []NothingTwice
<1>1. Inv => NothingTwice
  <2> SUFFICES ASSUME Inv, NEW s \in Series, tracker[s] # {}
               PROVE  Claimed(s) <= total[s] - first[s]
    BY DEF NothingTwice
  <2>1. PICK p \in tracker[s] : TRUE
    OBVIOUS
  <2>2. Claimed(s) <= p.value - first[s] /\ p.value <= total[s]
    BY DEF Inv, ClaimedBelow, Ahead
  <2>3. Claimed(s) \in Nat
    <3>1. Pending(out, s) \in Nat /\ reported[s] \in Nat
      BY PendingType, Types DEF Inv
    <3> QED
      BY <3>1, ClaimedIs
  <2>4. p.value \in Nat /\ total[s] \in Nat /\ first[s] \in Nat
    BY Types DEF Inv
  <2> QED
    BY <2>2, <2>3, <2>4
<1> QED
  BY <1>1, Invariance, PTL

\* Unless a sample of a series was cut off, clamped or not made, its samples add up
\* to what the kernel counted between its first reading and its latest.
THEOREM NothingLostAlways == Spec => []NothingLost
<1>1. Inv => NothingLost
  BY DEF Inv
<1> QED
  BY <1>1, Invariance, PTL

\* min(100.0) hides no more than the time the reads of the call were late, even
\* after calls that failed and left baselines of different ages.
THEOREM SkewBoundedAlways == Spec => []SkewBounded
<1>1. Inv => SkewBounded
  BY DEF Inv
<1> QED
  BY <1>1, Invariance, PTL
=============================================================================
