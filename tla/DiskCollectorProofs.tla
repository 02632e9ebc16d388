------------------------ MODULE DiskCollectorProofs ------------------------
(***************************************************************************)
(* Theorems about DiskCollector, for any devices, names, selections and    *)
(* limits.  The invariant relates the baseline of a device to the queue    *)
(* time and the busy time counted since, of whichever device has its name. *)
(***************************************************************************)
EXTENDS DiskCollector, SequenceTheorems, TLAPS

\* A baseline bears the stamp of its call, which is no later than its reading was:
\* the device has been busy since for no longer than that.  Plugged in again, it
\* starts from zero.
BusySince ==
    /\ now <= clock
    /\ \A d \in DOMAIN prev :
          /\ prev[d].at <= now
          /\ counters[d].busy - prev[d].busy <= clock - prev[d].at

\* What has been reported up to a baseline and what has been counted since is no
\* more than the queue time there was.
WorkSince ==
    /\ DOMAIN work \subseteq Devices
    /\ \A d \in Devices \ DOMAIN work : reported[d] = 0
    /\ \A d \in DOMAIN prev :
          reported[d] + (counters[d].weighted - prev[d].weighted) <= work[d]

\* A device that has stayed plugged in is listed and has a baseline still, and its
\* counters have not fallen.
Steady ==
    /\ DOMAIN work \subseteq DOMAIN prev \cup spoiled
    /\ \A d \in DOMAIN prev \ spoiled :
          /\ d \in Range(listed)
          /\ prev[d].weighted <= counters[d].weighted
          /\ prev[d].busy <= counters[d].busy

Inv ==
    /\ TypeOK
    /\ BusySince
    /\ WorkSince
    /\ Steady
    /\ NothingTwice
    /\ NothingLost
    /\ UtilBounded
    /\ NoBridge
-----------------------------------------------------------------------------
\* A device that is registered is listed after the others.
LEMMA AppendListed ==
    ASSUME NEW s \in Seq(Devices), NEW d \in Devices
    PROVE  /\ Append(s, d) \in Seq(Devices)
           /\ Range(s) \subseteq Range(Append(s, d))
<1>1. /\ Append(s, d) \in Seq(Devices)
      /\ Len(Append(s, d)) = Len(s) + 1
      /\ \A i \in 1..Len(s) : Append(s, d)[i] = s[i]
  OBVIOUS
<1>2. DOMAIN s = 1..Len(s) /\ DOMAIN Append(s, d) = 1..(Len(s) + 1) /\ Len(s) \in Nat
  BY <1>1
<1>3. \A i \in DOMAIN s : i \in DOMAIN Append(s, d) /\ Append(s, d)[i] = s[i]
  BY <1>1, <1>2
<1> QED
  BY <1>1, <1>3 DEF Range

\* One that is gone is taken off the list, and no other.
LEMMA RemoveListed ==
    ASSUME NEW s \in Seq(Devices), NEW i \in DOMAIN s
    PROVE  /\ RemoveAt(s, i) \in Seq(Devices)
           /\ \A x \in Range(s) : x = s[i] \/ x \in Range(RemoveAt(s, i))
<1> DEFINE n == Len(s)
           front == SubSeq(s, 1, i - 1)
           back == SubSeq(s, i + 1, n)
<1>1. n \in Nat /\ DOMAIN s = 1..n /\ i \in 1..n /\ \A j \in 1..n : s[j] \in Devices
  OBVIOUS
<1>2. /\ front \in Seq(Devices) /\ Len(front) = i - 1
      /\ \A j \in 1..(i - 1) : front[j] = s[j]
  BY <1>1, SubSeqProperties
<1>3. /\ back \in Seq(Devices) /\ Len(back) = n - i
      /\ \A j \in 1..(n - i) : back[j] = s[i + j]
  <2>1. /\ back \in Seq(Devices) /\ Len(back) = IF i + 1 <= n THEN n - (i + 1) + 1 ELSE 0
        /\ \A j \in 1..(n - (i + 1) + 1) : back[j] = s[(i + 1) + j - 1]
    BY <1>1, SubSeqProperties
  <2>2. n - (i + 1) + 1 = n - i /\ (~ (i + 1 <= n) => n - i = 0)
    BY <1>1
  <2>3. \A j \in 1..(n - i) : (i + 1) + j - 1 = i + j
    BY <1>1
  <2> HIDE DEF back, n
  <2>4. Len(back) = n - i
    BY <2>1, <2>2
  <2>5. \A j \in 1..(n - i) : back[j] = s[i + j]
    BY <2>1, <2>2, <2>3
  <2> QED
    BY <2>1, <2>4, <2>5
<1>4. RemoveAt(s, i) = front \o back
  BY DEF RemoveAt
<1> HIDE DEF front, back, n
<1>5. /\ RemoveAt(s, i) \in Seq(Devices)
      /\ DOMAIN RemoveAt(s, i) = 1..(n - 1)
      /\ \A j \in 1..(n - 1) :
            RemoveAt(s, i)[j] = IF j <= i - 1 THEN front[j] ELSE back[j - (i - 1)]
  BY <1>1, <1>2, <1>3, <1>4
<1>6. ASSUME NEW j \in 1..n, j # i
      PROVE  s[j] \in Range(RemoveAt(s, i))
  <2>1. CASE j < i
    <3>1. j \in 1..(n - 1) /\ j \in 1..(i - 1) /\ j <= i - 1
      BY <1>1, <2>1
    <3>2. RemoveAt(s, i)[j] = s[j]
      BY <1>2, <1>5, <3>1
    <3> QED
      BY <1>5, <3>1, <3>2 DEF Range
  <2>2. CASE j > i
    <3>1. j - 1 \in 1..(n - 1) /\ ~ (j - 1 <= i - 1) /\ j - i \in 1..(n - i)
          /\ (j - 1) - (i - 1) = j - i /\ i + (j - i) = j
      BY <1>1, <2>2
    <3>2. RemoveAt(s, i)[j - 1] = s[j]
      BY <1>3, <1>5, <3>1
    <3> QED
      BY <1>5, <3>1, <3>2 DEF Range
  <2> QED
    BY <1>1, <1>6, <2>1, <2>2
<1> QED
  BY <1>1, <1>5, <1>6 DEF Range

\* Only what is listed is tracked.
LEMMA TrackedListed ==
    ASSUME listed \in Seq(Devices)
    PROVE  Tracked \subseteq Range(listed) /\ Range(listed) \subseteq Devices
<1>1. \A i \in DOMAIN listed : listed[i] \in Devices
  OBVIOUS
<1>2. Tracked \subseteq Range(listed)
  BY DEF Tracked, Range
<1> QED
  BY <1>1, <1>2 DEF Range

\* The variables of a state with the invariant, one by one.
LEMMA Types ==
    ASSUME TypeOK
    PROVE  /\ clock \in Nat /\ now \in Nat
           /\ \A d \in Devices :
                 /\ counters[d].weighted \in Nat /\ counters[d].busy \in Nat
                 /\ reported[d] \in Nat
           /\ \A d \in DOMAIN prev :
                 /\ d \in Devices /\ d \in DOMAIN work
                 /\ prev[d].weighted \in Nat /\ prev[d].busy \in Nat /\ prev[d].at \in Nat
           /\ \A d \in DOMAIN work : work[d] \in Nat
<1>1. \A d \in Devices : counters[d] \in Counts
  BY DEF TypeOK
<1>2. \A d \in DOMAIN prev : prev[d] \in Baseline
  BY DEF TypeOK
<1>3. \A c \in Counts : c.weighted \in Nat /\ c.busy \in Nat
  BY DEF Counts
<1>4. \A b \in Baseline : b.weighted \in Nat /\ b.busy \in Nat /\ b.at \in Nat
  BY DEF Baseline
<1> QED
  BY <1>1, <1>2, <1>3, <1>4 DEF TypeOK

\* A device that stays plugged in gives a sample unless its stamp is that of its
\* baseline.
LEMMA SteadySample ==
    ASSUME Inv, NEW d \in DOMAIN prev \ spoiled, ~ Comparable(d)
    PROVE  /\ now = prev[d].at
           /\ prev[d].weighted <= counters[d].weighted
<1>1. /\ prev[d].weighted <= counters[d].weighted
      /\ prev[d].busy <= counters[d].busy
      /\ prev[d].at <= now
  BY DEF Inv, Steady, BusySince
<1>2. /\ now \in Nat /\ prev[d].at \in Nat
      /\ counters[d].weighted \in Nat /\ counters[d].busy \in Nat
      /\ prev[d].weighted \in Nat /\ prev[d].busy \in Nat
  BY Types DEF Inv
<1>3. ~ (now > prev[d].at)
  BY <1>1, <1>2 DEF Comparable
<1> QED
  BY <1>1, <1>2, <1>3
-----------------------------------------------------------------------------
\* What a call does to the samples and to what has been reported.
LEMMA CollectReports ==
    ASSUME Inv, Collect
    PROVE  /\ \A x \in out' : \E d \in Tracked : Comparable(d) /\ x = Sample(d)
           /\ reported' \in [Devices -> Nat]
           /\ \A d \in Devices :
                 \/ /\ d \in Tracked /\ Comparable(d)
                    /\ reported'[d] = reported[d] + (counters[d].weighted - prev[d].weighted)
                 \/ ~ (d \in Tracked /\ Comparable(d)) /\ reported'[d] = reported[d]
<1>1. out' = {Sample(d) : d \in {e \in Tracked : Comparable(e)}}
  BY DEF Collect
<1>2. reported' = [d \in Devices |->
                      IF \E x \in out' : x.device = d
                      THEN reported[d] + (CHOOSE x \in out' : x.device = d).depth
                      ELSE reported[d]]
  BY DEF Collect
<1>3. \A d : /\ Sample(d).device = d
             /\ Sample(d).depth = counters[d].weighted - prev[d].weighted
  BY DEF Sample
<1>4. \A x \in out' : \E d \in Tracked : Comparable(d) /\ x = Sample(d)
  BY <1>1
<1>5. ASSUME NEW d \in Devices
      PROVE  /\ reported'[d] \in Nat
             /\ \/ /\ d \in Tracked /\ Comparable(d)
                   /\ reported'[d] = reported[d] + (counters[d].weighted - prev[d].weighted)
                \/ ~ (d \in Tracked /\ Comparable(d)) /\ reported'[d] = reported[d]
  <2>1. reported[d] \in Nat /\ counters[d].weighted \in Nat
    BY Types DEF Inv
  <2>2. CASE d \in Tracked /\ Comparable(d)
    <3> DEFINE x == CHOOSE y \in out' : y.device = d
    <3>1. Sample(d) \in out'
      BY <1>1, <2>2
    <3>2. x \in out' /\ x.device = d
      BY <1>3, <3>1
    <3> HIDE DEF x
    <3>3. x = Sample(d)
      BY <1>3, <1>4, <3>2
    <3>4. x.depth = counters[d].weighted - prev[d].weighted
      BY <1>3, <3>3
    <3>5. reported'[d] = reported[d] + x.depth
      BY <1>2, <1>3, <3>1 DEF x
    <3>6. prev[d].weighted \in Nat /\ counters[d].weighted >= prev[d].weighted
      BY <2>2, Types DEF Inv, Comparable
    <3>7. reported[d] + (counters[d].weighted - prev[d].weighted) \in Nat
      BY <2>1, <3>6
    <3> QED
      BY <2>2, <3>4, <3>5, <3>7
  <2>3. CASE ~ (d \in Tracked /\ Comparable(d))
    <3>1. \A x \in out' : x.device # d
      BY <1>3, <1>4, <2>3
    <3>2. reported'[d] = reported[d]
      BY <1>2, <3>1
    <3> QED
      BY <2>1, <2>3, <3>2
  <2> QED
    BY <2>2, <2>3
<1>6. reported' \in [Devices -> Nat]
  <2>1. \A d \in Devices : reported'[d] \in Nat
    BY <1>5
  <2>2. reported' = [d \in Devices |-> reported'[d]]
    BY <1>2
  <2> QED
    BY <2>1, <2>2
<1> QED
  BY <1>4, <1>5, <1>6

\* What it does to the baselines and to the history.
LEMMA CollectBaselines ==
    ASSUME Inv, Collect
    PROVE  /\ DOMAIN prev' = (DOMAIN prev \cup Tracked) \cap Range(listed)
           /\ \A d \in DOMAIN prev' :
                 \/ d \in Tracked /\ prev'[d] = Latest(d)
                 \/ d \notin Tracked /\ d \in DOMAIN prev /\ prev'[d] = prev[d]
           /\ prev' \in [DOMAIN prev' -> Baseline]
           /\ DOMAIN work' = DOMAIN work \cup Tracked
           /\ \A d \in DOMAIN work' :
                 \/ d \in DOMAIN work /\ work'[d] = work[d]
                 \/ d \notin DOMAIN work /\ work'[d] = 0
           /\ work' \in [DOMAIN work' -> Nat]
<1>1. prev' = [d \in (DOMAIN prev \cup Tracked) \cap Range(listed) |->
                  IF d \in Tracked THEN Latest(d) ELSE prev[d]]
  BY DEF Collect, Baselines
<1>2. work' = [d \in DOMAIN work \cup Tracked |-> IF d \in DOMAIN work THEN work[d] ELSE 0]
  BY DEF Collect
<1>3. listed \in Seq(Devices)
  BY DEF Inv, TypeOK
<1>4. Tracked \subseteq Range(listed) /\ Range(listed) \subseteq Devices
  BY <1>3, TrackedListed
<1>5. \A d \in Devices : Latest(d) \in Baseline
  BY Types DEF Inv, Latest, Baseline
<1>6. \A d \in DOMAIN prev : prev[d] \in Baseline
  BY DEF Inv, TypeOK
<1>7. \A d \in DOMAIN work : work[d] \in Nat
  BY Types DEF Inv
<1>8. /\ DOMAIN prev' = (DOMAIN prev \cup Tracked) \cap Range(listed)
      /\ \A d \in DOMAIN prev' :
            \/ d \in Tracked /\ prev'[d] = Latest(d)
            \/ d \notin Tracked /\ d \in DOMAIN prev /\ prev'[d] = prev[d]
  BY <1>1
<1>9. prev' \in [DOMAIN prev' -> Baseline]
  <2>1. \A d \in (DOMAIN prev \cup Tracked) \cap Range(listed) :
            (IF d \in Tracked THEN Latest(d) ELSE prev[d]) \in Baseline
    BY <1>4, <1>5, <1>6
  <2> QED
    BY <1>1, <2>1
<1>10. /\ DOMAIN work' = DOMAIN work \cup Tracked
       /\ \A d \in DOMAIN work' :
             \/ d \in DOMAIN work /\ work'[d] = work[d]
             \/ d \notin DOMAIN work /\ work'[d] = 0
  BY <1>2
<1>11. work' \in [DOMAIN work' -> Nat]
  BY <1>2, <1>7
<1> QED
  BY <1>8, <1>9, <1>10, <1>11

\* A call keeps the invariant.
LEMMA CollectKeeps ==
    ASSUME Inv, Collect
    PROVE  Inv'
<1>0. /\ TypeOK /\ BusySince /\ WorkSince /\ Steady
      /\ NothingTwice /\ NothingLost /\ UtilBounded /\ NoBridge
  BY DEF Inv
<1>1. /\ UNCHANGED <<clock, now, listed, counters>>
      /\ reading' = FALSE
      /\ aggregate' = IF AggregateAll THEN {x.device : x \in out'} ELSE {}
      /\ spoiled' = spoiled \cup {d \in Tracked \cap DOMAIN prev :
                                    /\ now = prev[d].at
                                    /\ counters[d].weighted > prev[d].weighted}
      /\ missed' = (missed \cup (DOMAIN work \ Range(listed))) \ Tracked
  BY DEF Collect
<1>2. /\ DOMAIN prev' = (DOMAIN prev \cup Tracked) \cap Range(listed)
      /\ \A d \in DOMAIN prev' :
            \/ d \in Tracked /\ prev'[d] = Latest(d)
            \/ d \notin Tracked /\ d \in DOMAIN prev /\ prev'[d] = prev[d]
      /\ prev' \in [DOMAIN prev' -> Baseline]
      /\ DOMAIN work' = DOMAIN work \cup Tracked
      /\ \A d \in DOMAIN work' :
            \/ d \in DOMAIN work /\ work'[d] = work[d]
            \/ d \notin DOMAIN work /\ work'[d] = 0
      /\ work' \in [DOMAIN work' -> Nat]
  BY CollectBaselines
<1>3. /\ \A x \in out' : \E d \in Tracked : Comparable(d) /\ x = Sample(d)
      /\ reported' \in [Devices -> Nat]
      /\ \A d \in Devices :
            \/ /\ d \in Tracked /\ Comparable(d)
               /\ reported'[d] = reported[d] + (counters[d].weighted - prev[d].weighted)
            \/ ~ (d \in Tracked /\ Comparable(d)) /\ reported'[d] = reported[d]
  BY CollectReports
<1>4. Tracked \subseteq Range(listed) /\ Range(listed) \subseteq Devices
  BY <1>0, TrackedListed DEF TypeOK
<1>5. /\ clock \in Nat /\ now \in Nat
      /\ \A d \in Devices :
            /\ counters[d].weighted \in Nat /\ counters[d].busy \in Nat
            /\ reported[d] \in Nat
      /\ \A d \in DOMAIN prev :
            /\ d \in Devices /\ d \in DOMAIN work
            /\ prev[d].weighted \in Nat /\ prev[d].busy \in Nat /\ prev[d].at \in Nat
      /\ \A d \in DOMAIN work : work[d] \in Nat
  BY <1>0, Types
<1>6. \A d : /\ Latest(d).weighted = counters[d].weighted
             /\ Latest(d).busy = counters[d].busy
             /\ Latest(d).at = now
  BY DEF Latest
<1>7. ASSUME NEW x \in out'
      PROVE  /\ x \in [device : Devices, depth : Nat, util : Nat, elapsed : Nat \ {0}]
             /\ x.util <= x.elapsed + (clock - now)
  <2>1. PICK d \in Tracked : Comparable(d) /\ x = Sample(d)
    BY <1>3
  <2>2. /\ d \in DOMAIN prev /\ d \in Devices
        /\ now > prev[d].at
        /\ counters[d].weighted >= prev[d].weighted
        /\ counters[d].busy >= prev[d].busy
    BY <1>4, <2>1 DEF Comparable
  <2>3. counters[d].busy - prev[d].busy <= clock - prev[d].at
    BY <1>0, <2>2 DEF BusySince
  <2>4. /\ counters[d].weighted \in Nat /\ counters[d].busy \in Nat /\ prev[d].at \in Nat
        /\ prev[d].weighted \in Nat /\ prev[d].busy \in Nat
    BY <1>5, <2>2
  <2>5. /\ counters[d].weighted - prev[d].weighted \in Nat
        /\ counters[d].busy - prev[d].busy \in Nat
        /\ now - prev[d].at \in Nat \ {0}
    BY <1>5, <2>2, <2>4
  <2>6. clock - prev[d].at = (now - prev[d].at) + (clock - now)
    BY <1>5, <2>4
  <2> QED
    BY <2>1, <2>2, <2>3, <2>5, <2>6 DEF Sample
<1>8. DOMAIN work \subseteq DOMAIN work' /\ DOMAIN prev' \subseteq DOMAIN work'
  BY <1>2, <1>5
<1>9. TypeOK'
  <2>1. out' \subseteq [device : Devices, depth : Nat, util : Nat, elapsed : Nat \ {0}]
    BY <1>7
  <2>2. aggregate' \subseteq {x.device : x \in out'}
    BY <1>1
  <2>3. DOMAIN prev' \subseteq Devices
    BY <1>2, <1>4
  <2>4. {spoiled', missed'} \subseteq SUBSET Devices
    BY <1>0, <1>1, <1>4 DEF TypeOK, WorkSince
  <2> QED
    BY <1>0, <1>1, <1>2, <1>3, <1>8, <2>1, <2>2, <2>3, <2>4 DEF TypeOK
<1>10. BusySince'
  <2> SUFFICES ASSUME NEW d \in DOMAIN prev'
               PROVE  /\ prev'[d].at <= now
                      /\ counters[d].busy - prev'[d].busy <= clock - prev'[d].at
    BY <1>0, <1>1 DEF BusySince
  <2>1. CASE d \in Tracked /\ prev'[d] = Latest(d)
    <3>1. prev'[d].at = now /\ prev'[d].busy = counters[d].busy
      BY <1>6, <2>1
    <3>2. counters[d].busy \in Nat /\ now <= clock
      BY <1>0, <1>4, <1>5, <2>1 DEF BusySince
    <3> QED
      BY <1>5, <3>1, <3>2
  <2>2. CASE d \in DOMAIN prev /\ prev'[d] = prev[d]
    BY <1>0, <2>2 DEF BusySince
  <2> QED
    BY <1>2, <2>1, <2>2
<1>11. ASSUME NEW d \in DOMAIN prev
       PROVE  /\ d \in Devices /\ d \in DOMAIN work /\ work'[d] = work[d]
              /\ reported[d] \in Nat /\ work[d] \in Nat
              /\ counters[d].weighted \in Nat /\ prev[d].weighted \in Nat
              /\ reported[d] + (counters[d].weighted - prev[d].weighted) <= work[d]
  BY <1>0, <1>2, <1>5 DEF WorkSince
<1>12. ASSUME NEW d \in Devices
       PROVE  /\ d \notin DOMAIN work' => reported'[d] = 0
              /\ d \in DOMAIN work' => reported'[d] <= work'[d]
  <2>1. CASE d \in Tracked /\ Comparable(d)
    <3>1. d \in DOMAIN prev
      BY <2>1 DEF Comparable
    <3>2. reported'[d] = reported[d] + (counters[d].weighted - prev[d].weighted)
      BY <1>3, <2>1
    <3>3. d \in DOMAIN work' /\ reported'[d] <= work'[d]
      BY <1>8, <1>11, <3>1, <3>2
    <3> QED
      BY <3>3
  <2>2. CASE ~ (d \in Tracked /\ Comparable(d))
    <3>1. reported'[d] = reported[d]
      BY <1>3, <2>2
    <3>2. CASE d \in DOMAIN work
      <4>1. d \in DOMAIN work' /\ work'[d] = work[d]
        BY <1>2, <3>2
      <4>2. reported[d] <= work[d]
        BY <1>0, <3>2 DEF NothingTwice
      <4> QED
        BY <3>1, <4>1, <4>2
    <3>3. CASE d \notin DOMAIN work
      <4>1. reported[d] = 0
        BY <1>0, <3>3 DEF WorkSince
      <4>2. d \in DOMAIN work' => work'[d] = 0
        BY <1>2, <3>3
      <4> QED
        BY <3>1, <4>1, <4>2
    <3> QED
      BY <3>2, <3>3
  <2> QED
    BY <2>1, <2>2
<1>13. WorkSince' /\ NothingTwice'
  <2>1. DOMAIN work' \subseteq Devices
    BY <1>0, <1>2, <1>4 DEF WorkSince
  <2>2. ASSUME NEW d \in DOMAIN prev'
        PROVE  reported'[d] + (counters[d].weighted - prev'[d].weighted) <= work'[d]
    <3>1. d \in Devices /\ d \in DOMAIN work'
      BY <1>2, <1>4, <1>8
    <3>2. CASE d \in Tracked /\ prev'[d] = Latest(d)
      <4>1. counters[d].weighted - prev'[d].weighted = 0
        BY <1>5, <1>6, <3>1, <3>2
      <4>2. reported'[d] <= work'[d] /\ reported'[d] \in Nat
        BY <1>3, <1>12, <3>1
      <4>3. reported'[d] + 0 = reported'[d]
        BY <4>2
      <4> QED
        BY <4>1, <4>2, <4>3
    <3>3. CASE d \notin Tracked /\ d \in DOMAIN prev /\ prev'[d] = prev[d]
      <4>1. reported'[d] = reported[d]
        BY <1>3, <3>1, <3>3
      <4> QED
        BY <1>11, <3>3, <4>1
    <3> QED
      BY <1>2, <3>2, <3>3
  <2>3. WorkSince'
    BY <1>1, <1>12, <2>1, <2>2 DEF WorkSince
  <2>4. NothingTwice'
    BY <1>12, <2>1 DEF NothingTwice
  <2> QED
    BY <2>3, <2>4
<1>14. Steady'
  <2>0. DOMAIN work' \subseteq DOMAIN prev' \cup spoiled /\ spoiled \subseteq spoiled'
    <3>1. \A d \in DOMAIN work \ spoiled : d \in DOMAIN prev /\ d \in Range(listed)
      BY <1>0 DEF Steady
    <3> QED
      BY <1>1, <1>2, <1>4, <3>1
  <2> SUFFICES ASSUME NEW d \in DOMAIN prev' \ spoiled
               PROVE  /\ d \in Range(listed)
                      /\ prev'[d].weighted <= counters[d].weighted
                      /\ prev'[d].busy <= counters[d].busy
    BY <1>1, <2>0 DEF Steady
  <2>1. d \in Range(listed) /\ d \in Devices
    BY <1>2, <1>4
  <2>2. CASE d \in Tracked /\ prev'[d] = Latest(d)
    <3>1. prev'[d].weighted = counters[d].weighted /\ prev'[d].busy = counters[d].busy
      BY <1>6, <2>2
    <3>2. counters[d].busy \in Nat /\ counters[d].weighted \in Nat
      BY <1>5, <2>1
    <3> QED
      BY <2>1, <3>1, <3>2
  <2>3. CASE d \in DOMAIN prev /\ prev'[d] = prev[d]
    BY <1>0, <2>1, <2>3 DEF Steady
  <2> QED
    BY <1>2, <2>2, <2>3
<1>15. NothingLost'
  <2>0. spoiled \subseteq spoiled'
    BY <1>1
  <2> SUFFICES ASSUME NEW d \in DOMAIN prev' \ spoiled'
               PROVE  reported'[d] + (counters[d].weighted - prev'[d].weighted) = work'[d]
    BY <1>1 DEF NothingLost
  <2>1. d \in Devices /\ d \in DOMAIN work'
    BY <1>2, <1>4, <1>8
  <2>2. counters[d].weighted \in Nat /\ reported'[d] \in Nat /\ reported[d] \in Nat
    BY <1>3, <1>5, <2>1
  <2>3. CASE d \in Tracked /\ prev'[d] = Latest(d)
    <3>1. counters[d].weighted - prev'[d].weighted = 0
      BY <1>6, <2>2, <2>3
    <3>2. CASE d \in DOMAIN prev
      <4>1. reported[d] + (counters[d].weighted - prev[d].weighted) = work[d]
        BY <1>0, <2>0, <3>2 DEF NothingLost
      <4>2. reported'[d] = reported[d] + (counters[d].weighted - prev[d].weighted)
        <5>1. CASE Comparable(d)
          BY <1>3, <2>1, <2>3, <5>1
        <5>2. CASE ~ Comparable(d)
          <6>1. reported'[d] = reported[d]
            BY <1>3, <2>1, <5>2
          <6>2. now = prev[d].at /\ prev[d].weighted <= counters[d].weighted
            BY <2>0, <3>2, <5>2, SteadySample
          <6>3. ~ (counters[d].weighted > prev[d].weighted)
            BY <1>1, <2>3, <3>2, <6>2
          <6>4. counters[d].weighted = prev[d].weighted
            BY <1>5, <2>2, <3>2, <6>2, <6>3
          <6> QED
            BY <2>2, <6>1, <6>4
        <5> QED
          BY <5>1, <5>2
      <4> QED
        BY <1>11, <2>2, <3>1, <3>2, <4>1, <4>2
    <3>3. CASE d \notin DOMAIN prev
      <4>1. reported'[d] = reported[d]
        BY <1>3, <2>1, <3>3 DEF Comparable
      <4>2. d \notin DOMAIN work
        BY <1>0, <2>0, <3>3 DEF Steady
      <4>3. reported[d] = 0 /\ work'[d] = 0
        BY <1>0, <1>2, <2>1, <4>2 DEF WorkSince
      <4> QED
        BY <3>1, <4>1, <4>3
    <3> QED
      BY <3>2, <3>3
  <2>4. CASE d \notin Tracked /\ d \in DOMAIN prev /\ prev'[d] = prev[d]
    <3>1. reported[d] + (counters[d].weighted - prev[d].weighted) = work[d]
      BY <1>0, <2>0, <2>4 DEF NothingLost
    <3>2. reported'[d] = reported[d]
      BY <1>3, <2>1, <2>4
    <3> QED
      BY <1>11, <2>4, <3>1, <3>2
  <2> QED
    BY <1>2, <2>3, <2>4
<1>16. UtilBounded' /\ NoBridge'
  <2>1. UtilBounded'
    BY <1>1, <1>7 DEF UtilBounded
  <2>2. NoBridge'
    BY <1>0, <1>1, <1>2, <1>4 DEF NoBridge
  <2> QED
    BY <2>1, <2>2
<1> QED
  BY <1>9, <1>10, <1>13, <1>14, <1>15, <1>16 DEF Inv

\* Time passes, and no device is busy for longer.
LEMMA ServeKeeps ==
    ASSUME Inv, NEW D \in SUBSET Range(listed), NEW k \in 1..2, Serve(D, k)
    PROVE  Inv'
<1>0. /\ TypeOK /\ BusySince /\ WorkSince /\ Steady
      /\ NothingTwice /\ NothingLost /\ UtilBounded /\ NoBridge
  BY DEF Inv
<1>1. /\ clock' = clock + 1
      /\ counters' = [d \in Devices |->
                        IF d \in D
                        THEN [weighted |-> counters[d].weighted + k,
                              busy     |-> counters[d].busy + 1]
                        ELSE counters[d]]
      /\ work' = [d \in DOMAIN work |-> work[d] + (IF d \in D THEN k ELSE 0)]
      /\ UNCHANGED <<now, reading, listed, prev, out, aggregate, reported, spoiled, missed>>
  BY DEF Serve
<1>2. /\ clock \in Nat /\ now \in Nat
      /\ \A d \in Devices :
            /\ counters[d].weighted \in Nat /\ counters[d].busy \in Nat
            /\ reported[d] \in Nat
      /\ \A d \in DOMAIN prev :
            /\ d \in Devices /\ d \in DOMAIN work
            /\ prev[d].weighted \in Nat /\ prev[d].busy \in Nat /\ prev[d].at \in Nat
      /\ \A d \in DOMAIN work : work[d] \in Nat
  BY <1>0, Types
<1>3. \A d \in Devices :
          \/ /\ d \in D
             /\ counters'[d].weighted = counters[d].weighted + k
             /\ counters'[d].busy = counters[d].busy + 1
          \/ d \notin D /\ counters'[d] = counters[d]
  BY <1>1
<1>4. DOMAIN work' = DOMAIN work
  BY <1>1
<1>5. \A d \in DOMAIN work : \/ d \in D /\ work'[d] = work[d] + k
                             \/ d \notin D /\ work'[d] = work[d]
  <2>1. \A d \in DOMAIN work : work'[d] = work[d] + (IF d \in D THEN k ELSE 0)
    BY <1>1
  <2>2. \A d \in DOMAIN work : work[d] + 0 = work[d]
    BY <1>2
  <2> QED
    BY <2>1, <2>2
<1>6. TypeOK'
  <2>1. counters' \in [Devices -> Counts]
    <3>1. \A d \in Devices : counters[d] \in Counts
      BY <1>0 DEF TypeOK
    <3>2. \A d \in Devices :
              [weighted |-> counters[d].weighted + k, busy |-> counters[d].busy + 1] \in Counts
      BY <1>2 DEF Counts
    <3> QED
      BY <1>1, <3>1, <3>2
  <2>2. work' \in [DOMAIN work' -> Nat]
    <3>1. \A d \in DOMAIN work : work[d] + (IF d \in D THEN k ELSE 0) \in Nat
      BY <1>2
    <3> QED
      BY <1>1, <3>1
  <2> QED
    BY <1>0, <1>1, <1>2, <1>4, <2>1, <2>2 DEF TypeOK
<1>7. ASSUME NEW d \in DOMAIN prev
      PROVE  /\ prev[d].at <= now
             /\ counters'[d].busy - prev[d].busy <= clock' - prev[d].at
             /\ reported[d] + (counters'[d].weighted - prev[d].weighted) <= work'[d]
             /\ d \notin spoiled =>
                   reported[d] + (counters'[d].weighted - prev[d].weighted) = work'[d]
  <2>1. /\ prev[d].at <= now
        /\ counters[d].busy - prev[d].busy <= clock - prev[d].at
        /\ reported[d] + (counters[d].weighted - prev[d].weighted) <= work[d]
        /\ d \notin spoiled =>
              reported[d] + (counters[d].weighted - prev[d].weighted) = work[d]
    BY <1>0 DEF BusySince, WorkSince, NothingLost
  <2>2. /\ d \in Devices /\ d \in DOMAIN work
        /\ counters[d].weighted \in Nat /\ counters[d].busy \in Nat /\ reported[d] \in Nat
        /\ prev[d].weighted \in Nat /\ prev[d].busy \in Nat /\ prev[d].at \in Nat
        /\ work[d] \in Nat /\ k \in Nat
    BY <1>2
  <2>3. CASE d \in D
    <3>1. /\ counters'[d].weighted = counters[d].weighted + k
          /\ counters'[d].busy = counters[d].busy + 1
          /\ work'[d] = work[d] + k
      BY <1>3, <1>5, <2>2, <2>3
    <3> QED
      BY <1>1, <1>2, <2>1, <2>2, <3>1
  <2>4. CASE d \notin D
    <3>1. counters'[d] = counters[d] /\ work'[d] = work[d]
      BY <1>3, <1>5, <2>2, <2>4
    <3> QED
      BY <1>1, <1>2, <2>1, <2>2, <3>1
  <2> QED
    BY <2>3, <2>4
<1>8. BusySince' /\ WorkSince' /\ NothingLost'
  <2>1. BusySince'
    <3>1. now' <= clock'
      BY <1>0, <1>1, <1>2 DEF BusySince
    <3> QED
      BY <1>1, <1>7, <3>1 DEF BusySince
  <2>2. WorkSince'
    BY <1>0, <1>1, <1>4, <1>7 DEF WorkSince
  <2>3. NothingLost'
    BY <1>1, <1>7 DEF NothingLost
  <2> QED
    BY <2>1, <2>2, <2>3
<1>9. Steady'
  <2>1. ASSUME NEW d \in DOMAIN prev \ spoiled
        PROVE  /\ d \in Range(listed)
               /\ prev[d].weighted <= counters'[d].weighted
               /\ prev[d].busy <= counters'[d].busy
    <3>1. /\ d \in Range(listed)
          /\ prev[d].weighted <= counters[d].weighted
          /\ prev[d].busy <= counters[d].busy
      BY <1>0 DEF Steady
    <3>2. /\ d \in Devices /\ counters[d].weighted \in Nat /\ counters[d].busy \in Nat
          /\ prev[d].weighted \in Nat /\ prev[d].busy \in Nat
          /\ k \in Nat
      BY <1>2
    <3>3. CASE d \in D
      BY <1>1, <1>2, <1>3, <3>1, <3>2, <3>3
    <3>4. CASE d \notin D
      BY <1>1, <1>2, <1>3, <3>1, <3>2, <3>4
    <3> QED
      BY <3>3, <3>4
  <2> QED
    BY <1>0, <1>1, <1>4, <2>1 DEF Steady
<1>10. NothingTwice'
  <2> SUFFICES ASSUME NEW d \in DOMAIN work
               PROVE  reported[d] <= work'[d]
    BY <1>1, <1>4 DEF NothingTwice
  <2>1. reported[d] <= work[d] /\ work[d] \in Nat /\ reported[d] \in Nat /\ k \in Nat
    BY <1>0, <1>2 DEF NothingTwice, WorkSince
  <2> QED
    BY <1>5, <2>1
<1>11. UtilBounded' /\ NoBridge'
  <2>1. ASSUME NEW x \in out
        PROVE  x.util <= x.elapsed + (clock' - now)
    <3>1. x.util <= x.elapsed + (clock - now)
      BY <1>0 DEF UtilBounded
    <3>2. x.util \in Nat /\ x.elapsed \in Nat
      BY <1>0 DEF TypeOK
    <3> QED
      BY <1>1, <1>2, <3>1, <3>2
  <2>2. UtilBounded'
    BY <1>1, <2>1 DEF UtilBounded
  <2>3. NoBridge'
    BY <1>0, <1>1 DEF NoBridge
  <2> QED
    BY <2>2, <2>3
<1> QED
  BY <1>6, <1>8, <1>9, <1>10, <1>11 DEF Inv

\* A device that is plugged in is listed, after the others.
LEMMA PlugKeeps ==
    ASSUME Inv, NEW d \in Devices, Plug(d)
    PROVE  Inv'
<1>0. /\ TypeOK /\ BusySince /\ WorkSince /\ Steady
      /\ NothingTwice /\ NothingLost /\ UtilBounded /\ NoBridge
  BY DEF Inv
<1>1. /\ listed' = Append(listed, d)
      /\ UNCHANGED <<clock, now, reading, counters, prev, out, aggregate, work, reported,
                     spoiled, missed>>
  BY DEF Plug
<1>2. listed' \in Seq(Devices) /\ Range(listed) \subseteq Range(listed')
  BY <1>0, <1>1, AppendListed DEF TypeOK
<1>3. TypeOK'
  BY <1>0, <1>1, <1>2 DEF TypeOK
<1>4. BusySince' /\ WorkSince' /\ Steady'
  BY <1>0, <1>1, <1>2 DEF BusySince, WorkSince, Steady
<1>5. NothingTwice' /\ NothingLost' /\ UtilBounded' /\ NoBridge'
  BY <1>0, <1>1 DEF NothingTwice, NothingLost, UtilBounded, NoBridge
<1> QED
  BY <1>3, <1>4, <1>5 DEF Inv

\* A device that is gone is spoiled if it has a baseline, and its counters fall to
\* zero, which reports nothing.
LEMMA UnplugKeeps ==
    ASSUME Inv, NEW d \in Devices, Unplug(d)
    PROVE  Inv'
<1>0. /\ TypeOK /\ BusySince /\ WorkSince /\ Steady
      /\ NothingTwice /\ NothingLost /\ UtilBounded /\ NoBridge
  BY DEF Inv
<1>1. PICK i \in DOMAIN listed : listed[i] = d /\ listed' = RemoveAt(listed, i)
  BY DEF Unplug
<1>2. /\ counters' = [counters EXCEPT ![d] = Fresh]
      /\ spoiled' = spoiled \cup ({d} \cap DOMAIN work)
      /\ UNCHANGED <<clock, now, reading, prev, out, aggregate, work, reported, missed>>
  BY DEF Unplug
<1>3. listed' \in Seq(Devices) /\ \A x \in Range(listed) : x = d \/ x \in Range(listed')
  BY <1>0, <1>1, RemoveListed DEF TypeOK
<1>4. /\ clock \in Nat /\ now \in Nat
      /\ \A e \in Devices :
            /\ counters[e].weighted \in Nat /\ counters[e].busy \in Nat
            /\ reported[e] \in Nat
      /\ \A e \in DOMAIN prev :
            /\ e \in Devices /\ e \in DOMAIN work
            /\ prev[e].weighted \in Nat /\ prev[e].busy \in Nat /\ prev[e].at \in Nat
      /\ \A e \in DOMAIN work : work[e] \in Nat
  BY <1>0, Types
<1>5. counters \in [Devices -> Counts] /\ Fresh \in Counts
      /\ Fresh.weighted = 0 /\ Fresh.busy = 0
  BY <1>0 DEF TypeOK, Fresh, Counts
<1>6. \A e \in Devices : \/ e # d /\ counters'[e] = counters[e]
                         \/ e = d /\ counters'[e] = Fresh
  BY <1>2, <1>5
<1>7. TypeOK'
  <2>1. counters' \in [Devices -> Counts]
    BY <1>2, <1>5
  <2>2. spoiled' \in SUBSET Devices
    BY <1>0, <1>2 DEF TypeOK
  <2> QED
    BY <1>0, <1>2, <1>3, <2>1, <2>2 DEF TypeOK
<1>8. ASSUME NEW e \in DOMAIN prev
      PROVE  /\ counters'[e].busy - prev[e].busy <= clock - prev[e].at
             /\ reported[e] + (counters'[e].weighted - prev[e].weighted) <= work[e]
  <2>1. /\ now <= clock /\ prev[e].at <= now
        /\ counters[e].busy - prev[e].busy <= clock - prev[e].at
        /\ reported[e] + (counters[e].weighted - prev[e].weighted) <= work[e]
    BY <1>0 DEF BusySince, WorkSince
  <2>2. CASE e # d
    <3>1. counters'[e] = counters[e]
      BY <1>4, <1>6, <2>2
    <3> QED
      BY <2>1, <3>1
  <2>3. CASE e = d
    <3>1. counters'[e].weighted = 0 /\ counters'[e].busy = 0
      BY <1>5, <1>6, <2>3
    <3>2. reported[e] <= work[e]
      BY <1>0, <1>4 DEF NothingTwice
    <3>3. /\ prev[e].weighted \in Nat /\ prev[e].busy \in Nat /\ prev[e].at \in Nat
          /\ reported[e] \in Nat /\ work[e] \in Nat
      BY <1>4
    <3> QED
      BY <1>4, <2>1, <3>1, <3>2, <3>3
  <2> QED
    BY <2>2, <2>3
<1>9. \A e \in DOMAIN prev \ spoiled' :
          e # d /\ e \notin spoiled /\ counters'[e] = counters[e]
  <2>1. \A e \in DOMAIN prev \ spoiled' : e # d /\ e \notin spoiled
    BY <1>2, <1>4
  <2> QED
    BY <1>4, <1>6, <2>1
<1>10. BusySince' /\ WorkSince'
  <2>1. BusySince'
    BY <1>0, <1>2, <1>8 DEF BusySince
  <2>2. WorkSince'
    BY <1>0, <1>2, <1>8 DEF WorkSince
  <2> QED
    BY <2>1, <2>2
<1>11. Steady' /\ NothingLost'
  <2>1. Steady'
    BY <1>0, <1>2, <1>3, <1>9 DEF Steady
  <2>2. NothingLost'
    BY <1>0, <1>2, <1>9 DEF NothingLost
  <2> QED
    BY <2>1, <2>2
<1>12. NothingTwice' /\ UtilBounded' /\ NoBridge'
  BY <1>0, <1>2 DEF NothingTwice, UtilBounded, NoBridge
<1> QED
  BY <1>7, <1>10, <1>11, <1>12 DEF Inv
-----------------------------------------------------------------------------
\* The invariant holds, whichever devices come and go and whichever calls fail.
THEOREM Invariance == Spec => []Inv
<1>1. Init => Inv
  <2> SUFFICES ASSUME Init
               PROVE  Inv
    OBVIOUS
  <2>1. /\ clock = 0 /\ now = 0 /\ reading = FALSE
        /\ listed = <<>> /\ out = {} /\ aggregate = {}
        /\ counters = [d \in Devices |-> Fresh] /\ prev = <<>> /\ work = <<>>
        /\ reported = [d \in Devices |-> 0] /\ spoiled = {} /\ missed = {}
    BY DEF Init
  <2>2. DOMAIN prev = {} /\ DOMAIN work = {}
    BY <2>1
  <2>3. TypeOK
    <3>1. Fresh \in Counts
      BY DEF Fresh, Counts
    <3>2. prev \in [DOMAIN prev -> Baseline] /\ work \in [DOMAIN work -> Nat]
      BY <2>1
    <3>3. listed \in Seq(Devices)
      BY <2>1
    <3>4. counters \in [Devices -> Counts] /\ reported \in [Devices -> Nat]
      BY <2>1, <3>1
    <3>5. {clock, now} \subseteq Nat
      BY <2>1
    <3>6. reading \in BOOLEAN
      BY <2>1, Zenon
    <3>7. {spoiled, missed} \subseteq SUBSET Devices
      BY <2>1
    <3> QED
      BY <2>1, <2>2, <3>2, <3>3, <3>4, <3>5, <3>6, <3>7 DEF TypeOK
  <2>4. BusySince /\ WorkSince /\ Steady
    BY <2>1, <2>2 DEF BusySince, WorkSince, Steady
  <2>5. NothingTwice /\ NothingLost /\ UtilBounded /\ NoBridge
    BY <2>1, <2>2 DEF NothingTwice, NothingLost, UtilBounded, NoBridge
  <2> QED
    BY <2>3, <2>4, <2>5 DEF Inv
<1>2. Inv /\ [Next]_vars => Inv'
  <2> SUFFICES ASSUME Inv, [Next]_vars
               PROVE  Inv'
    OBVIOUS
  <2>0. /\ TypeOK /\ BusySince /\ WorkSince /\ Steady
        /\ NothingTwice /\ NothingLost /\ UtilBounded /\ NoBridge
    BY DEF Inv
  <2>1. ASSUME NEW D \in SUBSET Range(listed), NEW k \in 1..2, Serve(D, k)
        PROVE  Inv'
    BY <2>1, ServeKeeps
  <2>2. ASSUME NEW d \in Devices, Plug(d)
        PROVE  Inv'
    BY <2>2, PlugKeeps
  <2>3. ASSUME NEW d \in Devices, Unplug(d)
        PROVE  Inv'
    BY <2>3, UnplugKeeps
  <2>4. CASE Collect
    BY <2>4, CollectKeeps
  <2>5. CASE Begin
    <3>1. /\ now' = clock /\ reading' = TRUE /\ out' = {} /\ aggregate' = {}
          /\ UNCHANGED <<clock, listed, counters, prev, work, reported, spoiled, missed>>
      BY <2>5 DEF Begin
    <3>2. TypeOK'
      BY <2>0, <3>1 DEF TypeOK
    <3>3. BusySince'
      <4>1. \A d \in DOMAIN prev : prev[d].at <= clock
        BY <2>0, Types DEF BusySince
      <4> QED
        BY <2>0, <3>1, <4>1, Types DEF BusySince
    <3>4. WorkSince' /\ Steady'
      BY <2>0, <3>1 DEF WorkSince, Steady
    <3>5. NothingTwice' /\ NothingLost' /\ UtilBounded' /\ NoBridge'
      BY <2>0, <3>1 DEF NothingTwice, NothingLost, UtilBounded, NoBridge
    <3> QED
      BY <3>2, <3>3, <3>4, <3>5 DEF Inv
  <2>6. CASE Fail \/ UNCHANGED vars
    <3>1. /\ reading' \in BOOLEAN
          /\ UNCHANGED <<clock, now, listed, counters, prev, out, aggregate, work,
                         reported, spoiled, missed>>
      BY <2>0, <2>6 DEF Fail, vars, TypeOK
    <3>2. TypeOK'
      BY <2>0, <3>1 DEF TypeOK
    <3>3. BusySince' /\ WorkSince' /\ Steady'
      BY <2>0, <3>1 DEF BusySince, WorkSince, Steady
    <3>4. NothingTwice' /\ NothingLost' /\ UtilBounded' /\ NoBridge'
      BY <2>0, <3>1 DEF NothingTwice, NothingLost, UtilBounded, NoBridge
    <3> QED
      BY <3>2, <3>3, <3>4 DEF Inv
  <2> QED
    BY <2>1, <2>2, <2>3, <2>4, <2>5, <2>6 DEF Next
<1> QED
  BY <1>1, <1>2, PTL DEF Spec

\* Every variable keeps its type: no sample is negative or of no time, although
\* counters start over.
THEOREM TypeCorrect == Spec => []TypeOK
<1>1. Inv => TypeOK
  BY DEF Inv
<1> QED
  BY <1>1, Invariance, PTL

\* No queue time is reported twice and none is made up, however often devices are
\* unplugged and others take their names.
THEOREM NothingTwiceAlways == Spec => []NothingTwice
<1>1. Inv => NothingTwice
  BY DEF Inv
<1> QED
  BY <1>1, Invariance, PTL

\* Of a device that stays plugged in, all of its queue time is reported, whichever
\* passes fail, whichever have no room for it, and however late they read.
THEOREM NothingLostAlways == Spec => []NothingLost
<1>1. Inv => NothingLost
  BY DEF Inv
<1> QED
  BY <1>1, Invariance, PTL

\* What min(100.0) hides is no more than the time the read was late, even with
\* another device's baseline.
THEOREM UtilBoundedAlways == Spec => []UtilBounded
<1>1. Inv => UtilBounded
  BY DEF Inv
<1> QED
  BY <1>1, Invariance, PTL

\* A device that a call has found gone has no baseline until it is read again.
THEOREM NoBridgeAlways == Spec => []NoBridge
<1>1. Inv => NoBridge
  BY DEF Inv
<1> QED
  BY <1>1, Invariance, PTL
=============================================================================
