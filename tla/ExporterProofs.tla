--------------------------- MODULE ExporterProofs ---------------------------
(***************************************************************************)
(* Theorems about Exporter, for any number of lives, faults and scrapes:   *)
(* what the process forgets when it ends is neither reported again nor     *)
(* counted again by a scraper.  The invariant says what the current life   *)
(* may still add to the increase a scraper has computed.                   *)
(*                                                                         *)
(* The second part is about Calculations, for any inputs of the kinds that *)
(* its assumptions name: the quantile of a window, Config::load and the    *)
(* choice of devices by name.                                              *)
(***************************************************************************)
EXTENDS Exporter, Calculations, FiniteSetTheorems, SequenceTheorems,
        WellFoundedInduction, TLAPS

History == [reported : Nat, skipped : Nat, emitted : Nat, read : BOOLEAN, ended : BOOLEAN]

\* Only a running process knows or serves anything, and it has a baseline if and
\* only if it has read the counter.
Life ==
    /\ history \in History
    /\ phase # "running" => memory = Fresh /\ ~ serving
    /\ history.read <=> memory.tracker # {}

\* An Option has at most one element.
Options ==
    /\ \A p, q \in memory.tracker : p = q
    /\ \A s, t \in memory.text : s = t
    /\ \A s, t \in scraper.last : s = t

\* The counter never falls, and rises only as time passes.
Ahead ==
    \A p \in memory.tracker : /\ p.at <= clock /\ p.value <= faults
                              /\ p.at = clock => p.value = faults

\* The self-metric counts samples of this life, and a text shows an earlier value.
Counts ==
    /\ memory.samplesTotal <= history.emitted
    /\ \A t \in memory.text : t <= memory.samplesTotal

\* The latest scrape was of this life: the scraper goes on from there.
Continues(last) ==
    /\ last <= memory.samplesTotal
    /\ \A t \in memory.text : last <= t
    /\ scraper.increase + (memory.samplesTotal - last) <= history.emitted

\* It was of an earlier one, or it is as good as one: even if the scraper counts
\* all of this life from zero, there were as many samples.
StartsOver == scraper.increase + memory.samplesTotal <= history.emitted

Scraped ==
    /\ scraper.last = {} => scraper.increase = 0
    /\ \A last \in scraper.last : Continues(last) \/ StartsOver

Inv == TypeOK /\ Life /\ Options /\ Ahead /\ Counts /\ Scraped /\ Accounted
-----------------------------------------------------------------------------
\* A process that ends has left its samples in the count of all lives, so the
\* scraper may count the next life from zero.
LEMMA GoneKeeps ==
    ASSUME Inv, NEW next \in Phases \ {"running"}, NEW clean \in BOOLEAN,
           Gone(next, clean)
    PROVE  Inv'
<1>0. TypeOK /\ Life /\ Options /\ Ahead /\ Counts /\ Scraped /\ Accounted
  BY DEF Inv
<1>1. /\ phase' = next /\ serving' = FALSE /\ memory' = Fresh
      /\ history' = [history EXCEPT !.read = FALSE, !.ended = clean]
      /\ UNCHANGED <<clock, faults, loadable, taken, scraper>>
  BY DEF Gone, environment
<1>2. history \in History
  BY <1>0 DEF Life
<1>3. /\ history' \in History
      /\ history'.read = FALSE
      /\ history'.reported = history.reported
      /\ history'.skipped = history.skipped
      /\ history'.emitted = history.emitted
  BY <1>1, <1>2 DEF History
<1>4. memory'.tracker = {} /\ memory'.samplesTotal = 0 /\ memory'.text = {} /\ memory' \in Memory
  BY <1>1 DEF Fresh, Memory
<1>5. TypeOK'
  <2>1. {history'.reported, history'.skipped, history'.emitted} \subseteq Nat
    BY <1>3 DEF History
  <2>2. {loadable', taken', serving', history'.read, history'.ended} \subseteq BOOLEAN
    BY <1>0, <1>1, <1>3 DEF TypeOK, History
  <2>3. Cardinality(memory'.tracker) <= 1
    BY <1>4, FS_EmptySet
  <2> QED
    BY <1>0, <1>1, <1>4, <2>1, <2>2, <2>3 DEF TypeOK
<1>6. Life'
  <2>1. history'.read <=> memory'.tracker # {}
    BY <1>3, <1>4
  <2>2. memory' = Fresh /\ ~ serving' /\ Fresh' = Fresh
    BY <1>1 DEF Fresh
  <2> QED
    BY <1>3, <2>1, <2>2 DEF Life
<1>7. Options' /\ Ahead' /\ Accounted'
  <2>1. Options'
    BY <1>0, <1>1, <1>4 DEF Options
  <2>2. Ahead'
    BY <1>4 DEF Ahead
  <2>3. Accounted'
    BY <1>0, <1>1, <1>3, <1>4 DEF Accounted
  <2> QED
    BY <2>1, <2>2, <2>3
<1>8. /\ history.emitted \in Nat /\ scraper.increase \in Nat /\ memory.samplesTotal \in Nat
      /\ \A last \in scraper.last : last \in Nat
  BY <1>0 DEF TypeOK, Memory
<1>9. Counts'
  BY <1>3, <1>4, <1>8 DEF Counts
<1>10. Scraped'
  <2>1. ASSUME NEW last \in scraper.last
        PROVE  StartsOver'
    <3>1. scraper.increase <= history.emitted
      <4>1. CASE Continues(last)
        BY <1>8, <4>1 DEF Continues
      <4>2. CASE StartsOver
        BY <1>8, <4>2 DEF StartsOver
      <4> QED
        BY <1>0, <4>1, <4>2 DEF Scraped
    <3> QED
      BY <1>1, <1>3, <1>4, <1>8, <3>1 DEF StartsOver
  <2>2. scraper'.last = {} => scraper'.increase = 0
    BY <1>0, <1>1 DEF Scraped
  <2> QED
    BY <1>1, <2>1, <2>2 DEF Scraped
<1> QED
  BY <1>5, <1>6, <1>7, <1>9, <1>10 DEF Inv

\* What a pass does to the memory and to the history, without a baseline and with
\* one.
LEMMA PassShape ==
    ASSUME Inv, Pass
    PROVE  /\ memory' \in Memory /\ history' \in History
           /\ memory'.tracker = {[value |-> faults, at |-> clock]}
           /\ memory'.text = memory.text
           /\ history'.read = TRUE
           /\ history'.reported + history'.skipped = faults
           /\ \E n \in 0..1 : /\ memory'.samplesTotal = memory.samplesTotal + n
                              /\ history'.emitted = history.emitted + n
<1>0. TypeOK /\ Life /\ Options /\ Ahead /\ Accounted
  BY DEF Inv
<1>1. history \in History /\ memory \in Memory /\ faults \in Nat /\ clock \in Nat
  BY <1>0 DEF Life, TypeOK
<1> DEFINE rate == Rate(memory.tracker, faults, clock)
           n == IF rate = {} THEN 0 ELSE 1
           delta == IF rate = {} THEN 0 ELSE (CHOOSE r \in rate : TRUE).delta
           skipped == IF history.read THEN history.skipped ELSE faults - history.reported
<1>2. /\ memory' = [memory EXCEPT !.tracker = {[value |-> faults, at |-> clock]},
                                  !.samplesTotal = memory.samplesTotal + n]
      /\ history' = [history EXCEPT !.reported = history.reported + delta,
                                    !.skipped = skipped,
                                    !.emitted = history.emitted + n,
                                    !.read = TRUE]
  BY DEF Pass, Remembered
<1>3. n \in 0..1
  OBVIOUS
<1>4. /\ history.reported \in Nat /\ history.skipped \in Nat /\ history.emitted \in Nat
      /\ history.read \in BOOLEAN /\ memory.samplesTotal \in Nat
      /\ memory.tracker \in SUBSET Reading
  BY <1>1 DEF History, Memory
<1>5. delta \in Nat /\ skipped \in Nat /\ history.reported + delta + skipped = faults
  <2>1. CASE memory.tracker = {}
    <3>1. rate = {}
      BY <2>1 DEF Rate
    <3>2. history.read = FALSE
      BY <1>0, <2>1, <1>4 DEF Life
    <3>3. delta = 0 /\ skipped = faults - history.reported
      BY <3>1, <3>2
    <3>4. history.reported + history.skipped <= faults
      BY <1>0 DEF Accounted
    <3> HIDE DEF delta, skipped
    <3> QED
      BY <1>1, <1>4, <3>3, <3>4
  <2>2. CASE memory.tracker # {}
    <3>1. PICK p \in memory.tracker : TRUE
      BY <2>2
    <3>2. memory.tracker = {p}
      BY <1>0 DEF Options
    <3>3. /\ p.at \in Nat /\ p.value \in Nat /\ p.at <= clock /\ p.value <= faults
          /\ p.at = clock => p.value = faults
          /\ history.reported + history.skipped = p.value
      BY <1>0, <1>4 DEF Ahead, Accounted, Reading
    <3>4. skipped = history.skipped
      BY <1>0, <2>2, <1>4 DEF Life
    <3>5. delta = faults - p.value
      <4>1. CASE clock > p.at
        <5>1. rate = {[delta |-> faults - p.value, elapsed |-> clock - p.at]}
          BY <1>1, <3>2, <3>3, <4>1 DEF Rate
        <5> HIDE DEF rate
        <5> DEFINE r == CHOOSE x \in rate : TRUE
        <5>2. r \in rate
          BY <5>1
        <5> HIDE DEF r
        <5>3. r = [delta |-> faults - p.value, elapsed |-> clock - p.at]
          BY <5>1, <5>2
        <5>4. r.delta = faults - p.value
          BY <5>3
        <5>5. rate # {}
          BY <5>1
        <5> QED
          BY <5>4, <5>5 DEF r
      <4>2. CASE ~ (clock > p.at)
        <5>1. rate = {}
          BY <3>2, <4>2 DEF Rate
        <5>2. p.value = faults
          BY <1>1, <3>3, <4>2
        <5>3. delta = 0
          BY <5>1
        <5> HIDE DEF delta
        <5> QED
          BY <1>1, <5>2, <5>3
      <4> QED
        BY <4>1, <4>2
    <3> HIDE DEF delta, skipped
    <3> QED
      BY <1>1, <1>4, <3>3, <3>4, <3>5
  <2> QED
    BY <2>1, <2>2
<1>6. [value |-> faults, at |-> clock] \in Reading
  BY <1>1 DEF Reading
<1> HIDE DEF n, delta, skipped
<1>7. /\ memory' \in Memory
      /\ memory'.tracker = {[value |-> faults, at |-> clock]}
      /\ memory'.text = memory.text
      /\ memory'.samplesTotal = memory.samplesTotal + n
  <2> DEFINE reading == [value |-> faults, at |-> clock]
             count == memory.samplesTotal + n
  <2>1. count \in Nat /\ {reading} \in SUBSET Reading
    BY <1>3, <1>4, <1>6
  <2>2. memory' = [memory EXCEPT !.tracker = {reading}, !.samplesTotal = count]
    BY <1>2
  <2> HIDE DEF reading, count
  <2>3. /\ memory' \in Memory /\ memory'.tracker = {reading}
        /\ memory'.text = memory.text /\ memory'.samplesTotal = count
    BY <1>1, <2>1, <2>2 DEF Memory
  <2> QED
    BY <2>3 DEF reading, count
<1>8. /\ history' \in History
      /\ history'.read = TRUE
      /\ history'.reported = history.reported + delta
      /\ history'.skipped = skipped
      /\ history'.emitted = history.emitted + n
  <2> DEFINE sum == history.reported + delta
             count == history.emitted + n
  <2>1. count \in Nat /\ sum \in Nat
    BY <1>3, <1>4, <1>5
  <2>2. history' = [history EXCEPT !.reported = sum, !.skipped = skipped,
                                   !.emitted = count, !.read = TRUE]
    BY <1>2
  <2> HIDE DEF sum, count
  <2>3. /\ history' \in History /\ history'.read = TRUE /\ history'.reported = sum
        /\ history'.skipped = skipped /\ history'.emitted = count
    BY <1>1, <1>5, <2>1, <2>2 DEF History
  <2> QED
    BY <2>3 DEF sum, count
<1> QED
  BY <1>3, <1>5, <1>7, <1>8

\* A pass keeps the invariant: what it adds to the self-metric was emitted.
LEMMA PassKeeps ==
    ASSUME Inv, Pass
    PROVE  Inv'
<1>0. TypeOK /\ Life /\ Options /\ Ahead /\ Counts /\ Scraped /\ Accounted
  BY DEF Inv
<1>1. /\ memory' \in Memory /\ history' \in History
      /\ memory'.tracker = {[value |-> faults, at |-> clock]}
      /\ memory'.text = memory.text
      /\ history'.read = TRUE
      /\ history'.reported + history'.skipped = faults
  BY PassShape
<1>2. PICK n \in 0..1 : /\ memory'.samplesTotal = memory.samplesTotal + n
                        /\ history'.emitted = history.emitted + n
  BY PassShape
<1>3. UNCHANGED <<clock, faults, loadable, taken, phase, serving, scraper>>
      /\ phase = "running"
  BY DEF Pass, environment
<1>4. /\ clock \in Nat /\ faults \in Nat /\ history.emitted \in Nat /\ scraper.increase \in Nat
      /\ memory.samplesTotal \in Nat /\ (\A t \in memory.text : t \in Nat)
      /\ \A last \in scraper.last : last \in Nat
  BY <1>0 DEF TypeOK, Memory
<1>5. TypeOK'
  <2>1. {history'.reported, history'.skipped, history'.emitted} \subseteq Nat
    BY <1>1 DEF History
  <2>2. {loadable', taken', serving', history'.read, history'.ended} \subseteq BOOLEAN
    BY <1>0, <1>1, <1>3 DEF TypeOK, History
  <2>3. Cardinality(memory'.tracker) <= 1
    <3>1. Cardinality({[value |-> faults, at |-> clock]}) = 1
      BY FS_Singleton
    <3> QED
      BY <1>1, <3>1
  <2> QED
    BY <1>0, <1>1, <1>3, <2>1, <2>2, <2>3 DEF TypeOK
<1>6. Life'
  <2>1. history'.read <=> memory'.tracker # {}
    BY <1>1
  <2> QED
    BY <1>1, <1>3, <2>1 DEF Life
<1>7. Options'
  BY <1>0, <1>1, <1>3 DEF Options
<1>8. Ahead'
  BY <1>1, <1>3, <1>4 DEF Ahead
<1>9. Accounted'
  BY <1>1, <1>3, <1>4 DEF Accounted
<1>10. Counts'
  BY <1>0, <1>1, <1>2, <1>4 DEF Counts
<1>11. Scraped'
  <2>1. ASSUME NEW last \in scraper.last
        PROVE  Continues(last)' \/ StartsOver'
    <3>1. CASE Continues(last)
      <4>1. /\ last <= memory.samplesTotal
            /\ \A t \in memory.text : last <= t
            /\ scraper.increase + (memory.samplesTotal - last) <= history.emitted
        BY <3>1 DEF Continues
      <4>2. /\ last <= memory'.samplesTotal
            /\ scraper.increase + (memory'.samplesTotal - last) <= history'.emitted
        BY <1>2, <1>4, <4>1
      <4>3. Continues(last)'
        BY <1>1, <1>3, <4>1, <4>2 DEF Continues
      <4> QED
        BY <4>3
    <3>2. CASE StartsOver
      BY <1>2, <1>3, <1>4, <3>2 DEF StartsOver
    <3> QED
      BY <1>0, <3>1, <3>2 DEF Scraped
  <2>2. scraper'.last = {} => scraper'.increase = 0
    BY <1>0, <1>3 DEF Scraped
  <2> QED
    BY <1>3, <2>1, <2>2 DEF Scraped
<1> QED
  BY <1>5, <1>6, <1>7, <1>8, <1>9, <1>10, <1>11 DEF Inv

\* A text shows what the self-metric is now.
LEMMA PublishKeeps ==
    ASSUME Inv, Publish
    PROVE  Inv'
<1>0. TypeOK /\ Life /\ Options /\ Ahead /\ Counts /\ Scraped /\ Accounted
  BY DEF Inv
<1>1. /\ UNCHANGED <<clock, faults, loadable, taken, phase, serving, scraper, history>>
      /\ phase = "running"
      /\ memory' = [memory EXCEPT !.text = {memory.samplesTotal}]
  BY DEF Publish, environment
<1>2. memory \in Memory /\ memory.samplesTotal \in Nat
  BY <1>0 DEF TypeOK, Memory
<1>3. /\ memory' \in Memory
      /\ memory'.tracker = memory.tracker
      /\ memory'.samplesTotal = memory.samplesTotal
      /\ memory'.text = {memory.samplesTotal}
  BY <1>1, <1>2 DEF Memory
<1>4. TypeOK'
  BY <1>0, <1>1, <1>3 DEF TypeOK
<1>5. Life' /\ Options' /\ Ahead' /\ Accounted'
  <2>1. Life'
    BY <1>0, <1>1, <1>3 DEF Life
  <2>2. Options'
    BY <1>0, <1>1, <1>3 DEF Options
  <2>3. Ahead'
    BY <1>0, <1>1, <1>3 DEF Ahead
  <2>4. Accounted'
    BY <1>0, <1>1, <1>3 DEF Accounted
  <2> QED
    BY <2>1, <2>2, <2>3, <2>4
<1>6. Counts'
  BY <1>0, <1>1, <1>2, <1>3 DEF Counts
<1>7. Scraped'
  <2>1. \A last \in scraper.last : Continues(last) => Continues(last)'
    BY <1>1, <1>3 DEF Continues
  <2>2. StartsOver => StartsOver'
    BY <1>1, <1>3 DEF StartsOver
  <2> QED
    BY <1>0, <1>1, <2>1, <2>2 DEF Scraped
<1> QED
  BY <1>4, <1>5, <1>6, <1>7 DEF Inv

\* A scraper that takes a fall for a reset is right, or counts too little.
LEMMA ScrapeKeeps ==
    ASSUME Inv, Scrape
    PROVE  Inv'
<1>0. TypeOK /\ Life /\ Options /\ Ahead /\ Counts /\ Scraped /\ Accounted
  BY DEF Inv
<1> DEFINE gain(total) == IF scraper.last = {} THEN 0
                          ELSE LET last == CHOOSE k \in scraper.last : TRUE
                               IN  IF total >= last THEN total - last ELSE total
<1>1. PICK total \in memory.text :
          scraper' = [last |-> {total}, increase |-> scraper.increase + gain(total)]
  BY DEF Scrape
<1>2. UNCHANGED <<clock, faults, loadable, taken, phase, serving, memory, history>>
  BY DEF Scrape, environment, process
<1>3. /\ total \in Nat /\ scraper.increase \in Nat /\ memory.samplesTotal \in Nat
      /\ history.emitted \in Nat
      /\ \A k \in scraper.last : k \in Nat
  BY <1>0 DEF TypeOK, Memory
<1>4. total <= memory.samplesTotal /\ memory.samplesTotal <= history.emitted
  BY <1>0 DEF Counts
<1>5. memory.text = {total}
  BY <1>0 DEF Options
<1>6. /\ gain(total) \in Nat
      /\ scraper.increase + gain(total) + (memory.samplesTotal - total) <= history.emitted
  <2>1. CASE scraper.last = {}
    <3>1. gain(total) = 0 /\ scraper.increase = 0
      BY <1>0, <2>1 DEF Scraped
    <3> HIDE DEF gain
    <3> QED
      BY <1>3, <1>4, <3>1
  <2>2. CASE scraper.last # {}
    <3>1. PICK last \in scraper.last : TRUE
      BY <2>2
    <3>2. scraper.last = {last}
      BY <1>0 DEF Options
    <3>3. gain(total) = IF total >= last THEN total - last ELSE total
      BY <2>2, <3>2
    <3>4. last \in Nat
      BY <1>3
    <3> HIDE DEF gain
    <3>5. gain(total) \in Nat
      BY <1>3, <3>3, <3>4
    <3>6. CASE Continues(last)
      <4>1. last <= total /\ scraper.increase + (memory.samplesTotal - last) <= history.emitted
        BY <3>6 DEF Continues
      <4> QED
        BY <1>3, <1>4, <3>3, <3>4, <3>5, <4>1
    <3>7. CASE StartsOver
      <4>1. scraper.increase + memory.samplesTotal <= history.emitted
        BY <3>7 DEF StartsOver
      <4> QED
        BY <1>3, <1>4, <3>3, <3>4, <3>5, <4>1
    <3> QED
      BY <1>0, <3>6, <3>7 DEF Scraped
  <2> QED
    BY <2>1, <2>2
<1> HIDE DEF gain
<1>7. scraper'.last = {total} /\ scraper'.increase = scraper.increase + gain(total)
  BY <1>1
<1>8. scraper' \in [last : SUBSET Nat, increase : Nat]
  BY <1>1, <1>3, <1>6
<1>9. TypeOK'
  BY <1>0, <1>2, <1>8 DEF TypeOK
<1>10. Life' /\ Options' /\ Ahead' /\ Counts' /\ Accounted'
  <2>1. Life'
    BY <1>0, <1>2 DEF Life, Fresh
  <2>2. Options'
    BY <1>0, <1>2, <1>7 DEF Options
  <2>3. Ahead' /\ Counts' /\ Accounted'
    BY <1>0, <1>2 DEF Ahead, Counts, Accounted
  <2> QED
    BY <2>1, <2>2, <2>3
<1>11. Scraped'
  <2>1. Continues(total)'
    BY <1>2, <1>3, <1>4, <1>5, <1>6, <1>7 DEF Continues
  <2> QED
    BY <1>7, <2>1 DEF Scraped
<1> QED
  BY <1>9, <1>10, <1>11 DEF Inv
-----------------------------------------------------------------------------
\* The invariant holds through every life.
THEOREM Invariance == Spec => []Inv
<1>1. Init => Inv
  <2> SUFFICES ASSUME Init
               PROVE  Inv
    OBVIOUS
  <2>1. /\ memory.tracker = {} /\ memory.samplesTotal = 0 /\ memory.text = {}
        /\ memory \in Memory /\ memory = Fresh /\ serving = FALSE
    BY DEF Init, Fresh, Memory
  <2>2. /\ history \in History /\ history.read = FALSE /\ history.ended = FALSE
        /\ history.reported = 0 /\ history.skipped = 0 /\ history.emitted = 0
    BY DEF Init, History
  <2>3. scraper.last = {} /\ scraper.increase = 0 /\ scraper \in [last : SUBSET Nat, increase : Nat]
    BY DEF Init
  <2>4. TypeOK
    <3>1. Cardinality(memory.tracker) <= 1
      BY <2>1, FS_EmptySet
    <3>2. /\ clock = 0 /\ faults = 0 /\ loadable \in BOOLEAN /\ taken \in BOOLEAN
          /\ phase \in Phases
      BY DEF Init, Phases
    <3>3. {loadable, taken, serving, history.read, history.ended} \subseteq BOOLEAN
      BY <2>1, <2>2, <3>2
    <3> QED
      BY <2>1, <2>2, <2>3, <3>1, <3>2, <3>3 DEF TypeOK
  <2>5. Life /\ Options /\ Ahead /\ Counts
    BY <2>1, <2>2, <2>3 DEF Life, Options, Ahead, Counts
  <2>6. Scraped /\ Accounted
    BY <2>1, <2>2, <2>3 DEF Scraped, Accounted, Init
  <2> QED
    BY <2>4, <2>5, <2>6 DEF Inv
<1>2. Inv /\ [Next]_vars => Inv'
  <2> SUFFICES ASSUME Inv, [Next]_vars
               PROVE  Inv'
    OBVIOUS
  <2>0. TypeOK /\ Life /\ Options /\ Ahead /\ Counts /\ Scraped /\ Accounted
    BY DEF Inv
  <2>1. ASSUME NEW k \in 0..1, Fault(k)
        PROVE  Inv'
    <3>1. /\ clock' = clock + 1 /\ faults' = faults + k
          /\ clock \in Nat /\ faults \in Nat
          /\ UNCHANGED <<loadable, taken, phase, serving, memory, scraper, history>>
      BY <2>0, <2>1 DEF Fault, environment, process, TypeOK
    <3>2. TypeOK'
      BY <2>0, <3>1 DEF TypeOK
    <3>3. Life' /\ Options' /\ Counts' /\ Scraped'
      BY <2>0, <3>1 DEF Life, Fresh, Options, Counts, Scraped, Continues, StartsOver
    <3>4. Ahead'
      <4>1. \A p \in memory.tracker : p.at \in Nat /\ p.value \in Nat
        BY <2>0 DEF TypeOK, Memory, Reading
      <4> QED
        BY <2>0, <3>1, <4>1 DEF Ahead
    <3>5. Accounted'
      <4>1. history.reported + history.skipped \in Nat
        BY <2>0 DEF TypeOK
      <4> QED
        BY <2>0, <3>1, <4>1 DEF Accounted
    <3> QED
      BY <3>2, <3>3, <3>4, <3>5 DEF Inv
  <2>2. ASSUME UNCHANGED <<clock, faults, memory, scraper, history>>,
               {loadable', taken', serving'} \subseteq BOOLEAN,
               phase' \in Phases,
               phase' # "running" => memory = Fresh /\ ~ serving'
        PROVE  Inv'
    <3>1. TypeOK'
      BY <2>0, <2>2 DEF TypeOK
    <3>2. Life'
      BY <2>0, <2>2 DEF Life, Fresh
    <3>3. Options' /\ Ahead' /\ Counts' /\ Scraped' /\ Accounted'
      BY <2>0, <2>2 DEF Options, Ahead, Counts, Scraped, Continues, StartsOver, Accounted
    <3> QED
      BY <3>1, <3>2, <3>3 DEF Inv
  <2>3. {loadable, taken, serving} \subseteq BOOLEAN /\ phase \in Phases
        /\ (phase # "running" => memory = Fresh /\ ~ serving)
    BY <2>0 DEF TypeOK, Life
  <2>4. CASE Disturb
    BY <2>2, <2>3, <2>4 DEF Disturb, process
  <2>5. CASE Start
    BY <2>2, <2>3, <2>5 DEF Start, environment, Phases
  <2>6. CASE Bind
    BY <2>2, <2>3, <2>6 DEF Bind, environment
  <2>7. CASE Restart
    BY <2>2, <2>3, <2>7 DEF Restart, environment, Phases
  <2>8. CASE LoadFails
    BY <2>3, <2>8, GoneKeeps DEF LoadFails, Phases
  <2>9. CASE BindFails
    BY <2>3, <2>9, GoneKeeps DEF BindFails, Phases
  <2>10. CASE Crash
    BY <2>3, <2>10, GoneKeeps DEF Crash, Phases
  <2>11. CASE Return
    BY <2>3, <2>11, GoneKeeps DEF Return, Phases
  <2>12. CASE Terminate
    BY <2>3, <2>12, GoneKeeps DEF Terminate, Phases
  <2>13. CASE Pass
    BY <2>13, PassKeeps
  <2>14. CASE Publish
    BY <2>14, PublishKeeps
  <2>15. CASE Scrape
    BY <2>15, ScrapeKeeps
  <2>16. CASE UNCHANGED vars
    BY <2>2, <2>3, <2>16 DEF vars, environment, process
  <2>17. CASE PassFails
    BY <2>16, <2>17 DEF PassFails
  <2> QED
    BY <2>1, <2>4, <2>5, <2>6, <2>7, <2>8, <2>9, <2>10, <2>11, <2>12, <2>13, <2>14,
       <2>15, <2>16, <2>17 DEF Next
<1> QED
  BY <1>1, <1>2, PTL DEF Spec

\* Every variable keeps its type; what the new life has no baseline for never
\* makes the count of skipped faults negative.
THEOREM TypeCorrect == Spec => []TypeOK
<1>1. Inv => TypeOK
  BY DEF Inv
<1> QED
  BY <1>1, Invariance, PTL

\* In any number of lives, the faults reported and those that no life had a
\* baseline for make up what the kernel had counted at the latest reading.
THEOREM AccountedAlways == Spec => []Accounted
<1>1. Inv => Accounted
  BY DEF Inv
<1> QED
  BY <1>1, Invariance, PTL

\* The increase a scraper computes of the self-metric, over any number of resets,
\* is never more than the samples there were.
THEOREM IncreaseSoundAlways == Spec => []IncreaseSound
<1>1. Inv => IncreaseSound
  <2> SUFFICES ASSUME Inv
               PROVE  scraper.increase <= history.emitted
    BY DEF IncreaseSound
  <2>1. /\ history.emitted \in Nat /\ scraper.increase \in Nat /\ memory.samplesTotal \in Nat
        /\ \A last \in scraper.last : last \in Nat
    BY DEF Inv, TypeOK, Memory
  <2>2. CASE scraper.last = {}
    BY <2>1, <2>2 DEF Inv, Scraped
  <2>3. ASSUME NEW last \in scraper.last
        PROVE  scraper.increase <= history.emitted
    <3>1. CASE Continues(last)
      BY <2>1, <3>1 DEF Continues
    <3>2. CASE StartsOver
      BY <2>1, <3>2 DEF StartsOver
    <3> QED
      BY <3>1, <3>2 DEF Inv, Scraped
  <2> QED
    BY <2>2, <2>3
<1> QED
  BY <1>1, Invariance, PTL
-----------------------------------------------------------------------------
\* Calculations, the quantile of a window.

\* A tally of a window.
IsTally(t) ==
    /\ DOMAIN t # {} /\ DOMAIN t \subseteq Int
    /\ IsFiniteSet(DOMAIN t)
    /\ \A v \in DOMAIN t : t[v] \in Nat \ {0}

\* A finite set of integers that is not empty has a least element, and a greatest.
LEMMA Least ==
    ASSUME NEW S, IsFiniteSet(S), S \subseteq Int, S # {}
    PROVE  \E x \in S : \A y \in S : x <= y
<1> DEFINE NoGreater(x) == {y \in S : y <= x}
           T == {NoGreater(x) : x \in S}
<1>0. \A U \in SUBSET S : IsFiniteSet(U)
  BY FS_Subset
<1>1. T # {} /\ T \subseteq FiniteSubsetsOf(S)
  <2>1. T # {}
    OBVIOUS
  <2>2. \A x \in S : NoGreater(x) \in FiniteSubsetsOf(S)
    BY <1>0 DEF FiniteSubsetsOf
  <2> QED
    BY <2>1, <2>2
<1>2. PICK U \in T : \A V \in T : ~ (<<V, U>> \in StrictSubsetOrdering(S))
  BY <1>1, FS_StrictSubsetOrderingWellFounded, WFMin
<1>3. PICK x \in S : U = NoGreater(x)
  OBVIOUS
<1>4. SUFFICES ASSUME NEW y \in S, y < x PROVE FALSE
  OBVIOUS
<1>5. NoGreater(y) \subseteq NoGreater(x) /\ x \in NoGreater(x) /\ x \notin NoGreater(y)
  <2>1. x \in Int /\ y \in Int /\ \A z \in S : z \in Int
    OBVIOUS
  <2>2. \A z \in S : z <= y => z <= x
    BY <1>4, <2>1
  <2>3. x <= x /\ ~ (x <= y)
    BY <1>4, <2>1
  <2> QED
    BY <2>2, <2>3
<1>6. NoGreater(y) \in T /\ NoGreater(x) \in SUBSET S /\ NoGreater(y) \in SUBSET S
  OBVIOUS
<1>7. <<NoGreater(y), NoGreater(x)>> \in StrictSubsetOrdering(S)
  BY <1>5, <1>6 DEF StrictSubsetOrdering
<1> QED
  BY <1>2, <1>3, <1>6, <1>7

\* As Least, upside down.
LEMMA Greatest ==
    ASSUME NEW S, IsFiniteSet(S), S \subseteq Int, S # {}
    PROVE  \E x \in S : \A y \in S : y <= x
<1> DEFINE NoLess(x) == {y \in S : y >= x}
           T == {NoLess(x) : x \in S}
<1>0. \A U \in SUBSET S : IsFiniteSet(U)
  BY FS_Subset
<1>1. T # {} /\ T \subseteq FiniteSubsetsOf(S)
  <2>1. T # {}
    OBVIOUS
  <2>2. \A x \in S : NoLess(x) \in FiniteSubsetsOf(S)
    BY <1>0 DEF FiniteSubsetsOf
  <2> QED
    BY <2>1, <2>2
<1>2. PICK U \in T : \A V \in T : ~ (<<V, U>> \in StrictSubsetOrdering(S))
  BY <1>1, FS_StrictSubsetOrderingWellFounded, WFMin
<1>3. PICK x \in S : U = NoLess(x)
  OBVIOUS
<1>4. SUFFICES ASSUME NEW y \in S, y > x PROVE FALSE
  OBVIOUS
<1>5. NoLess(y) \subseteq NoLess(x) /\ x \in NoLess(x) /\ x \notin NoLess(y)
  <2>1. x \in Int /\ y \in Int /\ \A z \in S : z \in Int
    OBVIOUS
  <2>2. \A z \in S : z >= y => z >= x
    BY <1>4, <2>1
  <2>3. x >= x /\ ~ (x >= y)
    BY <1>4, <2>1
  <2> QED
    BY <2>2, <2>3
<1>6. NoLess(y) \in T /\ NoLess(x) \in SUBSET S /\ NoLess(y) \in SUBSET S
  OBVIOUS
<1>7. <<NoLess(y), NoLess(x)>> \in StrictSubsetOrdering(S)
  BY <1>5, <1>6 DEF StrictSubsetOrdering
<1> QED
  BY <1>2, <1>3, <1>6, <1>7

\* A window has finitely many values.
LEMMA ValuesFinite ==
    ASSUME NEW t, IsTally(t)
    PROVE  IsFiniteSet(Values(t))
<1> DEFINE f == [v \in DOMAIN t |-> {v} \X (1..t[v])]
           T == {{v} \X (1..t[v]) : v \in DOMAIN t}
<1>1. f \in Surjection(DOMAIN t, T)
  BY DEF Surjection
<1>2. IsFiniteSet(T)
  <2>1. IsFiniteSet(DOMAIN t)
    BY DEF IsTally
  <2> HIDE DEF f, T
  <2> QED
    BY <1>1, <2>1, FS_Surjection
<1>3. ASSUME NEW v \in DOMAIN t PROVE IsFiniteSet({v} \X (1..t[v]))
  <2>1. t[v] \in Int
    BY DEF IsTally
  <2>2. IsFiniteSet({v})
    BY FS_Singleton
  <2>3. IsFiniteSet(1..t[v])
    BY <2>1, FS_Interval
  <2> QED
    BY <2>2, <2>3, FS_Product
<1>4. \A U \in T : IsFiniteSet(U)
  BY <1>3
<1> QED
  BY <1>2, <1>4, FS_UNION DEF Values

\* Each value of a window is one that the tally counts, and all it counts are there.
LEMMA ValuesAre ==
    ASSUME NEW t, IsTally(t)
    PROVE  /\ \A x \in Values(t) : x[1] \in DOMAIN t /\ x[1] \in Int
           /\ \A v \in DOMAIN t : <<v, 1>> \in Values(t)
<1>1. ASSUME NEW v \in DOMAIN t, NEW x \in {v} \X (1..t[v])
      PROVE  x[1] \in DOMAIN t /\ x[1] \in Int
  BY DEF IsTally
<1>2. ASSUME NEW v \in DOMAIN t PROVE <<v, 1>> \in {v} \X (1..t[v])
  BY DEF IsTally
<1> QED
  BY <1>1, <1>2 DEF Values

\* Any part of a window is finite, and counts no more values than a larger one.
LEMMA PartCount ==
    ASSUME NEW t, IsTally(t), NEW A \in SUBSET Values(t)
    PROVE  /\ IsFiniteSet(A)
           /\ Cardinality(A) \in Nat
           /\ \A B \in SUBSET A : Cardinality(B) \in Nat /\ Cardinality(B) <= Cardinality(A)
<1>1. IsFiniteSet(A)
  BY ValuesFinite, FS_Subset
<1>2. \A B \in SUBSET A : IsFiniteSet(B) /\ Cardinality(B) <= Cardinality(A)
  BY <1>1, FS_Subset
<1> QED
  BY <1>1, <1>2, FS_CardinalityType

\* A window that is cut in two has as many values as both parts together.
LEMMA Complement ==
    ASSUME NEW t, IsTally(t), NEW A \in SUBSET Values(t), NEW B \in SUBSET Values(t),
           A \cap B = {}, A \cup B = Values(t)
    PROVE  Cardinality(A) + Cardinality(B) = Size(t)
<1>1. IsFiniteSet(A) /\ IsFiniteSet(B) /\ Cardinality(A) \in Nat /\ Cardinality(B) \in Nat
  BY PartCount
<1>2. Cardinality(A \cup B) = Cardinality(A) + Cardinality(B) - Cardinality(A \cap B)
  BY <1>1, FS_Union
<1>3. Cardinality(A \cap B) = 0
  BY FS_EmptySet
<1>4. Cardinality(A \cup B) = Size(t)
  BY DEF Size
<1> HIDE DEF Size
<1> QED
  BY <1>1, <1>2, <1>3, <1>4

\* sorted[k]: more than k values do not exceed it, and at most k are less.
LEMMA SortedFacts ==
    ASSUME NEW t, IsTally(t), NEW k \in Nat, k < Size(t)
    PROVE  LET s == Sorted(t, k) IN
           /\ s \in DOMAIN t /\ s \in Int
           /\ Below(t, s) > k
           /\ \A w \in DOMAIN t : Below(t, w) > k => s <= w
           /\ Cardinality({x \in Values(t) : x[1] < s}) <= k
<1> DEFINE Enough == {v \in DOMAIN t : Below(t, v) > k}
           s == Sorted(t, k)
<1>1. /\ IsFiniteSet(DOMAIN t) /\ DOMAIN t \subseteq Int /\ DOMAIN t # {}
      /\ \A v \in DOMAIN t : v \in Int
  BY DEF IsTally
<1>2. Enough # {}
  <2>1. PICK m \in DOMAIN t : \A v \in DOMAIN t : v <= m
    BY <1>1, Greatest
  <2>2. {x \in Values(t) : x[1] <= m} = Values(t)
    BY <2>1, ValuesAre
  <2>3. Below(t, m) = Size(t)
    BY <2>2 DEF Below, Size
  <2>4. Below(t, m) > k
    BY <2>3
  <2> QED
    BY <2>1, <2>4
<1>3. PICK v \in Enough : \A w \in Enough : v <= w
  <2>1. IsFiniteSet(Enough) /\ Enough \subseteq Int
    BY <1>1, FS_Subset
  <2> HIDE DEF Enough
  <2> QED
    BY <1>2, <2>1, Least
<1>4. /\ s \in DOMAIN t
      /\ Below(t, s) > k
      /\ \A w \in DOMAIN t : Below(t, w) > k => s <= w
  <2>1. \E u \in DOMAIN t : Below(t, u) > k /\ \A w \in DOMAIN t : Below(t, w) > k => u <= w
    BY <1>3
  <2> QED
    BY <2>1 DEF Sorted
<1> HIDE DEF s
<1>5. s \in Int
  BY <1>1, <1>4
<1>6. Cardinality({x \in Values(t) : x[1] < s}) <= k
  <2> DEFINE Less == {w \in DOMAIN t : w < s}
             L == {x \in Values(t) : x[1] < s}
  <2>1. CASE Less = {}
    <3>1. L = {}
      BY <2>1, ValuesAre
    <3> QED
      BY <3>1, FS_EmptySet
  <2>2. CASE Less # {}
    <3>1. IsFiniteSet(Less) /\ Less \subseteq Int
      BY <1>1, FS_Subset
    <3>2. PICK w \in Less : \A u \in Less : u <= w
      <4> HIDE DEF Less
      <4> QED
        BY <2>2, <3>1, Greatest
    <3>3. L \subseteq {x \in Values(t) : x[1] <= w}
      BY <3>2, ValuesAre
    <3>4. Below(t, w) \in Nat /\ Cardinality(L) \in Nat /\ Cardinality(L) <= Below(t, w)
      <4>1. {x \in Values(t) : x[1] <= w} \in SUBSET Values(t)
        OBVIOUS
      <4> QED
        BY <3>3, <4>1, PartCount DEF Below
    <3>5. ~ (s <= w)
      BY <1>1, <1>5, <3>2
    <3>6. ~ (Below(t, w) > k)
      BY <1>4, <3>2, <3>5
    <3> QED
      BY <3>4, <3>6
  <2> QED
    BY <2>1, <2>2
<1> QED
  BY <1>4, <1>5, <1>6 DEF s

\* With x = q * (len - 1): the places of a quantile are neighbours, the lower one no
\* less than x percent rounded down.
LEMMA Places ==
    ASSUME NEW x \in Nat, NEW r \in Int, r = Nearest(x * Grid, 100)
    PROVE  /\ r \in Nat /\ Floor(r) \in Nat /\ Ceil(r) \in Nat
           /\ x \div 100 <= Floor(r)
           /\ Floor(r) <= Ceil(r) /\ Ceil(r) <= Floor(r) + 1
<1>1. r = (16 * x + 100) \div 200
  BY DEF Nearest, Grid
<1>2. r \in Nat /\ x \div 100 <= r \div 8
  BY <1>1
<1>3. r \div 8 \in Nat /\ (r + 7) \div 8 \in Nat
      /\ r \div 8 <= (r + 7) \div 8 /\ (r + 7) \div 8 <= (r \div 8) + 1
  BY <1>2
<1>4. Floor(r) = r \div 8 /\ Ceil(r) = (r + 7) \div 8
  BY <1>2 DEF Floor, Ceil, Grid
<1> QED
  BY <1>2, <1>3, <1>4

\* The upper one is no greater than x percent rounded up, here as what is left of m
\* by the rest rounded down.
LEMMA UpperPlace ==
    ASSUME NEW x \in Nat, NEW r \in Nat, r = Nearest(x * Grid, 100),
           NEW m \in Int, x <= 100 * m
    PROVE  Ceil(r) <= m - ((100 * m - x) \div 100)
<1>1. r = (16 * x + 100) \div 200
  BY DEF Nearest, Grid
<1>2. (r + 7) \div 8 <= m - ((100 * m - x) \div 100)
  BY <1>1
<1>3. Ceil(r) = (r + 7) \div 8
  BY DEF Ceil, Grid
<1> QED
  BY <1>2, <1>3

\* Interpolation stays between its two values, and grows with the fraction.
LEMMA BetweenGrows ==
    ASSUME NEW low \in Int, NEW high \in Int, low <= high,
           NEW f \in 0..Grid, NEW g \in 0..Grid, f <= g
    PROVE  /\ Between(low, high, f) \in Int /\ Between(low, high, g) \in Int
           /\ low * Grid <= Between(low, high, f)
           /\ Between(low, high, f) <= Between(low, high, g)
           /\ Between(low, high, g) <= high * Grid
<1> DEFINE d == high - low
<1>1. d \in Nat
  OBVIOUS
<1>2. ASSUME NEW h \in 0..8 PROVE low * (8 - h) + high * h = 8 * low + d * h
  BY <1>1
<1>3. 0 <= d * f /\ d * f <= d * g /\ d * g <= 8 * d
  BY <1>1 DEF Grid
<1> QED
  BY <1>1, <1>2, <1>3 DEF Between, Grid

\* Where the rank of a quantile lies in a window of n values.
LEMMA RankPlaces ==
    ASSUME NEW n \in Nat \ {0}, NEW q \in 1..99
    PROVE  /\ Rank(n, q) \in Nat
           /\ Floor(Rank(n, q)) \in 0..(n - 1)
           /\ Ceil(Rank(n, q)) \in 0..(n - 1)
           /\ (q * (n - 1)) \div 100 <= Floor(Rank(n, q))
           /\ Ceil(Rank(n, q)) <= (n - 1) - (((100 - q) * (n - 1)) \div 100)
           /\ Floor(Rank(n, q)) <= Ceil(Rank(n, q))
           /\ Ceil(Rank(n, q)) <= Floor(Rank(n, q)) + 1
<1> DEFINE x == q * (n - 1)
           r == Rank(n, q)
<1>1. x \in Nat /\ (100 - q) * (n - 1) = 100 * (n - 1) - x
  OBVIOUS
<1>2. 0 <= (100 - q) * (n - 1)
  OBVIOUS
<1>3. x <= 100 * (n - 1)
  BY <1>1, <1>2
<1>4. r = Nearest(x * Grid, 100) /\ r \in Int
  BY <1>1 DEF Rank, Nearest, Grid
<1> HIDE DEF x, r
<1>5. /\ r \in Nat /\ Floor(r) \in Nat /\ Ceil(r) \in Nat
      /\ x \div 100 <= Floor(r)
      /\ Floor(r) <= Ceil(r) /\ Ceil(r) <= Floor(r) + 1
      /\ Ceil(r) <= (n - 1) - ((100 * (n - 1) - x) \div 100)
  <2>1. /\ r \in Nat /\ Floor(r) \in Nat /\ Ceil(r) \in Nat
        /\ x \div 100 <= Floor(r)
        /\ Floor(r) <= Ceil(r) /\ Ceil(r) <= Floor(r) + 1
    BY <1>1, <1>4, Places
  <2> DEFINE m == n - 1
  <2>2. m \in Int /\ x \in Nat /\ x <= 100 * m
    BY <1>1, <1>3
  <2> HIDE DEF m
  <2>3. Ceil(r) <= m - ((100 * m - x) \div 100)
    BY <1>4, <2>1, <2>2, UpperPlace
  <2> QED
    BY <2>1, <2>3 DEF m
<1>6. (100 * (n - 1) - x) \div 100 \in Nat
  BY <1>1, <1>3
<1> QED
  BY <1>1, <1>5, <1>6 DEF x, r

\* A quantile is interpolated between two of the sorted values, which are one
\* when the rank is whole.
LEMMA Interpolated ==
    ASSUME NEW t, IsTally(t), NEW q \in 1..99
    PROVE  LET n  == Size(t)
               r  == Rank(n, q)
               lo == Floor(r)
               hi == Ceil(r)
           IN  /\ n \in Nat \ {0} /\ r \in Nat
               /\ lo \in 0..(n - 1) /\ hi \in 0..(n - 1) /\ lo <= hi /\ hi <= lo + 1
               /\ Sorted(t, lo) \in Int /\ Sorted(t, hi) \in Int
               /\ Sorted(t, lo) <= Sorted(t, hi)
               /\ r - lo * Grid \in 0..Grid
               /\ lo = hi <=> r = lo * Grid
               /\ InterpolatedQuantile(t, q)
                      = Between(Sorted(t, lo), Sorted(t, hi), r - lo * Grid)
<1> DEFINE n  == Size(t)
           r  == Rank(n, q)
           lo == Floor(r)
           hi == Ceil(r)
<1>1. n \in Nat \ {0}
  <2>1. Values(t) # {}
    BY ValuesAre DEF IsTally
  <2> QED
    BY <2>1, ValuesFinite, FS_EmptySet, FS_CardinalityType DEF Size
<1>2. /\ r \in Nat
      /\ lo \in 0..(n - 1) /\ hi \in 0..(n - 1) /\ lo <= hi /\ hi <= lo + 1
  BY <1>1, RankPlaces
<1>3. /\ r - lo * Grid \in 0..Grid
      /\ lo = hi <=> r = lo * Grid
  BY <1>2 DEF Floor, Ceil, Grid
<1> HIDE DEF n, r, lo, hi
<1>4. /\ Sorted(t, lo) \in Int /\ Sorted(t, hi) \in Int
      /\ Sorted(t, lo) <= Sorted(t, hi)
  <2>1. lo \in Nat /\ hi \in Nat /\ lo < Size(t) /\ hi < Size(t)
    BY <1>1, <1>2 DEF n
  <2>2. /\ Sorted(t, lo) \in Int /\ Sorted(t, hi) \in DOMAIN t /\ Sorted(t, hi) \in Int
        /\ Below(t, Sorted(t, hi)) > hi
        /\ \A w \in DOMAIN t : Below(t, w) > lo => Sorted(t, lo) <= w
    BY <2>1, SortedFacts
  <2>3. Below(t, Sorted(t, hi)) \in Nat
    <3>1. {x \in Values(t) : x[1] <= Sorted(t, hi)} \in SUBSET Values(t)
      OBVIOUS
    <3> QED
      BY <3>1, PartCount DEF Below
  <2>4. Below(t, Sorted(t, hi)) > lo
    BY <1>2, <2>1, <2>2, <2>3
  <2> QED
    BY <2>2, <2>4
<1>5. InterpolatedQuantile(t, q) = Between(Sorted(t, lo), Sorted(t, hi), r - lo * Grid)
  <2>1. CASE lo # hi
    BY <2>1 DEF InterpolatedQuantile, n, r, lo, hi
  <2>2. CASE lo = hi
    <3>1. InterpolatedQuantile(t, q) = Sorted(t, lo) * Grid
      BY <2>2 DEF InterpolatedQuantile, n, r, lo, hi
    <3>2. r - lo * Grid = 0
      BY <1>2, <1>3, <2>2 DEF Grid
    <3> QED
      BY <1>4, <3>1, <3>2 DEF Between, Grid
  <2> QED
    BY <2>1, <2>2
<1> QED
  BY <1>1, <1>2, <1>3, <1>4, <1>5 DEF n, r, lo, hi

\* More values than the places below its rank are no greater than a quantile, and
\* more than those above it no less.
LEMMA QuantileSplits ==
    ASSUME NEW t, IsTally(t), NEW q \in 1..99
    PROVE  LET n == Size(t)
               v == InterpolatedQuantile(t, q)
           IN  /\ v \in Int
               /\ Cardinality({x \in Values(t) : x[1] * Grid <= v})
                      > (q * (n - 1)) \div 100
               /\ Cardinality({x \in Values(t) : x[1] * Grid >= v})
                      > ((100 - q) * (n - 1)) \div 100
<1> DEFINE n    == Size(t)
           r    == Rank(n, q)
           lo   == Floor(r)
           hi   == Ceil(r)
           low  == Sorted(t, lo)
           high == Sorted(t, hi)
           v    == InterpolatedQuantile(t, q)
           down == (q * (n - 1)) \div 100
           up   == ((100 - q) * (n - 1)) \div 100
<1>1. /\ n \in Nat \ {0} /\ r \in Nat
      /\ lo \in 0..(n - 1) /\ hi \in 0..(n - 1)
      /\ low \in Int /\ high \in Int /\ low <= high
      /\ r - lo * Grid \in 0..Grid
      /\ v = Between(low, high, r - lo * Grid)
  BY Interpolated
<1>2. down <= lo /\ hi <= (n - 1) - up
  BY <1>1, RankPlaces
<1>3. down \in Int /\ up \in Int
  BY <1>1
<1> HIDE DEF n, r, lo, hi, low, high, v, down, up
<1>4. v \in Int /\ low * Grid <= v /\ v <= high * Grid
  BY <1>1, BetweenGrows
<1>5. lo \in Nat /\ hi \in Nat /\ lo < Size(t) /\ hi < Size(t)
  BY <1>1 DEF n
<1>6. \A x \in Values(t) : x[1] \in Int
  BY ValuesAre
<1>7. Cardinality({x \in Values(t) : x[1] * Grid <= v}) > down
  <2>1. Below(t, low) > lo
    BY <1>5, SortedFacts DEF low
  <2>2. \A x \in Values(t) : x[1] <= low => x[1] * Grid <= v
    BY <1>1, <1>4, <1>6 DEF Grid
  <2>3. /\ {x \in Values(t) : x[1] * Grid <= v} \in SUBSET Values(t)
        /\ {x \in Values(t) : x[1] <= low} \in SUBSET {x \in Values(t) : x[1] * Grid <= v}
    BY <2>2
  <2>4. /\ Cardinality({x \in Values(t) : x[1] * Grid <= v}) \in Nat
        /\ Below(t, low) \in Nat
        /\ Below(t, low) <= Cardinality({x \in Values(t) : x[1] * Grid <= v})
    BY <2>3, PartCount DEF Below
  <2> QED
    BY <1>2, <1>3, <1>5, <2>1, <2>4
<1>8. Cardinality({x \in Values(t) : x[1] * Grid >= v}) > up
  <2> DEFINE L == {x \in Values(t) : x[1] < high}
             H == {x \in Values(t) : ~ (x[1] < high)}
             G == {x \in Values(t) : x[1] * Grid >= v}
  <2>1. Cardinality(L) <= hi
    BY <1>5, SortedFacts DEF high
  <2>2. \A x \in Values(t) : ~ (x[1] < high) => x[1] * Grid >= v
    BY <1>1, <1>4, <1>6 DEF Grid
  <2>3. H \in SUBSET G /\ G \in SUBSET Values(t) /\ H \in SUBSET Values(t) /\ L \in SUBSET Values(t)
    BY <2>2
  <2>4. L \cap H = {} /\ L \cup H = Values(t)
    OBVIOUS
  <2> HIDE DEF L, H, G
  <2>5. Cardinality(L) + Cardinality(H) = n
    BY <2>3, <2>4, Complement DEF n
  <2>6. /\ Cardinality(L) \in Nat /\ Cardinality(H) \in Nat /\ Cardinality(G) \in Nat
        /\ Cardinality(H) <= Cardinality(G)
    BY <2>3, PartCount
  <2>7. Cardinality(G) > up
    BY <1>1, <1>2, <1>3, <2>1, <2>5, <2>6
  <2> QED
    BY <2>7 DEF G
<1> QED
  BY <1>4, <1>7, <1>8 DEF n, v, down, up

\* A greater quantile has a rank no less.
LEMMA RankGrows ==
    ASSUME NEW n \in Nat \ {0}, NEW p \in 1..99, NEW q \in 1..99, p <= q
    PROVE  Rank(n, p) <= Rank(n, q)
<1> DEFINE x == p * (n - 1)
           y == q * (n - 1)
<1>1. x \in Nat /\ y \in Nat /\ y - x = (q - p) * (n - 1) /\ (q - p) * (n - 1) >= 0
  OBVIOUS
<1> HIDE DEF x, y
<1>2. (2 * (x * 8) + 100) \div 200 <= (2 * (y * 8) + 100) \div 200
  BY <1>1
<1> QED
  BY <1>2 DEF Rank, Nearest, Grid, x, y

\* The sorted values are in order.
LEMMA SortedGrows ==
    ASSUME NEW t, IsTally(t), NEW j \in Nat, NEW k \in Nat, j <= k, k < Size(t), Size(t) \in Nat
    PROVE  Sorted(t, j) \in Int /\ Sorted(t, k) \in Int /\ Sorted(t, j) <= Sorted(t, k)
<1>1. j < Size(t)
  OBVIOUS
<1>2. /\ Sorted(t, j) \in Int /\ Sorted(t, k) \in DOMAIN t /\ Sorted(t, k) \in Int
      /\ Below(t, Sorted(t, k)) > k
      /\ \A w \in DOMAIN t : Below(t, w) > j => Sorted(t, j) <= w
  BY <1>1, SortedFacts
<1>3. Below(t, Sorted(t, k)) \in Nat
  <2>1. {x \in Values(t) : x[1] <= Sorted(t, k)} \in SUBSET Values(t)
    OBVIOUS
  <2> QED
    BY <2>1, PartCount DEF Below
<1>4. Below(t, Sorted(t, k)) > j
  BY <1>2, <1>3
<1> QED
  BY <1>2, <1>4

\* A greater quantile has no smaller value.
LEMMA QuantileGrows ==
    ASSUME NEW t, IsTally(t), NEW p \in 1..99, NEW q \in 1..99, p <= q
    PROVE  InterpolatedQuantile(t, p) <= InterpolatedQuantile(t, q)
<1> DEFINE n == Size(t)
           r == Rank(n, p)
           s == Rank(n, q)
           Value(lo, hi, f) == Between(Sorted(t, lo), Sorted(t, hi), f)
<1>1. /\ n \in Nat \ {0} /\ r \in Nat
      /\ Floor(r) \in 0..(n - 1) /\ Ceil(r) \in 0..(n - 1) /\ Ceil(r) <= Floor(r) + 1
      /\ Floor(r) <= Ceil(r)
      /\ Sorted(t, Floor(r)) \in Int /\ Sorted(t, Ceil(r)) \in Int
      /\ Sorted(t, Floor(r)) <= Sorted(t, Ceil(r))
      /\ r - Floor(r) * Grid \in 0..Grid
      /\ Floor(r) = Ceil(r) <=> r = Floor(r) * Grid
      /\ InterpolatedQuantile(t, p) = Value(Floor(r), Ceil(r), r - Floor(r) * Grid)
  BY Interpolated
<1>2. /\ s \in Nat
      /\ Floor(s) \in 0..(n - 1) /\ Ceil(s) \in 0..(n - 1) /\ Ceil(s) <= Floor(s) + 1
      /\ Floor(s) <= Ceil(s)
      /\ Sorted(t, Floor(s)) \in Int /\ Sorted(t, Ceil(s)) \in Int
      /\ Sorted(t, Floor(s)) <= Sorted(t, Ceil(s))
      /\ s - Floor(s) * Grid \in 0..Grid
      /\ Floor(s) = Ceil(s) <=> s = Floor(s) * Grid
      /\ InterpolatedQuantile(t, q) = Value(Floor(s), Ceil(s), s - Floor(s) * Grid)
  BY Interpolated
<1>3. r <= s
  BY <1>1, RankGrows
<1> HIDE DEF n, r, s
<1>4. Floor(r) <= Floor(s)
  BY <1>1, <1>2, <1>3 DEF Floor, Grid
<1> DEFINE f == r - Floor(r) * Grid
           g == s - Floor(s) * Grid
           v == InterpolatedQuantile(t, p)
           w == InterpolatedQuantile(t, q)
<1>5. /\ v \in Int /\ Sorted(t, Floor(r)) * Grid <= v /\ v <= Sorted(t, Ceil(r)) * Grid
      /\ w \in Int /\ Sorted(t, Floor(s)) * Grid <= w /\ w <= Sorted(t, Ceil(s)) * Grid
  BY <1>1, <1>2, BetweenGrows
<1>6. CASE Floor(r) < Floor(s)
  <2>1. Ceil(r) \in Nat /\ Floor(s) \in Nat /\ Ceil(r) <= Floor(s) /\ Floor(s) < n
    BY <1>1, <1>2, <1>6
  <2>2. Sorted(t, Ceil(r)) <= Sorted(t, Floor(s))
    BY <1>1, <2>1, SortedGrows DEF n
  <2> QED
    BY <1>1, <1>2, <1>5, <2>2 DEF Grid
<1>7. CASE Floor(r) = Floor(s)
  <2>1. CASE Ceil(r) = Floor(r)
    BY <1>1, <1>2, <1>5, <1>7, <2>1 DEF Grid
  <2>2. CASE Ceil(r) # Floor(r)
    <3>1. f <= g /\ Ceil(s) = Ceil(r)
      BY <1>1, <1>2, <1>3, <1>7, <2>2 DEF Floor, Ceil, Grid
    <3> QED
      BY <1>1, <1>2, <1>7, <3>1, BetweenGrows
  <2> QED
    BY <2>1, <2>2
<1> QED
  BY <1>1, <1>2, <1>4, <1>6, <1>7
-----------------------------------------------------------------------------
\* Calculations, Config::load.

\* The settings, and the defaults of those that matter to the loop.
LEMMA DefaultsAre ==
    /\ DOMAIN Defaults =
          {"listen", "procfs_root", "period", "min_period", "snapshot_interval", "windows",
           "quantiles", "max_series", "cpu", "disk", "psi", "run_queue", "softnet", "vmstat"}
    /\ Defaults = [s \in DOMAIN Defaults |-> Defaults[s]]
    /\ Defaults.period = 200 /\ Defaults.min_period = 50
    /\ Defaults.snapshot_interval = 1000
    /\ Defaults.windows = <<10000, 60000>>
    /\ Defaults.quantiles = <<{50}, {90}, {95}, {99}>>
    /\ Defaults.max_series = 5000
<1> DEFINE a == [listen |-> "127.0.0.1:9918", procfs_root |-> "/proc"]
           b == SamplingDefaults
           c == AggregationDefaults
           d == CollectorsDefaults
<1>1. /\ DOMAIN a = {"listen", "procfs_root"}
      /\ DOMAIN b = {"period", "min_period", "snapshot_interval"}
      /\ DOMAIN c = {"windows", "quantiles", "max_series"}
      /\ DOMAIN d = {"cpu", "disk", "psi", "run_queue", "softnet", "vmstat"}
  BY DEF SamplingDefaults, AggregationDefaults, CollectorsDefaults
<1>2. /\ b.period = 200 /\ b.min_period = 50 /\ b.snapshot_interval = 1000
      /\ c.windows = <<10000, 60000>> /\ c.quantiles = <<{50}, {90}, {95}, {99}>>
      /\ c.max_series = 5000
  BY DEF SamplingDefaults, AggregationDefaults, CollectorsDefaults
<1>3. Defaults = Completed(Completed(a, b), Completed(c, d))
  BY DEF Defaults
<1> HIDE DEF a, b, c, d
<1>4. /\ DOMAIN Defaults = (DOMAIN a \cup DOMAIN b) \cup (DOMAIN c \cup DOMAIN d)
      /\ Defaults = [s \in DOMAIN Defaults |-> Defaults[s]]
  BY <1>3 DEF Completed
<1>5. /\ \A s \in DOMAIN b \ DOMAIN a : Defaults[s] = b[s]
      /\ \A s \in DOMAIN c \ (DOMAIN a \cup DOMAIN b) : Defaults[s] = c[s]
  BY <1>3 DEF Completed
<1>6. /\ {"period", "min_period", "snapshot_interval"} \subseteq DOMAIN b \ DOMAIN a
      /\ {"windows", "quantiles", "max_series"} \subseteq DOMAIN c \ (DOMAIN a \cup DOMAIN b)
  BY <1>1
<1>7. /\ DOMAIN Defaults =
            {"listen", "procfs_root", "period", "min_period", "snapshot_interval", "windows",
             "quantiles", "max_series", "cpu", "disk", "psi", "run_queue", "softnet", "vmstat"}
  BY <1>1, <1>4
<1> QED
  BY <1>2, <1>4, <1>5, <1>6, <1>7

\* What validate() compares, before it does.
Typed(config) ==
    /\ DOMAIN config = DOMAIN Defaults
    /\ config.period \in Nat
    /\ config.windows \in Seq(Nat)
    /\ config.quantiles \in Seq(SUBSET Int)

\* Whether it is parsed or made of defaults only.
LEMMA ParsedTyped ==
    ASSUME NEW path \in Paths, NEW config \in Parsed(path)
    PROVE  Typed(config)
<1>0. Typed(Defaults)
  <2>1. <<10000, 60000>> \in Seq(Nat)
    OBVIOUS
  <2>2. <<{50}, {90}, {95}, {99}>> \in Seq(SUBSET Int)
    OBVIOUS
  <2> QED
    BY <2>1, <2>2, DefaultsAre DEF Typed
<1>1. CASE path.kind = "none"
  BY <1>0, <1>1 DEF Parsed
<1>2. CASE path.kind = "unreadable"
  BY <1>2 DEF Parsed
<1>3. CASE path.kind = "file"
  <2>1. /\ path.file \in Files /\ DOMAIN path.file \subseteq DOMAIN Defaults
        /\ config = Completed(path.file, Defaults)
    BY <1>3 DEF Parsed, Paths
  <2>2. /\ DOMAIN config = DOMAIN Defaults
        /\ \A s \in DOMAIN Defaults :
              config[s] = IF s \in DOMAIN path.file THEN path.file[s] ELSE Defaults[s]
    BY <2>1 DEF Completed
  <2>3. /\ "period" \in DOMAIN path.file => path.file.period \in Nat
        /\ "windows" \in DOMAIN path.file => path.file.windows \in Seq(Nat)
        /\ "quantiles" \in DOMAIN path.file => path.file.quantiles \in Seq(SUBSET Int)
    BY <2>1, SettingsAssumption
  <2>4. {"period", "windows", "quantiles"} \subseteq DOMAIN Defaults
    BY DefaultsAre
  <2> QED
    BY <1>0, <2>2, <2>3, <2>4 DEF Typed
<1> QED
  BY <1>1, <1>2, <1>3 DEF Paths

\* The environment replaces three settings at most, and the types stay.
LEMMA OverriddenTyped ==
    ASSUME NEW base, Typed(base), NEW env \in Overrides,
           NEW config \in Overridden(base, env)
    PROVE  Typed(config)
<1> DEFINE Var(name, setting) == IF name \in DOMAIN env THEN env[name] ELSE base[setting]
           periods == IF "HIRES_SAMPLING_PERIOD" \in DOMAIN env
                      THEN env["HIRES_SAMPLING_PERIOD"] ELSE {base.period}
<1>1. PICK p \in periods :
          config = [base EXCEPT !.listen = Var("HIRES_LISTEN", "listen"),
                                !.procfs_root = Var("HIRES_PROCFS_ROOT", "procfs_root"),
                                !.period = p]
  BY DEF Overridden
<1>2. p \in Nat
  BY SettingsAssumption DEF Typed
<1> HIDE DEF Var
<1>3. /\ DOMAIN config = DOMAIN base /\ config.period = p
      /\ config.windows = base.windows /\ config.quantiles = base.quantiles
  BY <1>1, DefaultsAre DEF Typed
<1> QED
  BY <1>2, <1>3 DEF Typed

\* The defaults by themselves load.
LEMMA DefaultsLoad ==
    ASSUME NEW path, path.kind = "none"
    PROVE  Load(path, <<>>) = {Defaults}
<1>1. Parsed(path) = {Defaults}
  BY DEF Parsed
<1>2. Overridden(Defaults, <<>>) = {Defaults}
  <2>1. DOMAIN << >> = {}
    OBVIOUS
  <2>2. [Defaults EXCEPT !.listen = Defaults["listen"],
                         !.procfs_root = Defaults["procfs_root"],
                         !.period = Defaults.period] = Defaults
    <3>1. Defaults = [s \in DOMAIN Defaults |-> Defaults[s]]
      BY DefaultsAre
    <3> QED
      BY <3>1, Zenon
  <2> QED
    BY <2>1, <2>2 DEF Overridden
<1>3. Valid(Defaults)
  <2>1. IsInjective(<<10000, 60000>>)
    BY DEF IsInjective
  <2>2. \A i \in DOMAIN <<{50}, {90}, {95}, {99}>> :
            \E q \in <<{50}, {90}, {95}, {99}>>[i] : 0 < q /\ q < 100
    OBVIOUS
  <2>3. /\ \A i \in DOMAIN <<10000, 60000>> : <<10000, 60000>>[i] > 200
        /\ <<10000, 60000>> # <<>> /\ <<{50}, {90}, {95}, {99}>> # <<>>
    OBVIOUS
  <2> QED
    BY <2>1, <2>2, <2>3, DefaultsAre DEF Valid, ValidAggregation
<1> QED
  BY <1>1, <1>2, <1>3 DEF Load

\* No two durations have the same label.
LEMMA LabelInjective ==
    ASSUME NEW a \in Nat, NEW b \in Nat, DurationLabel(a) = DurationLabel(b)
    PROVE  a = b
<1>1. a \div 60000 = b \div 60000 /\ (a \div 1000) % 60 = (b \div 1000) % 60 /\ a % 1000 = b % 1000
  BY DEF DurationLabel
<1>2. a \div 60000 = (a \div 1000) \div 60 /\ b \div 60000 = (b \div 1000) \div 60
  OBVIOUS
<1>3. a \div 1000 = b \div 1000
  BY <1>1, <1>2
<1> QED
  BY <1>1, <1>3

\* Whatever a file and the environment say together, what loads is usable.
LEMMA LoadsUsable ==
    ASSUME NEW path \in Paths, NEW env \in Overrides, NEW config \in Load(path, env)
    PROVE  /\ config.snapshot_interval > 0 /\ config.max_series > 0
           /\ config.period > 0 /\ config.period >= config.min_period
           /\ config.windows # <<>>
           /\ \A i \in DOMAIN config.windows : config.windows[i] - config.period > 0
           /\ \A i, j \in DOMAIN config.windows :
                 DurationLabel(config.windows[i]) = DurationLabel(config.windows[j]) => i = j
           /\ \A i \in DOMAIN config.quantiles : \A len \in {1, 2, 50} :
                 \E q \in config.quantiles[i] : Ceil(Rank(len, q)) \in 0..(len - 1)
<1>1. Typed(config) /\ Valid(config)
  <2>1. PICK c \in Parsed(path) : config \in Overridden(c, env)
    BY DEF Load
  <2> QED
    BY <2>1, ParsedTyped, OverriddenTyped DEF Load
<1>2. /\ config.windows \in Seq(Nat) /\ config.quantiles \in Seq(SUBSET Int)
      /\ config.period \in Nat
      /\ \A i \in DOMAIN config.windows : config.windows[i] \in Nat
      /\ \A i \in DOMAIN config.quantiles : config.quantiles[i] \subseteq Int
  BY <1>1 DEF Typed
<1>3. /\ config.snapshot_interval > 0 /\ config.max_series > 0
      /\ config.period > 0 /\ config.period >= config.min_period
      /\ config.windows # <<>> /\ IsInjective(config.windows)
      /\ \A i \in DOMAIN config.windows : config.windows[i] > config.period
      /\ \A i \in DOMAIN config.quantiles : \E q \in config.quantiles[i] : 0 < q /\ q < 100
  BY <1>1 DEF Valid, ValidAggregation
<1>4. \A i \in DOMAIN config.windows : config.windows[i] - config.period > 0
  BY <1>2, <1>3
<1>5. ASSUME NEW i \in DOMAIN config.windows, NEW j \in DOMAIN config.windows,
             DurationLabel(config.windows[i]) = DurationLabel(config.windows[j])
      PROVE  i = j
  <2>1. config.windows[i] = config.windows[j]
    BY <1>2, <1>5, LabelInjective
  <2> QED
    BY <1>3, <2>1 DEF IsInjective
<1>6. ASSUME NEW i \in DOMAIN config.quantiles, NEW len \in {1, 2, 50}
      PROVE  \E q \in config.quantiles[i] : Ceil(Rank(len, q)) \in 0..(len - 1)
  <2>1. PICK q \in config.quantiles[i] : 0 < q /\ q < 100
    BY <1>3
  <2>2. q \in Int
    BY <1>2
  <2>3. q \in 1..99 /\ len \in Nat \ {0}
    BY <2>1, <2>2
  <2> QED
    BY <2>3, RankPlaces
<1> QED
  BY <1>3, <1>4, <1>5, <1>6
-----------------------------------------------------------------------------
\* Calculations, the names of devices.

\* What names are made of.  To the provers a literal is no member of STRING.
Symbols == STRING \cup Digits \cup {"p"}

\* The disks have names of that kind.
LEMMA DisksAreNames ==
    ASSUME NEW d \in Disks
    PROVE  d \in Seq(Symbols) \ {<<>>}
<1>1. d \in Seq(STRING) /\ d # <<>>
  BY NamesAssumption
<1>2. Len(d) \in Nat /\ d \in [1..Len(d) -> STRING]
  BY <1>1
<1>3. d \in [1..Len(d) -> Symbols]
  BY <1>2 DEF Symbols
<1> QED
  BY <1>1, <1>2, <1>3

\* One name begins with another, and goes on.
LEMMA Prefix ==
    ASSUME NEW s \in Seq(Symbols), NEW u \in Seq(Symbols)
    PROVE  IsStrictPrefix(s, u) <=> Len(s) < Len(u) /\ \A i \in 1..Len(s) : s[i] = u[i]
<1>1. ASSUME Len(s) <= Len(u)
      PROVE  /\ SubSeq(s, 1, Len(s)) = s
             /\ SubSeq(u, 1, Len(s)) \in Seq(Symbols)
             /\ Len(SubSeq(u, 1, Len(s))) = Len(s)
             /\ \A i \in 1..Len(s) : SubSeq(u, 1, Len(s))[i] = u[i]
  BY <1>1
<1>2. ASSUME IsStrictPrefix(s, u)
      PROVE  Len(s) < Len(u) /\ \A i \in 1..Len(s) : s[i] = u[i]
  <2>1. Len(s) <= Len(u) /\ s = SubSeq(u, 1, Len(s)) /\ s # u
    BY <1>1, <1>2 DEF IsStrictPrefix, IsPrefix
  <2>2. \A i \in 1..Len(s) : s[i] = u[i]
    BY <1>1, <2>1
  <2>3. Len(s) # Len(u)
    BY <2>1
  <2> QED
    BY <2>1, <2>2, <2>3
<1>3. ASSUME Len(s) < Len(u), \A i \in 1..Len(s) : s[i] = u[i]
      PROVE  IsStrictPrefix(s, u)
  <2>1. SubSeq(u, 1, Len(s)) = s
    BY <1>1, <1>3, SeqEqual
  <2> QED
    BY <1>1, <1>3, <2>1 DEF IsStrictPrefix, IsPrefix
<1> QED
  BY <1>2, <1>3

\* The end of a name.
LEMMA Ending ==
    ASSUME NEW s \in Seq(Symbols), NEW u \in Seq(Symbols), Len(s) < Len(u)
    PROVE  LET e == SubSeq(u, Len(s) + 1, Len(u)) IN
           /\ e \in Seq(Symbols) /\ e # <<>>
           /\ Len(e) = Len(u) - Len(s)
           /\ \A i \in 1..Len(e) : e[i] = u[Len(s) + i]
<1>1. Len(s) + 1 \in Int /\ Len(u) \in Int /\ \A i \in (Len(s) + 1)..Len(u) : u[i] \in Symbols
  OBVIOUS
<1> DEFINE e == SubSeq(u, Len(s) + 1, Len(u))
<1>2. /\ e \in Seq(Symbols)
      /\ Len(e) = (IF Len(s) + 1 <= Len(u) THEN Len(u) - (Len(s) + 1) + 1 ELSE 0)
      /\ \A i \in 1..(Len(u) - (Len(s) + 1) + 1) : e[i] = u[Len(s) + 1 + i - 1]
  BY <1>1, SubSeqProperties
<1> HIDE DEF e
<1>3. Len(s) \in Nat /\ Len(u) \in Nat
  OBVIOUS
<1>4. Len(e) = Len(u) - Len(s) /\ Len(e) > 0
  BY <1>2, <1>3
<1>5. \A i \in 1..Len(e) : e[i] = u[Len(s) + i]
  BY <1>2, <1>3, <1>4
<1>6. e # <<>>
  BY <1>4
<1> QED
  BY <1>2, <1>4, <1>5, <1>6 DEF e

\* What is a number, perhaps after a p, ends in a digit.
LEMMA NumberHasDigit ==
    ASSUME NEW e \in Seq(Symbols), e # <<>>,
           WithoutP(e) # <<>>, AllDigits(WithoutP(e))
    PROVE  e[Len(e)] \in Digits
<1>1. CASE Head(e) = "p"
  <2>1. WithoutP(e) = Tail(e)
    BY <1>1 DEF WithoutP
  <2>2. /\ Tail(e) \in Seq(Symbols) /\ Len(Tail(e)) = Len(e) - 1
        /\ \A i \in 1..Len(Tail(e)) : Tail(e)[i] = e[i + 1]
    BY HeadTailProperties
  <2>3. Len(Tail(e)) \in DOMAIN Tail(e) /\ Len(Tail(e)) \in 1..Len(Tail(e))
    BY <2>1, <2>2
  <2>4. Tail(e)[Len(Tail(e))] \in Digits
    BY <2>1, <2>3 DEF AllDigits
  <2> QED
    BY <2>2, <2>3, <2>4
<1>2. CASE Head(e) # "p"
  <2>1. WithoutP(e) = e
    BY <1>2 DEF WithoutP
  <2> QED
    BY <2>1 DEF AllDigits
<1> QED
  BY <1>1, <1>2

\* A number is a text.
LEMMA NumberIs ==
    ASSUME NEW n \in Seq(Digits) \ {<<>>}
    PROVE  n \in Seq(Symbols) /\ Len(n) \in Nat \ {0} /\ \A i \in 1..Len(n) : n[i] \in Digits
<1>1. Len(n) \in Nat \ {0} /\ n \in [1..Len(n) -> Digits]
  OBVIOUS
<1>2. \A i \in 1..Len(n) : n[i] \in Digits
  BY <1>1
<1>3. \A c \in Digits : c \in Symbols
  BY DEF Symbols
<1>4. n \in [1..Len(n) -> Symbols]
  BY <1>1, <1>3
<1>5. n \in Seq(Symbols)
  BY <1>1, <1>4, IsASeq
<1> QED
  BY <1>1, <1>2, <1>5

\* A name of a partition is that of its disk, and a number that a p may precede.
LEMMA PartitionNameIs ==
    ASSUME NEW d \in Seq(Symbols) \ {<<>>}, NEW n \in Seq(Digits) \ {<<>>}
    PROVE  LET name == PartitionName(d, n)
               from == IF Last(d) \in Digits THEN Len(d) + 1 ELSE Len(d)
           IN  /\ name \in Seq(Symbols)
               /\ Len(name) = from + Len(n)
               /\ \A i \in 1..Len(d) : name[i] = d[i]
               /\ \A i \in 1..Len(n) : name[from + i] = n[i]
               /\ Last(d) \in Digits => name[Len(d) + 1] = "p"
<1>1. n \in Seq(Symbols)
  BY NumberIs
<1>2. CASE Last(d) \in Digits
  <2>1. /\ Append(d, "p") \in Seq(Symbols) /\ Len(Append(d, "p")) = Len(d) + 1
        /\ \A i \in 1..Len(d) : Append(d, "p")[i] = d[i]
        /\ Append(d, "p")[Len(d) + 1] = "p"
    <3>1. "p" \in Symbols
      BY DEF Symbols
    <3> QED
      BY <3>1, AppendProperties
  <2>2. PartitionName(d, n) = Append(d, "p") \o n
    BY <1>2 DEF PartitionName
  <2> QED
    BY <1>1, <1>2, <2>1, <2>2, ConcatProperties
<1>3. CASE Last(d) \notin Digits
  <2>1. PartitionName(d, n) = d \o n
    BY <1>3 DEF PartitionName
  <2> QED
    BY <1>1, <1>3, <2>1, ConcatProperties
<1> QED
  BY <1>2, <1>3

\* A partition of a listed disk is told by its name.
LEMMA PartitionTold ==
    ASSUME NEW d \in Seq(Symbols) \ {<<>>}, NEW n \in Seq(Digits) \ {<<>>}
    PROVE  LooksLikePartition(PartitionName(d, n), d)
<1> DEFINE name == PartitionName(d, n)
           from == IF Last(d) \in Digits THEN Len(d) + 1 ELSE Len(d)
           e    == SubSeq(name, Len(d) + 1, Len(name))
<1>0. n \in Seq(Symbols) /\ Len(n) \in Nat \ {0} /\ \A i \in 1..Len(n) : n[i] \in Digits
  BY NumberIs
<1>1. /\ name \in Seq(Symbols)
      /\ Len(name) = from + Len(n)
      /\ \A i \in 1..Len(d) : name[i] = d[i]
      /\ \A i \in 1..Len(n) : name[from + i] = n[i]
      /\ Last(d) \in Digits => name[Len(d) + 1] = "p"
  BY PartitionNameIs
<1> HIDE DEF name
<1>2. Len(d) < Len(name)
  BY <1>0, <1>1
<1>3. IsStrictPrefix(d, name)
  BY <1>1, <1>2, Prefix
<1>4. /\ e \in Seq(Symbols) /\ e # <<>> /\ Len(e) = Len(name) - Len(d)
      /\ \A i \in 1..Len(e) : e[i] = name[Len(d) + i]
  BY <1>1, <1>2, Ending
<1> HIDE DEF e
<1>5. WithoutP(e) = n
  <2>1. CASE Last(d) \in Digits
    <3>1. Head(e) = "p"
      BY <1>1, <1>4, <2>1
    <3>2. WithoutP(e) = Tail(e)
      BY <1>4, <3>1 DEF WithoutP
    <3>3. /\ Tail(e) \in Seq(Symbols) /\ Len(Tail(e)) = Len(n)
          /\ \A i \in 1..Len(Tail(e)) : Tail(e)[i] = e[i + 1]
      BY <1>0, <1>1, <1>4, <2>1, HeadTailProperties
    <3>4. ASSUME NEW i \in 1..Len(n) PROVE Tail(e)[i] = n[i]
      <4>1. i + 1 \in 1..Len(e) /\ Len(d) + (i + 1) = from + i
        BY <1>0, <1>1, <1>4, <2>1
      <4>2. Tail(e)[i] = e[i + 1]
        BY <3>3
      <4> HIDE DEF from
      <4> QED
        BY <1>1, <1>4, <4>1, <4>2
    <3> QED
      BY <1>0, <3>2, <3>3, <3>4, SeqEqual
  <2>2. CASE Last(d) \notin Digits
    <3>1. Len(e) = Len(n) /\ \A i \in 1..Len(n) : e[i] = n[i]
      BY <1>0, <1>1, <1>4, <2>2
    <3>2. e = n
      BY <1>0, <1>4, <3>1, SeqEqual
    <3>3. Head(n) \in Digits
      BY <1>0
    <3>4. "p" \notin Digits
      BY DEF Digits
    <3> QED
      BY <3>2, <3>3, <3>4 DEF WithoutP
  <2> QED
    BY <2>1, <2>2
<1>6. AllDigits(n)
  BY <1>0 DEF AllDigits
<1> QED
  BY <1>0, <1>3, <1>5, <1>6 DEF LooksLikePartition, e, name

\* A disk that is taken for a partition of a listed device has the name of
\* another listed disk, which ends in a digit, and a number after it.
LEMMA TakenForPartition ==
    ASSUME NEW disks \in SUBSET Disks,
           NEW d \in disks, NEW other \in disks, NEW base,
           base = other \/ \E number \in Numbers : base = PartitionName(other, number),
           LooksLikePartition(d, base)
    PROVE  /\ other # d
           /\ IsStrictPrefix(other, d)
           /\ Last(other) \in Digits
           /\ \A i \in (Len(other) + 1)..Len(d) : d[i] \in Digits
<1>1. /\ d \in Seq(Symbols) \ {<<>>} /\ other \in Seq(Symbols) \ {<<>>}
      /\ other \in Disks /\ d \in Disks
  BY NamesAssumption, DisksAreNames
<1>2. /\ base \in Seq(Symbols) /\ Len(base) \in Nat /\ Len(other) <= Len(base)
      /\ \A i \in 1..Len(other) : base[i] = other[i]
  <2>1. CASE base = other
    BY <1>1, <2>1
  <2>2. ASSUME NEW number \in Numbers, base = PartitionName(other, number)
        PROVE  /\ base \in Seq(Symbols) /\ Len(base) \in Nat /\ Len(other) <= Len(base)
               /\ \A i \in 1..Len(other) : base[i] = other[i]
    <3>1. number \in Seq(Digits) \ {<<>>} /\ Len(number) \in Nat
      BY NamesAssumption
    <3> DEFINE from == IF Last(other) \in Digits THEN Len(other) + 1 ELSE Len(other)
    <3>2. /\ base \in Seq(Symbols) /\ Len(base) = from + Len(number)
          /\ \A i \in 1..Len(other) : base[i] = other[i]
      BY <1>1, <2>2, <3>1, PartitionNameIs
    <3>3. Len(other) \in Nat
      BY <1>1
    <3> QED
      BY <3>1, <3>2, <3>3
  <2> QED
    BY <2>1, <2>2
<1>3. Len(base) < Len(d) /\ \A i \in 1..Len(base) : base[i] = d[i]
  BY <1>1, <1>2, Prefix DEF LooksLikePartition
<1>4. Len(other) < Len(d) /\ IsStrictPrefix(other, d)
  <2>1. Len(other) < Len(d) /\ \A i \in 1..Len(other) : other[i] = d[i]
    BY <1>1, <1>2, <1>3
  <2> QED
    BY <1>1, <2>1, Prefix
<1>5. d[Len(d)] \in Digits
  <2> DEFINE e == SubSeq(d, Len(base) + 1, Len(d))
  <2>1. /\ e \in Seq(Symbols) /\ e # <<>> /\ Len(e) = Len(d) - Len(base)
        /\ \A i \in 1..Len(e) : e[i] = d[Len(base) + i]
    BY <1>1, <1>2, <1>3, Ending
  <2>2. WithoutP(e) # <<>> /\ AllDigits(WithoutP(e))
    BY DEF LooksLikePartition
  <2> HIDE DEF e
  <2>3. e[Len(e)] \in Digits
    BY <2>1, <2>2, NumberHasDigit
  <2>4. Len(e) \in 1..Len(e) /\ Len(base) + Len(e) = Len(d)
    BY <1>1, <1>2, <2>1
  <2> QED
    BY <2>1, <2>3, <2>4
<1>6. Len(d) \in (Len(other) + 1)..Len(d)
  BY <1>1, <1>4
<1>7. Last(other) \in Digits /\ \A i \in (Len(other) + 1)..Len(d) : d[i] \in Digits
  BY <1>1, <1>4, <1>5, <1>6, NamesAssumption
<1>8. other # d
  BY <1>1, <1>4
<1> QED
  BY <1>4, <1>7, <1>8
-----------------------------------------------------------------------------
\* Calculations, the order of a report.

\* A report has pairs of these keys and windows.
Rendered(report) == DOMAIN report \subseteq MetricKeys \X Windows

\* What has a place in an order is at it.
LEMMA PlaceIs ==
    ASSUME NEW order, NEW x, \E i \in DOMAIN order : order[i] = x
    PROVE  Place(order, x) \in DOMAIN order /\ order[Place(order, x)] = x
  BY DEF Place

\* Keys are ordered by their families first, and no two have the same rank.
LEMMA KeyRankOrders ==
    ASSUME NEW a \in MetricKeys, NEW b \in MetricKeys
    PROVE  /\ KeyRank(a) \in Nat
           /\ KeyRank(a) <= KeyRank(b) =>
                 Place(FamilyOrder, a.family) <= Place(FamilyOrder, b.family)
           /\ Place(FamilyOrder, a.family) \in Nat
           /\ Place(FamilyOrder, a.family) = Place(FamilyOrder, b.family) => a.family = b.family
           /\ KeyRank(a) = KeyRank(b) => a = b
<1> DEFINE Known(k) ==
              /\ \E i \in DOMAIN FamilyOrder : FamilyOrder[i] = k.family
              /\ k.labels # <<>> => \E i \in DOMAIN ValueOrder : ValueOrder[i] = k.labels[1].value
           n == Len(ValueOrder)
           f(k) == Place(FamilyOrder, k.family)
           v(k) == IF k.labels = <<>> THEN 0 ELSE Place(ValueOrder, k.labels[1].value)
<1>1. Known(a) /\ Known(b)
  BY ReportAssumption
<1>2. n \in Nat /\ DOMAIN ValueOrder = 1..n /\ \A i \in DOMAIN FamilyOrder : i \in Nat
  BY ReportAssumption
<1>3. ASSUME NEW k, Known(k)
      PROVE  /\ f(k) \in Nat /\ FamilyOrder[f(k)] = k.family
             /\ v(k) \in 0..n
             /\ v(k) = 0 <=> k.labels = <<>>
             /\ k.labels # <<>> => ValueOrder[v(k)] = k.labels[1].value
             /\ KeyRank(k) = f(k) * (n + 1) + v(k)
  <2>1. f(k) \in Nat /\ FamilyOrder[f(k)] = k.family
    BY <1>2, <1>3, PlaceIs
  <2>2. CASE k.labels = <<>>
    BY <1>2, <2>1, <2>2 DEF KeyRank
  <2>3. CASE k.labels # <<>>
    <3>1. v(k) \in 1..n /\ ValueOrder[v(k)] = k.labels[1].value
      BY <1>2, <1>3, <2>3, PlaceIs
    <3> QED
      BY <1>2, <2>1, <2>3, <3>1 DEF KeyRank
  <2> QED
    BY <2>2, <2>3
<1>4. /\ f(a) \in Nat /\ FamilyOrder[f(a)] = a.family /\ v(a) \in 0..n
      /\ v(a) = 0 <=> a.labels = <<>>
      /\ a.labels # <<>> => ValueOrder[v(a)] = a.labels[1].value
      /\ KeyRank(a) = f(a) * (n + 1) + v(a)
  BY <1>1, <1>3
<1>5. /\ f(b) \in Nat /\ FamilyOrder[f(b)] = b.family /\ v(b) \in 0..n
      /\ v(b) = 0 <=> b.labels = <<>>
      /\ b.labels # <<>> => ValueOrder[v(b)] = b.labels[1].value
      /\ KeyRank(b) = f(b) * (n + 1) + v(b)
  BY <1>1, <1>3
<1> DEFINE fa == f(a)
           fb == f(b)
           va == v(a)
           vb == v(b)
<1>6. \A i, j \in Nat : \A r, s \in 0..n :
          /\ i * (n + 1) + r <= j * (n + 1) + s => i <= j
          /\ i * (n + 1) + r \in Nat
  <2> SUFFICES ASSUME NEW i \in Nat, NEW j \in Nat, NEW r \in 0..n, NEW s \in 0..n
               PROVE  /\ i * (n + 1) + r <= j * (n + 1) + s => i <= j
                      /\ i * (n + 1) + r \in Nat
    OBVIOUS
  <2> HIDE DEF n
  <2>1. ASSUME i > j PROVE i * (n + 1) >= j * (n + 1) + (n + 1)
    <3>1. (i - j - 1) * (n + 1) >= 0
      BY <1>2, <2>1
    <3>2. (i - j - 1) * (n + 1) = i * (n + 1) - j * (n + 1) - (n + 1)
      BY <1>2
    <3>3. i * (n + 1) \in Int /\ j * (n + 1) \in Int
      BY <1>2
    <3> QED
      BY <1>2, <3>1, <3>2, <3>3
  <2>2. i * (n + 1) \in Nat /\ j * (n + 1) \in Nat
    BY <1>2
  <2> QED
    BY <1>2, <2>1, <2>2
<1> HIDE DEF f, v, n
<1>7. KeyRank(a) \in Nat /\ (KeyRank(a) <= KeyRank(b) => f(a) <= f(b))
  BY <1>4, <1>5, <1>6
<1>8. ASSUME KeyRank(a) = KeyRank(b) PROVE a = b
  <2>1. KeyRank(b) \in Nat /\ (KeyRank(b) <= KeyRank(a) => f(b) <= f(a))
    BY <1>4, <1>5, <1>6
  <2>2. f(a) = f(b)
    BY <1>4, <1>5, <1>7, <1>8, <2>1
  <2>3. f(a) * (n + 1) = f(b) * (n + 1) /\ f(a) * (n + 1) \in Int
    BY <1>2, <1>4, <2>2
  <2>4. v(a) = v(b)
    BY <1>2, <1>4, <1>5, <1>8, <2>3
  <2>5. /\ a.family = b.family
        /\ a.labels = <<>> <=> b.labels = <<>>
        /\ a.labels # <<>> => a.labels[1].value = b.labels[1].value
    BY <1>4, <1>5, <2>2, <2>4
  <2> QED
    BY <2>5, ReportAssumption
<1> QED
  BY <1>4, <1>5, <1>7, <1>8 DEF f

\* The order of the pairs is strict and total.
LEMMA ComesFirstOrders ==
    ASSUME NEW report, Rendered(report)
    PROVE  /\ \A a \in DOMAIN report : ~ ComesFirst(a, a)
           /\ \A a, b \in DOMAIN report : a # b => ComesFirst(a, b) \/ ComesFirst(b, a)
           /\ \A a, b, c \in DOMAIN report :
                 ComesFirst(a, b) /\ ComesFirst(b, c) => ComesFirst(a, c)
<1> DEFINE D == DOMAIN report
<1>0. ASSUME NEW a \in D
      PROVE  a[1] \in MetricKeys /\ a[2] \in Int /\ a = <<a[1], a[2]>>
  <2>1. a \in MetricKeys \X Windows
    BY DEF Rendered
  <2>2. a[1] \in MetricKeys /\ a[2] \in Windows /\ a = <<a[1], a[2]>>
    BY <2>1
  <2> QED
    BY <2>2, ReportAssumption
<1>1. \A a \in D : KeyRank(a[1]) \in Nat /\ a[2] \in Int /\ a = <<a[1], a[2]>>
  BY <1>0, KeyRankOrders
<1>2. \A a, b \in D : KeyRank(a[1]) = KeyRank(b[1]) => a[1] = b[1]
  BY <1>0, KeyRankOrders
<1> HIDE DEF D
<1>3. \A a \in D : ~ ComesFirst(a, a)
  BY <1>1 DEF ComesFirst
<1>4. ASSUME NEW a \in D, NEW b \in D, a # b PROVE ComesFirst(a, b) \/ ComesFirst(b, a)
  <2>1. CASE a[1] = b[1]
    <3>1. a[2] # b[2]
      BY <1>1, <1>4, <2>1
    <3>2. a[2] < b[2] \/ b[2] < a[2]
      BY <1>1, <3>1
    <3> QED
      BY <2>1, <3>2 DEF ComesFirst
  <2>2. CASE a[1] # b[1]
    <3>1. KeyRank(a[1]) # KeyRank(b[1])
      BY <1>2, <2>2
    <3>2. KeyRank(a[1]) < KeyRank(b[1]) \/ KeyRank(b[1]) < KeyRank(a[1])
      BY <1>1, <3>1
    <3> QED
      BY <3>2 DEF ComesFirst
  <2> QED
    BY <2>1, <2>2
<1>5. ASSUME NEW a \in D, NEW b \in D, NEW c \in D, ComesFirst(a, b), ComesFirst(b, c)
      PROVE  ComesFirst(a, c)
  <2>1. /\ KeyRank(a[1]) < KeyRank(b[1]) \/ (a[1] = b[1] /\ a[2] < b[2])
        /\ KeyRank(b[1]) < KeyRank(c[1]) \/ (b[1] = c[1] /\ b[2] < c[2])
    BY <1>5 DEF ComesFirst
  <2>2. KeyRank(a[1]) < KeyRank(c[1]) \/ (a[1] = c[1] /\ a[2] < c[2])
    BY <1>1, <2>1
  <2> QED
    BY <2>2 DEF ComesFirst
<1> QED
  BY <1>3, <1>4, <1>5 DEF D

\* Each pair of a report has its place, and the place is its own.
LEMMA PairsInOrder ==
    ASSUME NEW report, Rendered(report)
    PROVE  LET n == Cardinality(DOMAIN report)
               pairs == InOrder(report)
           IN  /\ n \in Nat /\ DOMAIN pairs = 1..n
               /\ \A i \in 1..n : pairs[i] \in DOMAIN report
               /\ \A p \in DOMAIN report : \E i \in 1..n : pairs[i] = p
               /\ \A i, j \in 1..n : i < j => ComesFirst(pairs[i], pairs[j])
<1> DEFINE D == DOMAIN report
           n == Cardinality(D)
           Before(p) == {o \in D : ComesFirst(o, p)}
           place(p) == Cardinality(Before(p))
           pairs == InOrder(report)
<1>1. IsFiniteSet(D) /\ n \in Nat
  <2>1. IsFiniteSet(MetricKeys \X Windows)
    BY ReportAssumption, FS_Product
  <2>2. IsFiniteSet(D)
    BY <2>1, FS_Subset DEF Rendered
  <2> QED
    BY <2>2, FS_CardinalityType
<1>2. /\ \A a \in D : ~ ComesFirst(a, a)
      /\ \A a, b \in D : a # b => ComesFirst(a, b) \/ ComesFirst(b, a)
      /\ \A a, b, c \in D : ComesFirst(a, b) /\ ComesFirst(b, c) => ComesFirst(a, c)
  BY ComesFirstOrders
<1>3. DOMAIN pairs = 1..n
  BY DEF InOrder
<1>5. \A i \in 1..n : pairs[i] = CHOOSE p \in D : place(p) = i - 1
  BY DEF InOrder
<1> HIDE DEF D, n, pairs
<1>6. \A p \in D : IsFiniteSet(Before(p)) /\ place(p) \in Nat
  BY <1>1, FS_Subset, FS_CardinalityType
<1>7. ASSUME NEW a \in D, NEW b \in D, ComesFirst(a, b) PROVE place(a) < place(b)
  <2>1. Before(a) \in SUBSET Before(b) /\ a \in Before(b) /\ a \notin Before(a)
    BY <1>2, <1>7
  <2>2. IsFiniteSet(Before(b)) /\ place(a) \in Nat /\ place(b) \in Nat
    BY <1>6
  <2> HIDE DEF Before
  <2>3. place(a) <= place(b) /\ (place(a) = place(b) => Before(a) = Before(b))
    BY <2>1, <2>2, FS_Subset
  <2> QED
    BY <2>1, <2>2, <2>3
<1>8. ASSUME NEW p \in D PROVE place(p) \in 0..(n - 1)
  <2>1. Before(p) \in SUBSET D /\ p \notin Before(p)
    BY <1>2
  <2>2. place(p) \in Nat
    BY <1>6
  <2> HIDE DEF Before
  <2>3. place(p) <= n /\ (place(p) = n => Before(p) = D)
    BY <1>1, <2>1, FS_Subset DEF n
  <2>4. place(p) # n
    BY <2>1, <2>3
  <2> QED
    BY <1>1, <2>2, <2>3, <2>4
<1>9. \A a, b \in D : place(a) = place(b) => a = b
  <2> SUFFICES ASSUME NEW a \in D, NEW b \in D, place(a) = place(b), a # b PROVE FALSE
    OBVIOUS
  <2>1. place(a) < place(b) \/ place(b) < place(a)
    BY <1>2, <1>7
  <2> QED
    BY <1>6, <2>1
<1> HIDE DEF place
<1>10. \A i \in 0..(n - 1) : \E p \in D : place(p) = i
  <2> DEFINE f == [p \in D |-> place(p)]
             T == {place(p) : p \in D}
  <2>1. f \in Bijection(D, T)
    <3>1. DOMAIN f = D /\ f \in [D -> T]
      OBVIOUS
    <3>2. \A a, b \in D : f[a] = f[b] => a = b
      BY <1>9
    <3>3. \A t \in T : \E p \in D : f[p] = t
      OBVIOUS
    <3> HIDE DEF f, T
    <3> QED
      BY <3>1, <3>2, <3>3 DEF Bijection, Injection, Surjection, IsInjective
  <2>2. T \in SUBSET (0..(n - 1))
    BY <1>8
  <2>3. IsFiniteSet(T) /\ Cardinality(T) = n
    <3> HIDE DEF T
    <3>1. ExistsBijection(D, T)
      BY <2>1 DEF ExistsBijection
    <3> QED
      BY <1>1, <3>1, FS_Bijection DEF n
  <2>4. IsFiniteSet(0..(n - 1)) /\ Cardinality(0..(n - 1)) = n
    <3>1. CASE n = 0
      <4>1. 0..(n - 1) = {}
        BY <3>1
      <4> QED
        BY <3>1, <4>1, FS_EmptySet
    <3>2. CASE n # 0
      <4>1. 0 \in Int /\ n - 1 \in Int /\ 0 <= n - 1
        BY <1>1, <3>2
      <4>2. IsFiniteSet(0..(n - 1)) /\ Cardinality(0..(n - 1)) = (n - 1) - 0 + 1
        BY <4>1, FS_Interval
      <4> QED
        BY <1>1, <4>2
    <3> QED
      BY <3>1, <3>2
  <2>5. T = 0..(n - 1)
    <3> HIDE DEF T
    <3> QED
      BY <2>2, <2>3, <2>4, FS_Subset
  <2> QED
    BY <2>5
<1>11. ASSUME NEW i \in 1..n PROVE pairs[i] \in D /\ place(pairs[i]) = i - 1
  <2>1. i - 1 \in 0..(n - 1)
    BY <1>1
  <2>2. \E p \in D : place(p) = i - 1
    BY <1>10, <2>1
  <2> QED
    BY <1>5, <2>2
<1>12. ASSUME NEW p \in D PROVE \E i \in 1..n : pairs[i] = p
  <2>1. place(p) + 1 \in 1..n /\ (place(p) + 1) - 1 = place(p)
    BY <1>1, <1>8
  <2>2. pairs[place(p) + 1] \in D /\ place(pairs[place(p) + 1]) = place(p)
    BY <1>11, <2>1
  <2> QED
    BY <1>9, <2>1, <2>2
<1>13. ASSUME NEW i \in 1..n, NEW j \in 1..n, i < j PROVE ComesFirst(pairs[i], pairs[j])
  <2>1. /\ pairs[i] \in D /\ place(pairs[i]) = i - 1
        /\ pairs[j] \in D /\ place(pairs[j]) = j - 1
    BY <1>11
  <2>2. pairs[i] # pairs[j] /\ ~ (place(pairs[j]) < place(pairs[i]))
    BY <1>1, <1>13, <2>1
  <2> QED
    BY <1>2, <1>7, <2>1, <2>2
<1> QED
  BY <1>1, <1>3, <1>11, <1>12, <1>13 DEF D, n, pairs

\* What is at the places i to k of the order is of one family if both ends are,
\* and of one series if both ends are.
Together(pairs) ==
    \A i, j, k \in DOMAIN pairs : i <= j /\ j <= k =>
        /\ pairs[i][1].family = pairs[k][1].family =>
              pairs[j][1].family = pairs[i][1].family
        /\ pairs[i][1] = pairs[k][1] => pairs[j][1] = pairs[i][1]

\* In the order of snapshot() the pairs of a family stand together, and so do the
\* windows of a series.
LEMMA InOrderTogether ==
    ASSUME NEW report, Rendered(report)
    PROVE  Together(InOrder(report))
<1> DEFINE D == DOMAIN report
           n == Cardinality(D)
           pairs == InOrder(report)
           place(p) == Place(FamilyOrder, p[1].family)
<1>1. /\ n \in Nat /\ DOMAIN pairs = 1..n
      /\ \A i \in 1..n : pairs[i] \in D
      /\ \A i, j \in 1..n : i < j => ComesFirst(pairs[i], pairs[j])
  BY PairsInOrder
<1>0. \A a \in D : a[1] \in MetricKeys
  BY DEF Rendered
<1>2. \A a, b \in D :
          /\ KeyRank(a[1]) \in Nat /\ place(a) \in Nat
          /\ KeyRank(a[1]) <= KeyRank(b[1]) => place(a) <= place(b)
          /\ place(a) = place(b) => a[1].family = b[1].family
          /\ KeyRank(a[1]) = KeyRank(b[1]) => a[1] = b[1]
  BY <1>0, KeyRankOrders
<1> HIDE DEF D, n, pairs
<1>3. ASSUME NEW i \in 1..n, NEW j \in 1..n, i <= j
      PROVE  KeyRank(pairs[i][1]) <= KeyRank(pairs[j][1])
  <2>1. pairs[i] \in D /\ pairs[j] \in D
    BY <1>1
  <2>2. KeyRank(pairs[i][1]) \in Nat /\ KeyRank(pairs[j][1]) \in Nat
    BY <1>2, <2>1
  <2>3. CASE i = j
    BY <2>2, <2>3
  <2>4. CASE i < j
    <3>1. ComesFirst(pairs[i], pairs[j])
      BY <1>1, <2>4
    <3> QED
      BY <2>2, <3>1 DEF ComesFirst
  <2> QED
    BY <1>1, <1>3, <2>3, <2>4
<1>4. ASSUME NEW i \in 1..n, NEW j \in 1..n, NEW k \in 1..n, i <= j, j <= k
      PROVE  /\ pairs[i][1].family = pairs[k][1].family =>
                    pairs[j][1].family = pairs[i][1].family
             /\ pairs[i][1] = pairs[k][1] => pairs[j][1] = pairs[i][1]
  <2>1. pairs[i] \in D /\ pairs[j] \in D /\ pairs[k] \in D
    BY <1>1
  <2>2. /\ KeyRank(pairs[i][1]) <= KeyRank(pairs[j][1])
        /\ KeyRank(pairs[j][1]) <= KeyRank(pairs[k][1])
    BY <1>3, <1>4
  <2>3. /\ place(pairs[i]) <= place(pairs[j]) /\ place(pairs[j]) <= place(pairs[k])
        /\ place(pairs[i]) \in Nat /\ place(pairs[j]) \in Nat /\ place(pairs[k]) \in Nat
    BY <1>2, <2>1, <2>2
  <2>4. ASSUME pairs[i][1].family = pairs[k][1].family
        PROVE  pairs[j][1].family = pairs[i][1].family
    <3>1. place(pairs[i]) = place(pairs[k])
      BY <2>4
    <3> HIDE DEF place
    <3>2. place(pairs[j]) = place(pairs[i])
      BY <2>3, <3>1
    <3> QED
      BY <1>2, <2>1, <3>2
  <2>5. ASSUME pairs[i][1] = pairs[k][1]
        PROVE  pairs[j][1] = pairs[i][1]
    <3>1. KeyRank(pairs[i][1]) = KeyRank(pairs[k][1])
      BY <2>5
    <3>2. KeyRank(pairs[j][1]) = KeyRank(pairs[i][1])
      BY <1>2, <2>1, <2>2, <3>1
    <3> QED
      BY <1>2, <2>1, <3>2
  <2> QED
    BY <2>4, <2>5
<1> QED
  BY <1>1, <1>4 DEF Together, pairs
-----------------------------------------------------------------------------
\* Calculations, what every call returns.

\* Whatever has been called has its arguments among the inputs, and has returned
\* what the function says.
Answered ==
    /\ call.of = "load" =>
          /\ call.path \in Paths /\ call.env \in Overrides
          /\ result = Load(call.path, call.env)
    /\ call.of = "select" =>
          \E disks \in SUBSET Disks : \E partitions \in SUBSET (disks \X Numbers) :
             /\ call.disks = disks
             /\ call.parts = {PartitionName(p[1], p[2]) : p \in partitions}
             /\ result = {d \in disks \cup call.parts :
                              SelectedByName(d, disks \cup call.parts)}
    /\ call.of = "quantile" =>
          /\ call.tally \in Tallies
          /\ result = [q \in Percents |-> InterpolatedQuantile(call.tally, q)]
    /\ call.of = "render" => Rendered(call.report)

\* The next call starts from nothing.
LEMMA AnsweredStep ==
    ASSUME Answered, [CallOrReturn]_callVars
    PROVE  Answered'
<1>1. ASSUME NEW path \in Paths, NEW env \in Overrides, CallLoad(path, env)
      PROVE  Answered'
  BY <1>1 DEF CallLoad, Answered
<1>2. ASSUME NEW disks \in kSubset(2, Disks), NEW partitions \in SUBSET (disks \X Numbers),
             CallSelect(disks, partitions)
      PROVE  Answered'
  <2>1. disks \in SUBSET Disks
    BY DEF kSubset
  <2>2. /\ call'.of = "select" /\ call'.disks = disks
        /\ call'.parts = {PartitionName(p[1], p[2]) : p \in partitions}
        /\ result' = {d \in disks \cup call'.parts :
                              SelectedByName(d, disks \cup call'.parts)}
    BY <1>2 DEF CallSelect
  <2>3. \E ds \in SUBSET Disks : \E ps \in SUBSET (ds \X Numbers) :
             /\ call'.disks = ds
             /\ call'.parts = {PartitionName(p[1], p[2]) : p \in ps}
             /\ result' = {d \in ds \cup call'.parts : SelectedByName(d, ds \cup call'.parts)}
    BY <2>1, <2>2
  <2> QED
    BY <2>2, <2>3 DEF Answered
<1>3. ASSUME NEW tally \in Tallies, CallQuantile(tally)
      PROVE  Answered'
  BY <1>3 DEF CallQuantile, Answered
<1>4. ASSUME NEW pairs \in SUBSET (MetricKeys \X Windows), NEW quantiles \in Quantiles,
             NEW file \in Switches, CallRender(pairs, quantiles, file)
      PROVE  Answered'
  <2>1. PICK collectors :
            LET report == [p \in {kw \in pairs : kw[1].family \in Described(collectors)} |->
                              [value \in {1, 2} |-> 1]]
            IN  call' = [of |-> "render", quantiles |-> quantiles, report |-> report]
    BY <1>4 DEF CallRender
  <2>2. call'.of = "render" /\ DOMAIN call'.report \subseteq MetricKeys \X Windows
    BY <2>1
  <2> QED
    BY <2>2 DEF Answered, Rendered
<1>5. ASSUME call' = None
      PROVE  Answered'
  BY <1>5 DEF Answered, None
<1>6. ASSUME UNCHANGED callVars
      PROVE  Answered'
  BY <1>6 DEF Answered, callVars
<1> QED
  BY <1>1, <1>2, <1>3, <1>4, <1>5, <1>6 DEF CallOrReturn, Call

\* So every call is answered.
LEMMA AnsweredAlways == Calls => []Answered
<1>1. NoCall => Answered
  BY DEF NoCall, None, Answered
<1> QED
  BY <1>1, AnsweredStep, PTL DEF Calls

\* A configuration that loads is one the loop, the windows, the labels and the
\* quantiles can work with; Config::load of src/config.rs.
THEOREM LoadedIsUsableAlways == Calls => []LoadedIsUsable
<1>1. ASSUME Answered, call.of = "load"
      PROVE  LoadedIsUsable
  <2>1. call.path \in Paths /\ call.env \in Overrides /\ result = Load(call.path, call.env)
    BY <1>1 DEF Answered
  <2>2. call.path.kind = "none" /\ call.env = <<>> => result = {Defaults}
    BY <2>1, DefaultsLoad
  <2>3. \A config \in result :
           /\ config.snapshot_interval > 0 /\ config.max_series > 0
           /\ config.period > 0 /\ config.period >= config.min_period
           /\ config.windows # <<>>
           /\ \A i \in DOMAIN config.windows : config.windows[i] - config.period > 0
           /\ \A i, j \in DOMAIN config.windows :
                 DurationLabel(config.windows[i]) = DurationLabel(config.windows[j]) => i = j
           /\ \A i \in DOMAIN config.quantiles : \A len \in {1, 2, 50} :
                 \E q \in config.quantiles[i] : Ceil(Rank(len, q)) \in 0..(len - 1)
    BY <2>1, LoadsUsable
  <2> QED
    BY <2>2, <2>3 DEF LoadedIsUsable
<1>2. Answered => LoadedIsUsable
  BY <1>1 DEF LoadedIsUsable
<1> QED
  BY <1>2, AnsweredAlways, PTL

\* No partition is sampled beside its disk, and a disk with real I/O is left out
\* only beside one whose name it goes on with a number; device_selected and
\* is_partition_of_listed of src/collector/disk.rs.
THEOREM NamesToldAlways == Calls => []NamesTold
<1>1. ASSUME Answered, call.of = "select"
      PROVE  NamesTold
  <2>1. PICK disks \in SUBSET Disks : \E ps \in SUBSET (disks \X Numbers) :
             /\ call.disks = disks
             /\ call.parts = {PartitionName(p[1], p[2]) : p \in ps}
             /\ result = {d \in disks \cup call.parts :
                              SelectedByName(d, disks \cup call.parts)}
    BY <1>1 DEF Answered
  <2>2. PICK partitions \in SUBSET (disks \X Numbers) :
             /\ call.disks = disks
             /\ call.parts = {PartitionName(p[1], p[2]) : p \in partitions}
             /\ result = {d \in disks \cup call.parts :
                              SelectedByName(d, disks \cup call.parts)}
    BY <2>1
  <2> DEFINE listed == disks \cup call.parts
  <2>3. \A part \in call.parts :
            \E d \in disks, number \in Numbers : part = PartitionName(d, number)
    BY <2>2
  <2>4. ASSUME NEW part \in call.parts PROVE part \notin result
    <3>1. PICK d \in disks, number \in Numbers : part = PartitionName(d, number)
      BY <2>3
    <3>2. d \in Seq(Symbols) \ {<<>>} /\ number \in Seq(Digits) \ {<<>>}
      BY DisksAreNames, NamesAssumption
    <3>3. LooksLikePartition(part, d)
      BY <3>1, <3>2, PartitionTold
    <3>4. ~ SelectedByName(part, listed)
      BY <3>3 DEF SelectedByName, IsPartitionOfListed
    <3> QED
      BY <2>2, <3>4
  <2>5. ASSUME NEW disk \in call.disks \ result, ~ IsPseudoDevice(disk)
        PROVE  \E other \in call.disks \ {disk} :
                  /\ IsStrictPrefix(other, disk)
                  /\ Last(other) \in Digits
                  /\ \A i \in (Len(other) + 1)..Len(disk) : disk[i] \in Digits
    <3>1. disk \in disks /\ IsPartitionOfListed(disk, listed)
      BY <2>2, <2>5 DEF SelectedByName
    <3>2. PICK base \in listed : LooksLikePartition(disk, base)
      BY <3>1 DEF IsPartitionOfListed
    <3>3. \E other \in disks :
             base = other \/ \E number \in Numbers : base = PartitionName(other, number)
      <4>1. CASE base \in call.parts
        BY <2>3, <4>1
      <4>2. CASE base \in disks
        BY <4>2
      <4> QED
        BY <4>1, <4>2
    <3>4. PICK other \in disks :
             base = other \/ \E number \in Numbers : base = PartitionName(other, number)
      BY <3>3
    <3>5. /\ other # disk
          /\ IsStrictPrefix(other, disk)
          /\ Last(other) \in Digits
          /\ \A i \in (Len(other) + 1)..Len(disk) : disk[i] \in Digits
      BY <3>1, <3>2, <3>4, TakenForPartition
    <3> QED
      BY <2>2, <3>5
  <2> QED
    BY <2>4, <2>5 DEF NamesTold
<1>2. Answered => NamesTold
  BY <1>1 DEF NamesTold
<1> QED
  BY <1>2, AnsweredAlways, PTL

\* A quantile has as many of the values of its window on either side as it says,
\* and grows with the quantile asked for; interpolated_quantile of
\* src/aggregate.rs.
THEOREM QuantileSoundAlways == Calls => []QuantileSound
<1>1. ASSUME Answered, call.of = "quantile"
      PROVE  QuantileSound
  <2> DEFINE t == call.tally
  <2>1. t \in Tallies /\ result = [q \in Percents |-> InterpolatedQuantile(t, q)]
    BY <1>1 DEF Answered
  <2>2. IsTally(t) /\ \A q \in Percents : q \in 1..99
    BY <2>1, TalliesAssumption DEF IsTally
  <2> HIDE DEF t
  <2>3. ASSUME NEW q \in Percents
        PROVE  /\ Cardinality({x \in Values(t) : x[1] * Grid <= result[q]})
                      > (q * (Cardinality(Values(t)) - 1)) \div 100
               /\ Cardinality({x \in Values(t) : x[1] * Grid >= result[q]})
                      > ((100 - q) * (Cardinality(Values(t)) - 1)) \div 100
               /\ \A p \in Percents : p <= q => result[p] <= result[q]
    <3>1. result[q] = InterpolatedQuantile(t, q)
      BY <2>1
    <3>2. \A p \in Percents : p <= q => result[p] <= result[q]
      BY <2>1, <2>2, QuantileGrows
    <3>3. /\ Cardinality({x \in Values(t) : x[1] * Grid <= InterpolatedQuantile(t, q)})
                 > (q * (Size(t) - 1)) \div 100
          /\ Cardinality({x \in Values(t) : x[1] * Grid >= InterpolatedQuantile(t, q)})
                 > ((100 - q) * (Size(t) - 1)) \div 100
      BY <2>2, QuantileSplits
    <3> QED
      BY <3>1, <3>2, <3>3 DEF Size
  <2> QED
    BY <2>3 DEF QuantileSound, t
<1>2. Answered => QuantileSound
  BY <1>1 DEF QuantileSound
<1> QED
  BY <1>2, AnsweredAlways, PTL

\* Whatever is reported, the percentiles of a family reach render() one after the
\* other, which is why it may write the headers whenever the one before is of
\* another family; Aggregator::snapshot of src/aggregate.rs, which goes through the
\* keys in order.
THEOREM FamiliesTogetherAlways ==
    Calls => [](call.of = "render" => Together(InOrder(call.report)))
<1>1. Answered => (call.of = "render" => Together(InOrder(call.report)))
  BY InOrderTogether DEF Answered
<1> QED
  BY <1>1, AnsweredAlways, PTL
=============================================================================
