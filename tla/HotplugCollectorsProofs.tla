----------------------- MODULE HotplugCollectorsProofs -----------------------
(***************************************************************************)
(* What the softnet sample shows while CPUs come and go, for any CPUs, any *)
(* modulus of the counters and any order of the steps.  The invariant      *)
(* speaks of the CPUs the latest reading added up, on line or not: their   *)
(* counters are what a later reading can be compared with.                 *)
(***************************************************************************)
EXTENDS HotplugCollectors, FiniteSetTheorems, TLAPS

\* The counters of the CPUs that the reading added up are ahead of it by arrived
\* at most; and by exactly that, while those CPUs are the ones on line and none
\* of them has gone or wrapped.
AheadOfReading ==
    /\ gone \/ counted \subseteq online
    /\ tracker = {} => counted = {}
    /\ \A r \in tracker :
          /\ Sum(packets, counted) <= r.value + arrived
          /\ ~ gone /\ online = counted => Sum(packets, counted) = r.value + arrived

Inv == TypeOK /\ AheadOfReading

Counters == [CPUs -> 0..(Modulus - 1)]

\* Adding up any CPUs' counters gives a natural number.
LEMMA SumType ==
    ASSUME NEW f \in Counters, NEW C \in SUBSET CPUs
    PROVE  IsFiniteSet(PacketsOf(f, C)) /\ Sum(f, C) \in Nat
<1>1. IsFiniteSet(CPUs) /\ Modulus \in Nat \ {0}
  BY HotplugAssumption
<1>2. IsFiniteSet(1..(Modulus - 1))
  BY <1>1, FS_Interval
<1>3. IsFiniteSet(CPUs \X (1..(Modulus - 1)))
  BY <1>1, <1>2, FS_Product
<1>4. PacketsOf(f, C) \subseteq CPUs \X (1..(Modulus - 1))
  <2>1. SUFFICES ASSUME NEW c \in C, NEW p \in {c} \X (1..f[c])
                 PROVE  p \in CPUs \X (1..(Modulus - 1))
    BY DEF PacketsOf
  <2>2. PICK n \in 1..f[c] : p = <<c, n>>
    OBVIOUS
  <2>3. c \in CPUs /\ f[c] \in 0..(Modulus - 1)
    BY DEF Counters
  <2> QED
    BY <1>1, <2>2, <2>3
<1>5. IsFiniteSet(PacketsOf(f, C))
  BY <1>3, <1>4, FS_Subset
<1> QED
  BY <1>5, FS_CardinalityType DEF Sum

\* More CPUs have counted no less.
LEMMA SumMonotone ==
    ASSUME NEW f \in Counters, NEW D \in SUBSET CPUs, NEW C \in SUBSET D
    PROVE  Sum(f, C) <= Sum(f, D)
<1>1. PacketsOf(f, C) \subseteq PacketsOf(f, D)
  BY DEF PacketsOf
<1> QED
  BY <1>1, SumType, FS_Subset DEF Sum

\* CPUs added are no more than counted twice.
LEMMA SumUnion ==
    ASSUME NEW f \in Counters, NEW C \in SUBSET CPUs, NEW D \in SUBSET CPUs
    PROVE  Sum(f, C \cup D) <= Sum(f, C) + Sum(f, D)
<1>1. PacketsOf(f, C \cup D) = PacketsOf(f, C) \cup PacketsOf(f, D)
  BY DEF PacketsOf
<1>2. IsFiniteSet(PacketsOf(f, C)) /\ IsFiniteSet(PacketsOf(f, D))
  BY SumType
<1> DEFINE P == PacketsOf(f, C)
           Q == PacketsOf(f, D)
<1>3. /\ Cardinality(P \cup Q) = Cardinality(P) + Cardinality(Q) - Cardinality(P \cap Q)
      /\ IsFiniteSet(P \cap Q)
  BY <1>2, FS_Union, FS_Intersection
<1>4. /\ Cardinality(P) \in Nat
      /\ Cardinality(Q) \in Nat
      /\ Cardinality(P \cap Q) \in Nat
  BY <1>2, <1>3, FS_CardinalityType
<1> HIDE DEF P, Q
<1>5. Cardinality(P \cup Q) <= Cardinality(P) + Cardinality(Q)
  BY <1>3, <1>4
<1> QED
  BY <1>1, <1>5 DEF Sum, P, Q

\* The packets that come to the CPUs C, one to each.
NextPackets(f, C) == {<<c, f[c] + 1>> : c \in C}

\* There are as many of these packets as CPUs.
LEMMA NextPacketsCount ==
    ASSUME NEW f \in Counters, NEW C \in SUBSET CPUs
    PROVE  /\ IsFiniteSet(NextPackets(f, C))
           /\ Cardinality(NextPackets(f, C)) = Cardinality(C)
<1> DEFINE h == [c \in C |-> <<c, f[c] + 1>>]
           T == NextPackets(f, C)
<1>1. h \in [C -> T]
  BY DEF NextPackets
<1>2. \A a, b \in C : h[a] = h[b] => a = b
  OBVIOUS
<1>3. \A t \in T : \E a \in C : h[a] = t
  BY DEF NextPackets
<1> HIDE DEF h, T
<1>4. h \in Bijection(C, T)
  BY <1>1, <1>2, <1>3 DEF Bijection, Injection, Surjection, IsInjective
<1>5. ExistsBijection(C, T)
  BY <1>4 DEF ExistsBijection
<1>6. IsFiniteSet(C)
  BY HotplugAssumption, FS_Subset
<1> QED
  BY <1>5, <1>6, FS_Bijection DEF T

\* The counters after a packet for each of the CPUs C.
After(f, C) == [c \in CPUs |-> IF c \in C THEN (f[c] + 1) % Modulus ELSE f[c]]

\* Each of those counters goes up by one or wraps to zero, the others stay.
LEMMA AfterFacts ==
    ASSUME NEW f \in Counters, NEW C \in SUBSET CPUs
    PROVE  /\ After(f, C) \in Counters
           /\ \A c \in C : After(f, C)[c] \in {0, f[c] + 1}
           /\ \A c \in CPUs \ C : After(f, C)[c] = f[c]
<1>1. Modulus \in Nat \ {0}
  BY HotplugAssumption
<1>2. ASSUME NEW c \in CPUs
      PROVE  /\ (f[c] + 1) % Modulus \in 0..(Modulus - 1)
             /\ (f[c] + 1) % Modulus \in {0, f[c] + 1}
  <2> DEFINE n == f[c] + 1
  <2>1. n \in 1..Modulus
    BY <1>1 DEF Counters
  <2> HIDE DEF n
  <2>2. CASE n = Modulus
    <3>1. n % Modulus = 0
      BY <1>1, <2>2
    <3> QED
      BY <1>1, <3>1 DEF n
  <2>3. CASE n < Modulus
    <3>1. n % Modulus = n
      BY <1>1, <2>1, <2>3
    <3> QED
      BY <1>1, <2>1, <2>3, <3>1 DEF n
  <2> QED
    BY <1>1, <2>1, <2>2, <2>3
<1> QED
  BY <1>2 DEF After, Counters

\* A unit of time adds a packet to the sum for each CPU at most, and exactly one
\* for each if they are among those added up and none wraps.
LEMMA SumAfter ==
    ASSUME NEW f \in Counters, NEW C \in SUBSET CPUs, NEW K \in SUBSET CPUs
    PROVE  LET g == After(f, C) IN
           /\ Sum(g, K) <= Sum(f, K) + Cardinality(C)
           /\ C \subseteq K /\ (\A c \in C : g[c] # 0)
                 => Sum(g, K) = Sum(f, K) + Cardinality(C)
<1> DEFINE g == After(f, C)
           P == PacketsOf(f, K)
           Q == NextPackets(f, C)
           R == PacketsOf(g, K)
<1>1. /\ g \in Counters
      /\ \A c \in C : g[c] \in {0, f[c] + 1}
      /\ \A c \in CPUs \ C : g[c] = f[c]
  BY AfterFacts
<1>2. /\ IsFiniteSet(P) /\ IsFiniteSet(Q) /\ IsFiniteSet(R)
      /\ Cardinality(Q) = Cardinality(C)
  BY <1>1, SumType, NextPacketsCount
<1>3. IsFiniteSet(P \cup Q)
  BY <1>2, FS_Union
<1>4. P \cap Q = {}
  BY DEF PacketsOf, NextPackets, Counters
<1>5. Cardinality(P \cup Q) = Cardinality(P) + Cardinality(C)
  <2>1. Cardinality(P) \in Nat /\ Cardinality(Q) \in Nat
    BY <1>2, FS_CardinalityType
  <2>2. Cardinality(P \cap Q) = 0
    BY <1>4, FS_EmptySet
  <2>3. Cardinality(P \cup Q) = Cardinality(P) + Cardinality(Q) - Cardinality(P \cap Q)
    BY <1>2, FS_Union
  <2> HIDE DEF P, Q
  <2> QED
    BY <1>2, <2>1, <2>2, <2>3
<1>6. \A c \in K : f[c] \in Nat /\ g[c] \in Nat
  BY <1>1 DEF Counters
<1> HIDE DEF g
<1>7. R \subseteq P \cup Q
  <2>1. SUFFICES ASSUME NEW c \in K, NEW n \in 1..g[c] PROVE <<c, n>> \in P \cup Q
    BY DEF PacketsOf
  <2>2. CASE n <= f[c]
    BY <1>6, <2>2 DEF PacketsOf
  <2>3. CASE n > f[c]
    <3>1. c \in C /\ n = f[c] + 1
      BY <1>1, <1>6, <2>3
    <3> QED
      BY <3>1 DEF NextPackets
  <2> QED
    BY <1>6, <2>2, <2>3
<1>8. ASSUME C \subseteq K, \A c \in C : g[c] # 0
      PROVE  P \cup Q \subseteq R
  <2>1. \A c \in C : c \in K /\ g[c] = f[c] + 1
    BY <1>1, <1>8
  <2>2. \A c \in K : g[c] >= f[c]
    BY <1>1, <1>6, <2>1
  <2>3. P \subseteq R
    BY <1>6, <2>2 DEF PacketsOf
  <2>4. Q \subseteq R
    <3>1. SUFFICES ASSUME NEW c \in C PROVE <<c, f[c] + 1>> \in R
      BY DEF NextPackets
    <3> QED
      BY <1>6, <2>1 DEF PacketsOf
  <2> QED
    BY <2>3, <2>4
<1> HIDE DEF P, Q, R
<1>9. Cardinality(R) <= Cardinality(P) + Cardinality(C)
  BY <1>3, <1>5, <1>7, FS_Subset
<1>10. C \subseteq K /\ (\A c \in C : g[c] # 0)
          => Cardinality(R) = Cardinality(P) + Cardinality(C)
  <2>1. C \subseteq K /\ (\A c \in C : g[c] # 0) => R = P \cup Q
    BY <1>7, <1>8
  <2> QED
    BY <1>5, <2>1
<1> QED
  BY <1>9, <1>10 DEF P, R, g, Sum

\* Options have at most one element.
LEMMA SingletonCount == Cardinality({}) <= 1 /\ \A x : Cardinality({x}) <= 1
<1>1. Cardinality({}) = 0
  BY FS_EmptySet
<1>2. \A x : Cardinality({x}) = 1
  BY FS_Singleton
<1> QED
  BY <1>1, <1>2

\* A nonempty set of CPUs counts from one to as many as there are.
LEMMA CountType ==
    ASSUME NEW S \in (SUBSET CPUs) \ {{}}
    PROVE  Cardinality(S) \in 1..Cardinality(CPUs)
<1>1. IsFiniteSet(CPUs)
  BY HotplugAssumption
<1>2. IsFiniteSet(S) /\ Cardinality(S) <= Cardinality(CPUs)
  BY <1>1, FS_Subset
<1>3. Cardinality(S) \in Nat /\ Cardinality(CPUs) \in Nat
  BY <1>1, <1>2, FS_CardinalityType
<1>4. Cardinality(S) # 0
  BY <1>2, FS_EmptySet
<1> QED
  BY <1>2, <1>3, <1>4

\* An update of the tracker leaves one reading, and a rate of natural numbers.
LEMMA UpdateTypes ==
    ASSUME NEW prev \in SUBSET Reading, NEW v \in Nat, NEW now \in Nat
    PROVE  /\ Remembered(prev, v, now) \in SUBSET Reading
           /\ Cardinality(Remembered(prev, v, now)) <= 1
           /\ Rate(prev, v, now) \subseteq [delta : Nat, elapsed : Nat \ {0}]
<1>1. Remembered(prev, v, now) \in SUBSET Reading
  BY DEF Remembered, Reading
<1>2. Cardinality(Remembered(prev, v, now)) <= 1
  BY SingletonCount DEF Remembered
<1>3. ASSUME NEW p \in Reading, now > p.at, v >= p.value
      PROVE  v - p.value \in Nat /\ now - p.at \in Nat \ {0}
  BY <1>3 DEF Reading
<1>4. Rate(prev, v, now) \subseteq [delta : Nat, elapsed : Nat \ {0}]
  BY <1>3 DEF Rate
<1> QED
  BY <1>1, <1>2, <1>4

\* num_cpus is known after a call, and counts CPUs there are.
LEMMA CountedTypes ==
    ASSUME TypeOK
    PROVE  /\ Counted \in SUBSET (1..Cardinality(CPUs))
           /\ Cardinality(Counted) <= 1
<1>1. CountCpus \in 1..Cardinality(CPUs)
  BY CountType DEF TypeOK, CountCpus
<1> QED
  BY <1>1, SingletonCount DEF Counted, TypeOK

\* A unit of time changes the counters as After says.
LEMMA ArriveIsAfter ==
    ASSUME TypeOK, NEW C \in SUBSET online, Arrive(C)
    PROVE  /\ packets \in Counters
           /\ packets' = After(packets, C)
           /\ C \in SUBSET CPUs
           /\ Cardinality(C) \in Nat
<1>1. C \in SUBSET CPUs /\ packets \in Counters
  BY DEF TypeOK, Counters
<1>2. IsFiniteSet(C)
  BY <1>1, HotplugAssumption, FS_Subset
<1> QED
  BY <1>1, <1>2, FS_CardinalityType DEF Arrive, After

\* Packets that arrive keep the sum of the counted CPUs in step with arrived.
LEMMA ArriveKeeps ==
    ASSUME Inv, NEW C \in SUBSET online, Arrive(C)
    PROVE  Inv'
<1>0. TypeOK /\ AheadOfReading
  BY DEF Inv
<1>1. /\ packets \in Counters
      /\ packets' = After(packets, C)
      /\ C \in SUBSET CPUs
      /\ Cardinality(C) \in Nat
  BY <1>0, ArriveIsAfter
<1>2. packets' \in Counters
  BY <1>1, AfterFacts
<1>3. gone' \in BOOLEAN
  BY <1>0 DEF TypeOK, Arrive
<1>4. TypeOK'
  BY <1>0, <1>1, <1>2, <1>3 DEF TypeOK, Arrive, Counters
<1>5. counted \in SUBSET CPUs /\ online \in SUBSET CPUs
  BY <1>0 DEF TypeOK
<1>6. Sum(packets, counted) \in Nat /\ Sum(packets', counted) \in Nat
  BY <1>1, <1>2, <1>5, SumType
<1>7. /\ Sum(packets', counted) <= Sum(packets, counted) + Cardinality(C)
      /\ C \subseteq counted /\ (\A c \in C : packets'[c] # 0)
            => Sum(packets', counted) = Sum(packets, counted) + Cardinality(C)
  BY <1>1, <1>5, SumAfter
<1>8. ~ gone' => ~ gone /\ \A c \in C : packets'[c] # 0
  BY <1>0 DEF Arrive, TypeOK
<1>9. /\ arrived' = arrived + Cardinality(C)
      /\ UNCHANGED <<online, tracker, counted>>
  BY DEF Arrive
<1>10. ASSUME NEW r \in tracker'
       PROVE  /\ Sum(packets', counted') <= r.value + arrived'
              /\ ~ gone' /\ online' = counted'
                    => Sum(packets', counted') = r.value + arrived'
  <2>1. r \in tracker /\ r.value \in Nat /\ arrived \in Nat
    BY <1>0, <1>9 DEF TypeOK, Reading
  <2>2. /\ Sum(packets, counted) <= r.value + arrived
        /\ ~ gone /\ online = counted => Sum(packets, counted) = r.value + arrived
    BY <1>0, <2>1 DEF AheadOfReading
  <2>3. Sum(packets', counted) <= r.value + arrived'
    BY <1>1, <1>6, <1>7, <1>9, <2>1, <2>2
  <2>4. ASSUME ~ gone', online = counted
        PROVE  Sum(packets', counted) = r.value + arrived'
    <3>1. Sum(packets', counted) = Sum(packets, counted) + Cardinality(C)
      BY <1>7, <1>8, <2>4
    <3> QED
      BY <1>1, <1>6, <1>8, <1>9, <2>1, <2>2, <2>4, <3>1
  <2> QED
    BY <1>9, <2>3, <2>4
<1>11. (gone' \/ counted' \subseteq online') /\ (tracker' = {} => counted' = {})
  BY <1>0, <1>8, <1>9 DEF AheadOfReading
<1> QED
  BY <1>4, <1>10, <1>11 DEF Inv, AheadOfReading

\* A good read starts afresh: the reading is the sum, and nothing has arrived.
LEMMA CollectKeeps ==
    ASSUME Inv, CollectSoftnet
    PROVE  Inv'
<1>0. TypeOK
  BY DEF Inv
<1>1. packets \in Counters /\ online \in SUBSET CPUs
  BY <1>0 DEF TypeOK, Counters
<1>2. SoftnetTotal \in Nat
  BY <1>1, SumType DEF SoftnetTotal
<1>3. /\ tracker' \in SUBSET Reading
      /\ Cardinality(tracker') <= 1
      /\ softnet' \subseteq [delta : Nat, elapsed : Nat \ {0}]
  BY <1>0, <1>2, UpdateTypes DEF CollectSoftnet, TypeOK
<1>4. TypeOK'
  BY <1>0, <1>1, <1>3 DEF TypeOK, CollectSoftnet, kernel
<1>5. tracker' = {[value |-> Sum(packets, online), at |-> clock]}
  BY DEF CollectSoftnet, Remembered, SoftnetTotal
<1>6. /\ arrived' = 0 /\ gone' = FALSE /\ counted' = online
      /\ online' = online /\ packets' = packets
  BY DEF CollectSoftnet, kernel
<1>7. \A r \in tracker' : Sum(packets', counted') = r.value + arrived'
  BY <1>2, <1>5, <1>6 DEF SoftnetTotal
<1>8. Sum(packets', counted') \in Nat
  BY <1>2, <1>6 DEF SoftnetTotal
<1>9. AheadOfReading'
  <2>1. counted' \subseteq online' /\ tracker' # {}
    BY <1>5, <1>6
  <2>2. \A r \in tracker' : Sum(packets', counted') <= r.value + arrived'
    BY <1>7, <1>8
  <2> QED
    BY <1>7, <2>1, <2>2 DEF AheadOfReading
<1> QED
  BY <1>4, <1>9 DEF Inv

\* Whatever CPUs and packets do, the reading is no further behind than arrived.
THEOREM Invariance == Spec => []Inv
<1>1. Init => Inv
  <2> SUFFICES ASSUME Init PROVE Inv
    OBVIOUS
  <2>1. TypeOK
    <3>1. Modulus \in Nat \ {0} /\ CPUs # {}
      BY HotplugAssumption
    <3>2. packets \in [CPUs -> 0..(Modulus - 1)]
      BY <3>1 DEF Init
    <3> QED
      BY <3>1, <3>2, SingletonCount DEF Init, TypeOK
  <2>2. AheadOfReading
    BY DEF Init, AheadOfReading
  <2> QED
    BY <2>1, <2>2 DEF Inv
<1>2. Inv /\ [Next]_vars => Inv'
  <2> SUFFICES ASSUME Inv, [Next]_vars PROVE Inv'
    OBVIOUS
  <2>0. TypeOK /\ AheadOfReading
    BY DEF Inv
  <2>1. ASSUME NEW C \in SUBSET online, Arrive(C) PROVE Inv'
    BY <2>1, ArriveKeeps
  <2>2. ASSUME NEW c \in CPUs, GoOffline(c) PROVE Inv'
    BY <2>0, <2>2 DEF Inv, TypeOK, AheadOfReading, GoOffline
  <2>3. ASSUME NEW c \in CPUs, GoOnline(c) PROVE Inv'
    <3>1. TypeOK'
      BY <2>0, <2>3 DEF TypeOK, GoOnline
    <3>2. ~ gone => online' # counted
      BY <2>0, <2>3 DEF AheadOfReading, GoOnline
    <3>3. AheadOfReading'
      BY <2>0, <2>3, <3>2 DEF AheadOfReading, GoOnline
    <3> QED
      BY <3>1, <3>3 DEF Inv
  <2>4. CASE CollectSoftnet
    BY <2>4, CollectKeeps
  <2>5. CASE FailSoftnet
    BY <2>0, <2>5 DEF Inv, TypeOK, AheadOfReading, FailSoftnet, kernel
  <2>6. ASSUME NEW n \in 0..MaxRunnable, CollectRunQueue(n) PROVE Inv'
    <3>1. Counted \in SUBSET (1..Cardinality(CPUs)) /\ Cardinality(Counted) <= 1
      BY <2>0, CountedTypes
    <3>2. Depth(n) \in Nat
      BY HotplugAssumption DEF Depth
    <3>3. TypeOK'
      BY <2>0, <2>6, <3>1, <3>2 DEF TypeOK, CollectRunQueue, kernel
    <3> QED
      BY <2>0, <2>6, <3>3 DEF Inv, AheadOfReading, CollectRunQueue, kernel
  <2>7. CASE FailRunQueue
    <3>1. Counted \in SUBSET (1..Cardinality(CPUs)) /\ Cardinality(Counted) <= 1
      BY <2>0, CountedTypes
    <3>2. TypeOK'
      BY <2>0, <2>7, <3>1 DEF TypeOK, FailRunQueue, kernel
    <3> QED
      BY <2>0, <2>7, <3>2 DEF Inv, AheadOfReading, FailRunQueue, kernel
  <2>8. CASE UNCHANGED vars
    BY <2>0, <2>8 DEF Inv, TypeOK, AheadOfReading, vars, kernel
  <2> QED
    BY <2>1, <2>2, <2>3, <2>4, <2>5, <2>6, <2>7, <2>8 DEF Next
<1> QED
  BY <1>1, <1>2, PTL DEF Spec

\* The samples of both collectors, the tracker and the count of CPUs keep their
\* types, with options of one element at most.
THEOREM TypeCorrect == Spec => []TypeOK
BY Invariance, PTL DEF Inv

\* A sample never shows more than what arrived and what the CPUs that have come
\* on line since the last reading bring with them.
THEOREM NothingInventedAlways == Spec => NothingInvented
<1>1. Inv /\ [Next]_vars =>
        [CollectSoftnet =>
          \A x \in softnet' :
              x.delta <= arrived + Sum(packets, online \ counted)]_vars
  <2> SUFFICES ASSUME Inv, CollectSoftnet, NEW x \in softnet'
               PROVE  x.delta <= arrived + Sum(packets, online \ counted)
    OBVIOUS
  <2>0. TypeOK /\ AheadOfReading
    BY DEF Inv
  <2>1. /\ packets \in Counters
        /\ online \in SUBSET CPUs
        /\ counted \in SUBSET CPUs
        /\ online \ counted \in SUBSET CPUs
        /\ counted \cup (online \ counted) \in SUBSET CPUs
        /\ online \in SUBSET (counted \cup (online \ counted))
        /\ arrived \in Nat
    BY <2>0 DEF TypeOK, Counters
  <2>2. PICK r \in tracker : x.delta = Sum(packets, online) - r.value
    BY DEF CollectSoftnet, Rate, SoftnetTotal
  <2>3. r.value \in Nat
    BY <2>0, <2>2 DEF TypeOK, Reading
  <2>4. Sum(packets, online) <= Sum(packets, counted \cup (online \ counted))
    BY <2>1, SumMonotone
  <2>5. Sum(packets, counted \cup (online \ counted))
           <= Sum(packets, counted) + Sum(packets, online \ counted)
    BY <2>1, SumUnion
  <2>6. Sum(packets, counted) <= r.value + arrived
    BY <2>0, <2>2 DEF AheadOfReading
  <2>7. /\ Sum(packets, online) \in Nat
        /\ Sum(packets, counted) \in Nat
        /\ Sum(packets, online \ counted) \in Nat
        /\ Sum(packets, counted \cup (online \ counted)) \in Nat
    BY <2>1, SumType
  <2> QED
    BY <2>1, <2>2, <2>3, <2>4, <2>5, <2>6, <2>7
<1> QED
  BY <1>1, Invariance, PTL DEF Spec, NothingInvented

\* Between two good reads of the same CPUs, none of which has gone or wrapped,
\* every packet shows, however many reads failed in between.
THEOREM NothingLostAlways == Spec => NothingLost
<1>1. Inv /\ [Next]_vars =>
        [CollectSoftnet /\ ~ gone /\ online = counted =>
          \A r \in tracker : clock > r.at => \E x \in softnet' : x.delta = arrived]_vars
  <2> SUFFICES ASSUME Inv, CollectSoftnet, ~ gone, online = counted,
                      NEW r \in tracker, clock > r.at
               PROVE  \E x \in softnet' : x.delta = arrived
    OBVIOUS
  <2>0. TypeOK /\ AheadOfReading
    BY DEF Inv
  <2>1. SoftnetTotal = r.value + arrived
    BY <2>0 DEF AheadOfReading, SoftnetTotal
  <2>2. r.value \in Nat /\ arrived \in Nat
    BY <2>0 DEF TypeOK, Reading
  <2>3. SoftnetTotal >= r.value /\ SoftnetTotal - r.value = arrived
    BY <2>1, <2>2
  <2> DEFINE x == [delta |-> SoftnetTotal - r.value, elapsed |-> clock - r.at]
  <2>4. x \in softnet'
    BY <2>3 DEF CollectSoftnet, Rate
  <2> QED
    BY <2>3, <2>4
<1> QED
  BY <1>1, Invariance, PTL DEF Spec, NothingLost
=============================================================================
