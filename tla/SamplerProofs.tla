--------------------------- MODULE SamplerProofs ---------------------------
(***************************************************************************)
(* Theorems about src/sampler.rs.  First Sampler, for any number of        *)
(* collectors, any number of samples per call and any outcome of every     *)
(* call; then SamplingLoop, for every period, interval and bound.          *)
(***************************************************************************)
EXTENDS Sampler, SamplingLoop, FiniteSetTheorems, SequenceTheorems, TLAPS

\* The collectors still to come in a pass are due exactly if they are enabled.
DueInv ==
    \A c \in Collectors : cursor # 0 /\ c >= cursor => (c \in due <=> enabled[c])

\* A snapshot shows counters as they were at some earlier time.
ExposedInv ==
    \A c \in Collectors :
        /\ exposed.samples[c] <= samplesTotal[c]
        /\ exposed.errors[c] <= errorsTotal[c]
        /\ exposed.enabled[c] >= enabledGauge[c]

Inv ==
    /\ TypeOK
    /\ Conservation
    /\ Isolation
    /\ CountersAgree
    /\ SnapshotConsistent
    /\ cursor = 0 => samples = <<>>
    /\ DueInv
    /\ ExposedInv

\* b is the buffer with n samples of collector c after it.
Extends(b, c, n) ==
    /\ b \in Seq(Collectors)
    /\ Len(b) = Len(samples) + n
    /\ DOMAIN b = 1..(Len(samples) + n)
    /\ \A i \in 1..Len(samples) : b[i] = samples[i]
    /\ \A i \in (Len(samples) + 1)..(Len(samples) + n) : b[i] = c

\* The shape of the buffer after a collector has written to it.
LEMMA WrittenShape ==
    ASSUME samples \in Seq(Collectors), NEW c \in Collectors, NEW n \in Nat
    PROVE  Extends(Written(c, n), c, n)
<1> DEFINE b == Written(c, n)
           run == [i \in 1..n |-> c]
<1>1. run \in Seq(Collectors) /\ Len(run) = n /\ \A i \in 1..n : run[i] = c
  OBVIOUS
<1> HIDE DEF run
<1>2. b = samples \o run
  BY DEF Written, run
<1> HIDE DEF b
<1>3. b \in Seq(Collectors) /\ Len(b) = Len(samples) + n
  BY <1>1, <1>2, ConcatProperties
<1>4. \A i \in 1..Len(samples) : b[i] = samples[i]
  BY <1>1, <1>2
<1>5. ASSUME NEW i \in (Len(samples) + 1)..(Len(samples) + n) PROVE b[i] = c
  <2>1. Len(samples) \in Nat
    OBVIOUS
  <2>2. i - Len(samples) \in 1..n
    BY <2>1
  <2>3. b[i] = run[i - Len(samples)]
    BY <1>1, <1>2, <2>1, <2>2
  <2> QED
    BY <1>1, <2>2, <2>3
<1> QED
  BY <1>3, <1>4, <1>5 DEF Extends, b

\* Truncating to the old length undoes a write.
LEMMA TruncateUndoes ==
    ASSUME samples \in Seq(Collectors), NEW c \in Collectors, NEW n \in Nat
    PROVE  Truncate(Written(c, n), Len(samples)) = samples
<1> DEFINE b == Written(c, n)
<1>0. Extends(b, c, n)
  BY WrittenShape
<1>2. Truncate(b, Len(samples)) = SubSeq(b, 1, Len(samples))
  BY DEF Truncate
<1> HIDE DEF b
<1>1. /\ b \in Seq(Collectors)
      /\ Len(b) = Len(samples) + n
      /\ \A i \in 1..Len(samples) : b[i] = samples[i]
  BY <1>0 DEF Extends
<1>3. Len(samples) \in Nat /\ Len(samples) <= Len(b)
  BY <1>1
<1>4. SubSeq(b, 1, Len(samples)) = samples
  BY <1>1, <1>3
<1> QED
  BY <1>2, <1>4 DEF b

\* The indices of a buffer are finitely many.
LEMMA FromFinite ==
    ASSUME NEW b \in Seq(Collectors), NEW d
    PROVE  /\ IsFiniteSet(From(b, d))
           /\ Cardinality(From(b, d)) \in Nat
           /\ From(b, d) \in SUBSET (1..Len(b))
<1>1. From(b, d) \in SUBSET (1..Len(b)) /\ Len(b) \in Nat
  BY DEF From
<1>2. IsFiniteSet(1..Len(b))
  BY <1>1, FS_Interval
<1> HIDE DEF From
<1>3. IsFiniteSet(From(b, d))
  BY <1>1, <1>2, FS_Subset
<1> QED
  BY <1>1, <1>3, FS_CardinalityType

\* A write adds its samples to those of its collector and to no other's.
LEMMA WrittenCounts ==
    ASSUME samples \in Seq(Collectors), NEW c \in Collectors, NEW n \in Nat,
           NEW d \in Collectors
    PROVE  Cardinality(From(Written(c, n), d))
             = Cardinality(From(samples, d)) + (IF d = c THEN n ELSE 0)
<1> DEFINE b == Written(c, n)
           l == Len(samples)
           New == (l + 1)..(l + n)
<1>0. Extends(b, c, n)
  BY WrittenShape
<1> HIDE DEF b
<1>1. /\ b \in Seq(Collectors)
      /\ DOMAIN b = 1..(l + n)
      /\ \A i \in 1..l : b[i] = samples[i]
      /\ \A i \in New : b[i] = c
      /\ l \in Nat
      /\ DOMAIN samples = 1..l
  BY <1>0 DEF Extends, l
<1> HIDE DEF l
<1>2. CASE d # c
  <2>1. From(b, d) = From(samples, d)
    <3>1. ASSUME NEW i \in From(b, d) PROVE i \in From(samples, d)
      BY <1>1, <1>2 DEF From
    <3>2. ASSUME NEW i \in From(samples, d) PROVE i \in From(b, d)
      BY <1>1 DEF From
    <3> QED
      BY <3>1, <3>2
  <2>2. Cardinality(From(samples, d)) \in Nat
    BY FromFinite
  <2> QED
    BY <1>2, <2>1, <2>2 DEF b
<1>3. CASE d = c
  <2>1. From(b, d) = From(samples, d) \cup New
    <3>1. ASSUME NEW i \in From(b, d) PROVE i \in From(samples, d) \cup New
      BY <1>1 DEF From
    <3>2. ASSUME NEW i \in From(samples, d) PROVE i \in From(b, d)
      BY <1>1 DEF From
    <3>3. ASSUME NEW i \in New PROVE i \in From(b, d)
      BY <1>1, <1>3 DEF From
    <3> QED
      BY <3>1, <3>2, <3>3
  <2>2. IsFiniteSet(New) /\ Cardinality(New) = n
    <3>1. l + 1 \in Int /\ l + n \in Int /\ (l + n) - (l + 1) + 1 = n
      BY <1>1
    <3>2. IsFiniteSet(New)
      BY <3>1, FS_Interval
    <3>3. Cardinality(New)
            = IF l + 1 > l + n THEN 0 ELSE (l + n) - (l + 1) + 1
      BY <3>1, FS_Interval
    <3>4. l + 1 > l + n => n = 0
      BY <1>1
    <3> QED
      BY <3>1, <3>2, <3>3, <3>4
  <2>3. /\ IsFiniteSet(From(samples, d)) /\ Cardinality(From(samples, d)) \in Nat
        /\ From(samples, d) \in SUBSET (1..l)
    BY FromFinite DEF l
  <2>4. From(samples, d) \cap New = {}
    BY <1>1, <2>3
  <2> HIDE DEF New
  <2>5. Cardinality(From(b, d)) = Cardinality(From(samples, d)) + n
    <3>1. Cardinality(From(samples, d) \cup New)
            = Cardinality(From(samples, d)) + Cardinality(New)
              - Cardinality(From(samples, d) \cap New)
      BY <2>2, <2>3, FS_Union
    <3>2. Cardinality(From(samples, d) \cap New) = 0
      BY <2>4, FS_EmptySet
    <3> QED
      BY <2>1, <2>2, <2>3, <3>1, <3>2
  <2> QED
    BY <1>3, <2>5 DEF b
<1> QED
  BY <1>2, <1>3

\* Every step but Publish leaves the snapshot behind the counters.
LEMMA ExposedStays ==
    ASSUME TypeOK, ExposedInv, SnapshotConsistent, UNCHANGED exposed,
           samplesTotal' \in [Collectors -> Nat],
           errorsTotal' \in [Collectors -> Nat],
           enabledGauge' \in [Collectors -> {0, 1}],
           \A c \in Collectors : /\ samplesTotal[c] <= samplesTotal'[c]
                                 /\ errorsTotal[c] <= errorsTotal'[c]
                                 /\ enabledGauge[c] >= enabledGauge'[c]
    PROVE  ExposedInv' /\ SnapshotConsistent'
<1>1. ASSUME NEW c \in Collectors
      PROVE  /\ exposed.samples[c] \in Nat /\ exposed.errors[c] \in Nat
             /\ exposed.enabled[c] \in {0, 1}
             /\ samplesTotal[c] \in Nat /\ errorsTotal[c] \in Nat
             /\ enabledGauge[c] \in {0, 1}
             /\ samplesTotal'[c] \in Nat /\ errorsTotal'[c] \in Nat
             /\ enabledGauge'[c] \in {0, 1}
  BY DEF TypeOK
<1>2. ExposedInv'
  BY <1>1 DEF ExposedInv
<1> QED
  BY <1>2 DEF SnapshotConsistent

\* Adding to the counter of one collector.
LEMMA Bump ==
    ASSUME NEW f \in [Collectors -> Nat], NEW c \in Collectors, NEW k \in Nat
    PROVE  /\ [f EXCEPT ![c] = @ + k] \in [Collectors -> Nat]
           /\ \A d \in Collectors :
                 [f EXCEPT ![c] = @ + k][d] = f[d] + (IF d = c THEN k ELSE 0)
<1> DEFINE g == [f EXCEPT ![c] = @ + k]
<1>1. f[c] + k \in Nat
  OBVIOUS
<1>2. ASSUME NEW d \in Collectors PROVE g[d] = f[d] + (IF d = c THEN k ELSE 0)
  <2>1. CASE d = c
    BY <2>1
  <2>2. CASE d # c
    <3>1. f[d] \in Nat /\ g[d] = f[d]
      BY <2>2
    <3> QED
      BY <2>2, <3>1
  <2> QED
    BY <2>1, <2>2
<1> QED
  BY <1>1, <1>2

\* Resetting the counter of one collector.
LEMMA Reset ==
    ASSUME NEW S, NEW f \in [Collectors -> S], NEW c \in Collectors, NEW v \in S
    PROVE  /\ [f EXCEPT ![c] = v] \in [Collectors -> S]
           /\ \A d \in Collectors : [f EXCEPT ![c] = v][d] = (IF d = c THEN v ELSE f[d])
OBVIOUS

\* One collector is dealt with: what all three outcomes and Skip have in common.
LEMMA CursorStep ==
    ASSUME Inv, cursor \in Collectors, cursor' = cursor + 1,
           UNCHANGED <<passes, due>>,
           polled' = (IF enabled[cursor] THEN polled \cup {cursor} ELSE polled),
           \A c \in Collectors : c # cursor => enabled'[c] = enabled[c]
    PROVE  /\ Isolation'
           /\ DueInv'
           /\ (cursor = 0 => samples = <<>>)'
           /\ cursor' \in 0..(N + 1)
           /\ polled' \in SUBSET Collectors
<1>1. cursor \in Nat /\ cursor >= 1 /\ cursor <= N /\ N \in Nat
  BY BoundsAssumption DEF Collectors
<1>2. polled = {c \in due : c < cursor} /\ due \in SUBSET Collectors
  BY <1>1 DEF Inv, Isolation, TypeOK
<1>3. \A c \in due : c \in Nat
  BY <1>2 DEF Collectors
<1>4. cursor \in due <=> enabled[cursor]
  BY <1>1 DEF Inv, DueInv
<1>5. polled' = {c \in due : c < cursor + 1}
  <2>1. ASSUME NEW c \in due PROVE c < cursor + 1 <=> c < cursor \/ c = cursor
    BY <1>1, <1>3
  <2>2. {c \in due : c < cursor + 1} = {c \in due : c < cursor \/ c = cursor}
    BY <2>1, Zenon
  <2>3. {c \in due : c < cursor \/ c = cursor} = polled'
    BY <1>2, <1>4, Zenon
  <2> QED
    BY <2>2, <2>3
<1>6. Isolation'
  BY <1>1, <1>5 DEF Isolation
<1>7. DueInv'
  BY <1>1 DEF Inv, DueInv, Collectors
<1>8. cursor' # 0 /\ cursor' \in 0..(N + 1)
  BY <1>1
<1>9. polled' \in SUBSET Collectors
  BY <1>2, <1>5
<1> QED
  BY <1>6, <1>7, <1>8, <1>9

\* The inductive invariant.
THEOREM Invariance == Spec => []Inv
<1>1. Init => Inv
  <2> SUFFICES ASSUME Init PROVE Inv
    OBVIOUS
  <2>1. TypeOK
    BY BoundsAssumption DEF Init, TypeOK
  <2>2. \A c \in Collectors : Cardinality(From(samples, c)) = 0
    <3>1. \A c \in Collectors : From(samples, c) = {}
      BY DEF Init, From
    <3> QED
      BY <3>1, FS_EmptySet
  <2>3. Conservation
    BY <2>2 DEF Init, Conservation
  <2>4. Isolation /\ CountersAgree /\ SnapshotConsistent /\ DueInv /\ ExposedInv
    BY DEF Init, Isolation, CountersAgree, SnapshotConsistent, DueInv, ExposedInv
  <2> QED
    BY <2>1, <2>3, <2>4 DEF Init, Inv
<1>2. Inv /\ [Next]_vars => Inv'
  <2> SUFFICES ASSUME Inv, [Next]_vars PROVE Inv'
    OBVIOUS
  <2>0. /\ TypeOK /\ Conservation /\ CountersAgree /\ SnapshotConsistent /\ ExposedInv
        /\ samples \in Seq(Collectors) /\ N \in Nat
    BY BoundsAssumption DEF Inv, TypeOK
  <2>00. ASSUME NEW c \in Collectors
         PROVE  /\ samplesTotal[c] \in Nat /\ errorsTotal[c] \in Nat
                /\ consecutive[c] \in Nat /\ enabledGauge[c] \in {0, 1}
                /\ delivered[c] \in Nat /\ enabled[c] \in BOOLEAN
                /\ Cardinality(From(samples, c)) \in Nat
    BY <2>0, FromFinite DEF TypeOK
  <2>1. CASE BeginPass
    <3>1. samples' = samples
      BY <2>1 DEF BeginPass, Inv
    <3>2. TypeOK'
      BY <2>0, <2>1 DEF BeginPass, TypeOK
    <3>3. Conservation' /\ CountersAgree' /\ SnapshotConsistent' /\ ExposedInv'
      BY <2>0, <2>1, <3>1 DEF BeginPass, Conservation, CountersAgree,
                              SnapshotConsistent, ExposedInv, From
    <3>4. Isolation' /\ DueInv'
      BY <2>1 DEF BeginPass, Isolation, DueInv, Collectors
    <3> QED
      BY <2>1, <3>2, <3>3, <3>4 DEF BeginPass, Inv
  <2>2. CASE Skip
    <3>1. Isolation' /\ DueInv' /\ (cursor = 0 => samples = <<>>)' /\ cursor' \in 0..(N + 1)
      BY <2>2, CursorStep DEF Skip, Advance
    <3>2. TypeOK'
      BY <2>0, <2>2, <3>1 DEF Skip, Advance, TypeOK
    <3>3. Conservation' /\ CountersAgree' /\ SnapshotConsistent' /\ ExposedInv'
      BY <2>0, <2>2 DEF Skip, Advance, Conservation, CountersAgree,
                        SnapshotConsistent, ExposedInv, From
    <3> QED
      BY <3>1, <3>2, <3>3 DEF Inv
  <2>3. ASSUME NEW n \in 0..MaxYield, PollOk(n) PROVE Inv'
    <3>1. /\ cursor \in Collectors /\ enabled[cursor] /\ n \in Nat
          /\ samples' = Written(cursor, n)
          /\ cursor' = cursor + 1 /\ polled' = polled \cup {cursor}
          /\ UNCHANGED <<enabled, enabledGauge, errorsTotal, passes, exposed, delivered, due>>
      BY <2>3, BoundsAssumption DEF PollOk, Due, Advance
    <3>2. /\ samples' \in Seq(Collectors)
          /\ Len(samples') - Len(samples) = n
      BY <2>0, <3>1, WrittenShape DEF Extends
    <3>3. /\ samplesTotal' = [samplesTotal EXCEPT ![cursor] = @ + n]
          /\ consecutive' = [consecutive EXCEPT ![cursor] = 0]
      BY <2>3, <3>2 DEF PollOk, Yielded
    <3>4. /\ Isolation' /\ DueInv' /\ (cursor = 0 => samples = <<>>)'
          /\ cursor' \in 0..(N + 1) /\ polled' \in SUBSET Collectors
      BY <3>1, CursorStep
    <3>50. /\ samplesTotal \in [Collectors -> Nat] /\ consecutive \in [Collectors -> Nat]
           /\ 0 \in Nat
      BY <2>0 DEF TypeOK
    <3>51. /\ samplesTotal' \in [Collectors -> Nat]
           /\ \A c \in Collectors :
                 samplesTotal'[c] = samplesTotal[c] + (IF c = cursor THEN n ELSE 0)
      BY <3>1, <3>3, <3>50, Bump
    <3>52. /\ consecutive' \in [Collectors -> Nat]
           /\ \A c \in Collectors :
                 consecutive'[c] = (IF c = cursor THEN 0 ELSE consecutive[c])
      BY <3>1, <3>3, <3>50, Reset
    <3>53. \A c \in Collectors :
              Cardinality(From(samples', c))
                = Cardinality(From(samples, c)) + (IF c = cursor THEN n ELSE 0)
      BY <2>0, <3>1, WrittenCounts
    <3>5. ASSUME NEW c \in Collectors
          PROVE  /\ samplesTotal'[c] = samplesTotal[c] + (IF c = cursor THEN n ELSE 0)
                 /\ consecutive'[c] = (IF c = cursor THEN 0 ELSE consecutive[c])
                 /\ Cardinality(From(samples', c))
                      = Cardinality(From(samples, c)) + (IF c = cursor THEN n ELSE 0)
      BY <3>51, <3>52, <3>53
    <3>6. TypeOK'
      BY <2>0, <3>1, <3>2, <3>4, <3>51, <3>52 DEF TypeOK
    <3>7. Conservation'
      BY <2>0, <2>00, <3>1, <3>5 DEF Conservation
    <3>8. CountersAgree'
      BY <2>0, <2>00, <3>1, <3>5 DEF CountersAgree
    <3>9. ExposedInv' /\ SnapshotConsistent'
      <4>1. ASSUME NEW c \in Collectors
            PROVE  /\ samplesTotal[c] <= samplesTotal'[c]
                   /\ errorsTotal[c] <= errorsTotal'[c]
                   /\ enabledGauge[c] >= enabledGauge'[c]
        BY <2>00, <3>1, <3>5
      <4> QED
        BY <2>0, <3>1, <3>6, <4>1, ExposedStays DEF TypeOK
    <3> QED
      BY <3>4, <3>6, <3>7, <3>8, <3>9 DEF Inv
  <2>4. ASSUME NEW n \in 0..MaxYield, PollUnavailable(n) PROVE Inv'
    <3>1. /\ cursor \in Collectors /\ enabled[cursor] /\ n \in Nat
          /\ enabled' = [enabled EXCEPT ![cursor] = FALSE]
          /\ enabledGauge' = [enabledGauge EXCEPT ![cursor] = 0]
          /\ samples' = Truncate(Written(cursor, n), Len(samples))
          /\ cursor' = cursor + 1 /\ polled' = polled \cup {cursor}
          /\ UNCHANGED <<consecutive, samplesTotal, errorsTotal, passes, exposed, delivered, due>>
      BY <2>4, BoundsAssumption DEF PollUnavailable, Due, Advance
    <3>2. samples' = samples
      BY <2>0, <3>1, TruncateUndoes
    <3>31. /\ enabled \in [Collectors -> BOOLEAN] /\ enabledGauge \in [Collectors -> {0, 1}]
           /\ FALSE \in BOOLEAN /\ 0 \in {0, 1}
      BY <2>0 DEF TypeOK
    <3>32. /\ enabled' \in [Collectors -> BOOLEAN]
           /\ \A c \in Collectors : enabled'[c] = (IF c = cursor THEN FALSE ELSE enabled[c])
      BY <3>1, <3>31, Zenon
    <3>33. /\ enabledGauge' \in [Collectors -> {0, 1}]
           /\ \A c \in Collectors :
                 enabledGauge'[c] = (IF c = cursor THEN 0 ELSE enabledGauge[c])
      BY <3>1, <3>31, Reset
    <3>3. ASSUME NEW c \in Collectors
          PROVE  /\ enabled'[c] = (IF c = cursor THEN FALSE ELSE enabled[c])
                 /\ enabledGauge'[c] = (IF c = cursor THEN 0 ELSE enabledGauge[c])
      BY <3>32, <3>33
    <3>4. /\ Isolation' /\ DueInv' /\ (cursor = 0 => samples = <<>>)'
          /\ cursor' \in 0..(N + 1) /\ polled' \in SUBSET Collectors
      BY <3>1, <3>3, CursorStep
    <3>6. TypeOK'
      BY <2>0, <3>1, <3>2, <3>4, <3>32, <3>33 DEF TypeOK
    <3>7. Conservation'
      BY <2>0, <3>1, <3>2 DEF Conservation, From
    <3>8. CountersAgree'
      <4>1. ASSUME NEW c \in Collectors PROVE enabledGauge'[c] = 1 <=> enabled'[c]
        <5>1. CASE c = cursor
          <6>1. enabledGauge'[c] = 0
            BY <3>33, <5>1
          <6>2. ~ enabled'[c]
            BY <3>32, <5>1, Zenon
          <6> QED
            BY <6>1, <6>2
        <5>2. CASE c # cursor
          <6>1. enabledGauge'[c] = enabledGauge[c]
            BY <3>33, <5>2
          <6>2. enabled'[c] = enabled[c]
            BY <3>32, <5>2, Zenon
          <6>3. enabledGauge[c] = 1 <=> enabled[c]
            BY <2>0 DEF CountersAgree
          <6> QED
            BY <6>1, <6>2, <6>3, Zenon
        <5> QED
          BY <5>1, <5>2
      <4> QED
        BY <2>0, <3>1, <4>1 DEF CountersAgree
    <3>9. ExposedInv' /\ SnapshotConsistent'
      <4>1. ASSUME NEW c \in Collectors
            PROVE  /\ samplesTotal[c] <= samplesTotal'[c]
                   /\ errorsTotal[c] <= errorsTotal'[c]
                   /\ enabledGauge[c] >= enabledGauge'[c]
        BY <2>00, <3>1, <3>3
      <4> QED
        BY <2>0, <3>1, <3>6, <4>1, ExposedStays DEF TypeOK
    <3> QED
      BY <3>4, <3>6, <3>7, <3>8, <3>9 DEF Inv
  <2>5. ASSUME NEW n \in 0..MaxYield, PollError(n) PROVE Inv'
    <3>1. /\ cursor \in Collectors /\ enabled[cursor] /\ n \in Nat
          /\ errorsTotal' = [errorsTotal EXCEPT ![cursor] = @ + 1]
          /\ consecutive' = [consecutive EXCEPT ![cursor] = @ + 1]
          /\ samples' = Truncate(Written(cursor, n), Len(samples))
          /\ cursor' = cursor + 1 /\ polled' = polled \cup {cursor}
          /\ UNCHANGED <<enabled, enabledGauge, samplesTotal, passes, exposed, delivered, due>>
      BY <2>5, BoundsAssumption DEF PollError, Due, Advance
    <3>2. samples' = samples
      BY <2>0, <3>1, TruncateUndoes
    <3>30. /\ errorsTotal \in [Collectors -> Nat] /\ consecutive \in [Collectors -> Nat]
           /\ 1 \in Nat
      BY <2>0 DEF TypeOK
    <3>31. /\ errorsTotal' \in [Collectors -> Nat]
           /\ \A c \in Collectors :
                 errorsTotal'[c] = errorsTotal[c] + (IF c = cursor THEN 1 ELSE 0)
      BY <3>1, <3>30, Bump
    <3>32. /\ consecutive' \in [Collectors -> Nat]
           /\ \A c \in Collectors :
                 consecutive'[c] = consecutive[c] + (IF c = cursor THEN 1 ELSE 0)
      BY <3>1, <3>30, Bump
    <3>3. ASSUME NEW c \in Collectors
          PROVE  /\ errorsTotal'[c] = errorsTotal[c] + (IF c = cursor THEN 1 ELSE 0)
                 /\ consecutive'[c] = consecutive[c] + (IF c = cursor THEN 1 ELSE 0)
      BY <3>31, <3>32
    <3>4. /\ Isolation' /\ DueInv' /\ (cursor = 0 => samples = <<>>)'
          /\ cursor' \in 0..(N + 1) /\ polled' \in SUBSET Collectors
      BY <3>1, CursorStep
    <3>6. TypeOK'
      BY <2>0, <3>1, <3>2, <3>4, <3>31, <3>32 DEF TypeOK
    <3>7. Conservation'
      BY <2>0, <3>1, <3>2 DEF Conservation, From
    <3>8. CountersAgree'
      BY <2>0, <2>00, <3>1, <3>3 DEF CountersAgree
    <3>9. ExposedInv' /\ SnapshotConsistent'
      <4>1. ASSUME NEW c \in Collectors
            PROVE  /\ samplesTotal[c] <= samplesTotal'[c]
                   /\ errorsTotal[c] <= errorsTotal'[c]
                   /\ enabledGauge[c] >= enabledGauge'[c]
        BY <2>00, <3>1, <3>3
      <4> QED
        BY <2>0, <3>1, <3>6, <4>1, ExposedStays DEF TypeOK
    <3> QED
      BY <3>4, <3>6, <3>7, <3>8, <3>9 DEF Inv
  <2>6. CASE Deliver
    <3>1. /\ cursor = N + 1 /\ cursor' = 0 /\ samples' = <<>>
          /\ delivered' = [c \in Collectors |-> delivered[c] + Cardinality(From(samples, c))]
          /\ UNCHANGED <<enabled, consecutive, enabledGauge, samplesTotal, errorsTotal,
                         passes, exposed, due, polled>>
      BY <2>6 DEF Deliver
    <3>2. TypeOK'
      BY <2>0, <2>00, <3>1 DEF TypeOK
    <3>3. ASSUME NEW c \in Collectors PROVE Cardinality(From(samples', c)) = 0
      <4>1. From(samples', c) = {}
        BY <3>1 DEF From
      <4> QED
        BY <4>1, FS_EmptySet
    <3>4. Conservation'
      BY <2>0, <2>00, <3>1, <3>3 DEF Conservation
    <3>5. CountersAgree' /\ SnapshotConsistent' /\ ExposedInv'
      BY <2>0, <3>1 DEF CountersAgree, SnapshotConsistent, ExposedInv
    <3>6. Isolation'
      <4>1. \A c \in due : c < N + 1
        BY <2>0 DEF TypeOK, Collectors
      <4>2. polled = {c \in due : c < cursor \/ cursor = 0}
        BY DEF Inv, Isolation
      <4>3. polled = due
        BY <3>1, <4>1, <4>2
      <4> QED
        BY <3>1, <4>3 DEF Isolation
    <3> QED
      BY <3>1, <3>2, <3>4, <3>5, <3>6 DEF Inv, DueInv
  <2>7. CASE Publish
    <3>1. /\ cursor = 0 /\ samples = <<>> /\ exposed' = Counters
          /\ UNCHANGED <<cursor, samples, enabled, consecutive, enabledGauge, samplesTotal,
                         errorsTotal, passes, delivered, due, polled>>
      BY <2>7 DEF Publish, Inv
    <3>2. /\ exposed'.samples = samplesTotal /\ exposed'.errors = errorsTotal
          /\ exposed'.enabled = enabledGauge /\ exposed'.delivered = delivered
      BY <3>1 DEF Counters
    <3>3. TypeOK'
      BY <2>0, <3>1 DEF TypeOK, Counters
    <3>4. ASSUME NEW c \in Collectors PROVE samplesTotal[c] = delivered[c]
      <4>1. From(samples, c) = {}
        BY <3>1 DEF From
      <4>2. Cardinality(From(samples, c)) = 0
        BY <4>1, FS_EmptySet
      <4> QED
        BY <2>0, <2>00, <4>2 DEF Conservation
    <3>5. samplesTotal = delivered
      BY <2>0, <3>4 DEF TypeOK
    <3>6. SnapshotConsistent'
      BY <3>2, <3>5 DEF SnapshotConsistent
    <3>7. ExposedInv'
      BY <2>00, <3>1, <3>2 DEF ExposedInv
    <3>8. Conservation'
      BY <2>0, <3>1 DEF Inv, Conservation, From
    <3>9. CountersAgree'
      BY <2>0, <3>1 DEF Inv, CountersAgree
    <3>10. Isolation' /\ DueInv'
      BY <2>0, <3>1 DEF Inv, Isolation, DueInv
    <3> QED
      BY <3>1, <3>3, <3>6, <3>7, <3>8, <3>9, <3>10 DEF Inv
  <2>8. CASE UNCHANGED vars
    <3>1. UNCHANGED <<cursor, samples, enabled, consecutive, enabledGauge, samplesTotal,
                      errorsTotal, passes, exposed, delivered, due, polled>>
      BY <2>8 DEF vars
    <3>2. TypeOK'
      BY <2>0, <3>1 DEF TypeOK
    <3>3. Conservation' /\ SnapshotConsistent'
      BY <3>1 DEF Inv, Conservation, SnapshotConsistent, From
    <3>4. CountersAgree' /\ Isolation'
      BY <3>1 DEF Inv, CountersAgree, Isolation
    <3>5. DueInv' /\ ExposedInv'
      BY <3>1 DEF Inv, DueInv, ExposedInv
    <3>6. (cursor = 0 => samples = <<>>)'
      BY <3>1 DEF Inv
    <3> QED
      BY <3>2, <3>3, <3>4, <3>5, <3>6 DEF Inv
  <2> QED
    BY <2>1, <2>2, <2>3, <2>4, <2>5, <2>6, <2>7, <2>8 DEF Next, Poll
<1> QED
  BY <1>1, <1>2, PTL DEF Spec

\* Every variable keeps its type.
THEOREM TypeCorrect == Spec => []TypeOK
BY Invariance, PTL DEF Inv

\* A collector's samples_total counts exactly its samples that reached the
\* aggregator or wait in the buffer, whichever calls failed half way.
THEOREM ConservationAlways == Spec => []Conservation
BY Invariance, PTL DEF Inv

\* A pass polls every collector enabled at its start and no other, whatever
\* the others return.
THEOREM IsolationAlways == Spec => []Isolation
BY Invariance, PTL DEF Inv

\* The enabled gauge and the error counters agree with the state of the loop.
THEOREM CountersAgreeAlways == Spec => []CountersAgree
BY Invariance, PTL DEF Inv

\* A snapshot's samples_total is the number of points delivered when it was
\* rendered.
THEOREM SnapshotConsistentAlways == Spec => []SnapshotConsistent
BY Invariance, PTL DEF Inv

\* Counters never fall between snapshots and a disabled collector never shows
\* up as enabled again.
THEOREM SnapshotsMonotoneAlways == Spec => SnapshotsMonotone
<1>1. Inv /\ [Next]_vars =>
        [\A c \in Collectors :
            /\ exposed'.samples[c] >= exposed.samples[c]
            /\ exposed'.errors[c] >= exposed.errors[c]
            /\ exposed'.enabled[c] <= exposed.enabled[c]]_vars
  <2> SUFFICES ASSUME Inv, Next, NEW c \in Collectors
               PROVE  /\ exposed'.samples[c] >= exposed.samples[c]
                      /\ exposed'.errors[c] >= exposed.errors[c]
                      /\ exposed'.enabled[c] <= exposed.enabled[c]
    BY Zenon
  <2>1. /\ exposed.samples[c] \in Nat /\ exposed.errors[c] \in Nat
        /\ exposed.enabled[c] \in {0, 1}
    BY DEF Inv, TypeOK
  <2>2. CASE Publish
    <3>1. /\ exposed'.samples = samplesTotal /\ exposed'.errors = errorsTotal
          /\ exposed'.enabled = enabledGauge
      BY <2>2 DEF Publish, Counters
    <3>2. /\ exposed.samples[c] <= samplesTotal[c]
          /\ exposed.errors[c] <= errorsTotal[c]
          /\ exposed.enabled[c] >= enabledGauge[c]
          /\ samplesTotal[c] \in Nat /\ errorsTotal[c] \in Nat
          /\ enabledGauge[c] \in {0, 1}
      BY DEF Inv, ExposedInv, TypeOK
    <3> QED
      BY <2>1, <3>1, <3>2
  <2>3. CASE UNCHANGED exposed
    BY <2>1, <2>3
  <2> QED
    BY <2>2, <2>3 DEF Next, BeginPass, Skip, Poll, PollOk, PollUnavailable,
                      PollError, Deliver
<1> QED
  BY <1>1, Invariance, PTL DEF Spec, SnapshotsMonotone

\* A disabled collector is never polled, counted or enabled again.
THEOREM DisabledStaysOutAlways == Spec => DisabledStaysOut
<1>1. Inv /\ [Next]_vars =>
        [\A c \in Collectors : ~ enabled[c] =>
            /\ ~ enabled'[c]
            /\ UNCHANGED <<samplesTotal[c], errorsTotal[c], consecutive[c]>>
            /\ c \in polled' => c \in polled]_vars
  <2> SUFFICES ASSUME Inv, Next, NEW c \in Collectors, ~ enabled[c]
               PROVE  /\ ~ enabled'[c]
                      /\ UNCHANGED <<samplesTotal[c], errorsTotal[c], consecutive[c]>>
                      /\ c \in polled' => c \in polled
    BY Zenon
  <2>1. /\ enabled \in [Collectors -> BOOLEAN]
        /\ samplesTotal \in [Collectors -> Nat]
        /\ errorsTotal \in [Collectors -> Nat]
        /\ consecutive \in [Collectors -> Nat]
    BY DEF Inv, TypeOK
  <2>2. ASSUME cursor \in Collectors, enabled[cursor],
               \E n \in 0..MaxYield : PollOk(n) \/ PollUnavailable(n) \/ PollError(n)
        PROVE  /\ ~ enabled'[c]
               /\ UNCHANGED <<samplesTotal[c], errorsTotal[c], consecutive[c]>>
               /\ c \in polled' => c \in polled
    <3>1. c # cursor
      BY <2>2
    <3>2. polled' = polled \cup {cursor}
      BY <2>2 DEF PollOk, PollUnavailable, PollError
    <3>3. ~ enabled'[c]
      BY <2>1, <2>2, <3>1 DEF PollOk, PollUnavailable, PollError
    <3>4. /\ samplesTotal'[c] = samplesTotal[c]
          /\ errorsTotal'[c] = errorsTotal[c]
          /\ consecutive'[c] = consecutive[c]
      BY <2>1, <2>2, <3>1 DEF PollOk, PollUnavailable, PollError
    <3> QED
      BY <3>1, <3>2, <3>3, <3>4
  <2>3. CASE Poll
    BY <2>2, <2>3 DEF Poll, PollOk, PollUnavailable, PollError, Due
  <2> QED
    BY <2>3 DEF Next, BeginPass, Skip, Deliver, Publish
<1> QED
  BY <1>1, Invariance, PTL DEF Spec, DisabledStaysOut

-----------------------------------------------------------------------------
(***************************************************************************)
(* What SamplingLoop promises, for every period, interval and bound.       *)
(*                                                                         *)
(* Call s the start of a pass and d the deadline it was scheduled for.     *)
(* KeepsUp relates the latest start to the next deadline: d comes at most  *)
(* a period after the start before it.  Spread relates two deadlines and   *)
(* two starts: consecutive deadlines are a period or more apart, and the   *)
(* deadline of a pass comes after the start of the pass before the one     *)
(* before it (after the tick of the pass before, that is, but a preempted  *)
(* task may start that pass later than its tick).                          *)
(***************************************************************************)
KeepsUp ==
    /\ sampleDue <= SamplePeriod
    /\ activity # "ticked" /\ begun >= 1 => sampleDue + since <= SamplePeriod
    /\ activity = "ticked" /\ begun >= 1 => since <= scheduled + SamplePeriod

PassInv ==
    /\ activity = "sampling" => begun >= 1 /\ since = busy
    /\ activity # "sampling" /\ begun >= 1 => since >= duration

Spread ==
    /\ activity = "ticked" => sampleDue + scheduled >= SamplePeriod
    /\ activity = "ticked" /\ begun >= 1 => sampleDue + since > 0
    /\ activity = "ticked" /\ begun >= 1 => since + lag >= SamplePeriod
    /\ activity = "ticked" /\ begun >= 2 => interval + since > scheduled
    /\ activity # "ticked" /\ begun >= 1 => sampleDue + since + lag >= SamplePeriod
    /\ activity # "ticked" /\ begun >= 2 => sampleDue + since + interval > 0
    /\ begun = 3 => previous + interval > lag

\* A deadline that is due is followed by one a period or more later, which is
\* still to come and at most a period away.
LEMMA NextDueFacts ==
    ASSUME NEW deadline \in Int, deadline <= 0, NEW period \in Nat \ {0}
    PROVE  /\ NextDue(deadline, period) \in Int
           /\ NextDue(deadline, period) <= period
           /\ NextDue(deadline, period) - deadline >= period
           /\ Tolerance < period => NextDue(deadline, period) > 0
<1> DEFINE late == -deadline
           rest == late % period
<1>0. late \in Nat /\ Tolerance \in Nat
  BY PeriodsAssumption
<1>1. rest \in 0..(period - 1)
  BY <1>0
<1>2. late = period * (late \div period) + rest /\ late \div period \in Nat
  BY <1>0
<1>3. period * (late \div period) >= 0
  BY <1>2
<1>4. rest <= late
  BY <1>0, <1>1, <1>2, <1>3
<1>5. CASE late > Tolerance
  <2>1. NextDue(deadline, period) = period - rest
    BY <1>5 DEF NextDue
  <2> HIDE DEF rest
  <2> QED
    BY <1>0, <1>1, <1>4, <2>1
<1>6. CASE ~ (late > Tolerance)
  <2>1. NextDue(deadline, period) = deadline + period
    BY <1>6 DEF NextDue
  <2> QED
    BY <1>0, <1>6, <2>1
<1> QED
  BY <1>5, <1>6

\* Forgiving an interval keeps a missed snapshot deadline within bounds.
LEMMA ForgivenBounded ==
    ASSUME NEW deadline \in Int, deadline >= -(Tolerance + SnapshotInterval) - 1
    PROVE  Forgiven(deadline) \in Int /\ Forgiven(deadline) >= -(Tolerance + SnapshotInterval)
BY PeriodsAssumption DEF Forgiven

LoopInv == LoopTypeOK /\ KeepsUp /\ PassInv /\ LagAccountsForDelay

\* The invariant holds however late the task is.
THEOREM LoopInvariance == LoopSpec => []LoopInv
<1> USE PeriodsAssumption
<1>1. LoopInit => LoopInv
  BY DEF LoopInit, LoopInv, LoopTypeOK, Activities, KeepsUp, PassInv, LagAccountsForDelay
<1>2. LoopInv /\ [LoopNext]_loopVars => LoopInv'
  <2> SUFFICES ASSUME LoopInv, [LoopNext]_loopVars PROVE LoopInv'
    OBVIOUS
  <2>0. LoopTypeOK /\ KeepsUp /\ PassInv /\ LagAccountsForDelay
    BY DEF LoopInv
  <2> USE DEF Activities
  <2>1. CASE Elapse
    <3>1. Forgiven(snapshotDue - 1) \in Int
          /\ Forgiven(snapshotDue - 1) >= -(Tolerance + SnapshotInterval)
      BY <2>0, ForgivenBounded DEF LoopTypeOK
    <3>2. LoopTypeOK'
      BY <2>0, <2>1, <3>1 DEF LoopTypeOK, Elapse, gauges
    <3>3. KeepsUp'
      BY <2>0, <2>1 DEF LoopTypeOK, KeepsUp, Elapse, gauges
    <3>4. PassInv' /\ LagAccountsForDelay'
      BY <2>0, <2>1 DEF LoopTypeOK, PassInv, LagAccountsForDelay, Elapse, gauges
    <3> QED
      BY <3>2, <3>3, <3>4 DEF LoopInv
  <2>2. CASE SampleTick
    <3>1. sampleDue' \in Int /\ sampleDue' <= SamplePeriod
      BY <2>0, <2>2, NextDueFacts DEF LoopTypeOK, SampleTick
    <3>2. LoopTypeOK'
      BY <2>0, <2>2, <3>1 DEF LoopTypeOK, SampleTick, gauges
    <3>3. KeepsUp'
      BY <2>0, <2>2, <3>1 DEF LoopTypeOK, KeepsUp, SampleTick, gauges
    <3>4. PassInv' /\ LagAccountsForDelay'
      BY <2>0, <2>2 DEF LoopTypeOK, PassInv, LagAccountsForDelay, SampleTick, gauges
    <3> QED
      BY <3>2, <3>3, <3>4 DEF LoopInv
  <2>3. CASE StartPass
    <3>1. LoopTypeOK'
      BY <2>0, <2>3 DEF LoopTypeOK, StartPass, Lateness
    <3>2. KeepsUp'
      BY <2>0, <2>3 DEF LoopTypeOK, KeepsUp, StartPass
    <3>3. PassInv' /\ LagAccountsForDelay'
      BY <2>0, <2>3 DEF LoopTypeOK, KeepsUp, PassInv, LagAccountsForDelay, StartPass, Lateness
    <3> QED
      BY <3>1, <3>2, <3>3 DEF LoopInv
  <2>4. CASE EndPass
    <3>1. LoopTypeOK' /\ KeepsUp'
      BY <2>0, <2>4 DEF LoopTypeOK, KeepsUp, EndPass, Elapsed
    <3>2. PassInv' /\ LagAccountsForDelay'
      BY <2>0, <2>4 DEF LoopTypeOK, PassInv, LagAccountsForDelay, EndPass, Elapsed
    <3> QED
      BY <3>1, <3>2 DEF LoopInv
  <2>5. CASE SnapshotTick
    <3>1. snapshotDue' \in Int /\ snapshotDue' >= -Tolerance
      BY <2>0, <2>5, NextDueFacts DEF LoopTypeOK, SnapshotTick
    <3>2. LoopTypeOK' /\ KeepsUp'
      BY <2>0, <2>5, <3>1 DEF LoopTypeOK, KeepsUp, SnapshotTick, gauges
    <3>3. PassInv' /\ LagAccountsForDelay'
      BY <2>0, <2>5 DEF PassInv, LagAccountsForDelay, SnapshotTick, gauges
    <3> QED
      BY <3>2, <3>3 DEF LoopInv
  <2>6. CASE EndPublish
    BY <2>0, <2>6 DEF LoopInv, LoopTypeOK, KeepsUp, PassInv, LagAccountsForDelay, EndPublish, gauges
  <2>7. CASE UNCHANGED loopVars
    BY <2>0, <2>7 DEF LoopInv, LoopTypeOK, KeepsUp, PassInv, LagAccountsForDelay, loopVars, gauges
  <2> QED
    BY <2>1, <2>2, <2>3, <2>4, <2>5, <2>6, <2>7 DEF LoopNext
<1> QED
  BY <1>1, <1>2, PTL DEF LoopSpec

\* Every variable keeps its type; the lateness of a snapshot stays bounded.
THEOREM LoopTypeCorrect == LoopSpec => []LoopTypeOK
BY LoopInvariance, PTL DEF LoopInv

\* Whatever a pass is late beyond the period shows in the lag gauge.
THEOREM LagAccountsForDelayAlways == LoopSpec => []LagAccountsForDelay
BY LoopInvariance, PTL DEF LoopInv

\* The interval a pass reports covers the whole pass before it.
THEOREM NoOverlapAlways == LoopSpec => NoOverlap
<1>1. LoopInv /\ [LoopNext]_loopVars => [PassStarts /\ begun > 0 => interval' >= duration]_loopVars
  <2> SUFFICES ASSUME LoopInv, LoopNext, PassStarts, begun > 0 PROVE interval' >= duration
    BY DEF loopVars
  <2>1. StartPass
    BY DEF LoopNext, PassStarts, Elapse, SampleTick, EndPass, SnapshotTick, EndPublish
  <2>2. since >= duration /\ begun \in 0..3
    BY DEF LoopInv, LoopTypeOK, PassInv, PassStarts
  <2> QED
    BY <2>1, <2>2 DEF StartPass
<1> QED
  BY <1>1, LoopInvariance, PTL DEF LoopSpec, NoOverlap

\* Spread holds as well, once a period is longer than tokio's tolerance.
THEOREM SpreadInvariance == ASSUME Tolerance < SamplePeriod PROVE LoopSpec => []Spread
<1> USE PeriodsAssumption
<1>1. LoopInit => Spread
  BY DEF LoopInit, Spread
<1>2. LoopInv /\ Spread /\ [LoopNext]_loopVars => Spread'
  <2> SUFFICES ASSUME LoopInv, Spread, [LoopNext]_loopVars PROVE Spread'
    OBVIOUS
  <2>0. LoopTypeOK
    BY DEF LoopInv
  <2>1. CASE Elapse
    BY <2>0, <2>1 DEF LoopTypeOK, Activities, Spread, Elapse, gauges
  <2>2. CASE SampleTick
    <3>1. /\ sampleDue' \in Int /\ sampleDue' > 0
          /\ sampleDue' - sampleDue >= SamplePeriod
      BY <2>0, <2>2, NextDueFacts DEF LoopTypeOK, SampleTick
    <3> QED
      BY <2>0, <2>2, <3>1 DEF LoopTypeOK, Spread, SampleTick, gauges
  <2>3. CASE StartPass
    BY <2>0, <2>3 DEF LoopTypeOK, Spread, StartPass, Lateness
  <2>4. CASE EndPass
    BY <2>0, <2>4 DEF LoopTypeOK, Spread, EndPass
  <2>5. CASE SnapshotTick
    BY <2>0, <2>5 DEF LoopTypeOK, Spread, SnapshotTick, gauges
  <2>6. CASE EndPublish
    BY <2>0, <2>6 DEF LoopTypeOK, Spread, EndPublish, gauges
  <2>7. CASE UNCHANGED loopVars
    BY <2>7 DEF Spread, loopVars, gauges
  <2> QED
    BY <2>1, <2>2, <2>3, <2>4, <2>5, <2>6, <2>7 DEF LoopNext
<1> QED
  BY <1>1, <1>2, LoopInvariance, PTL DEF LoopSpec

\* However far the loop has fallen behind, of four passes in a row the last
\* starts more than a period after the first.
THEOREM NoBurstAlways == ASSUME Tolerance < SamplePeriod PROVE LoopSpec => NoBurst
<1>1. LoopInv /\ Spread /\ [LoopNext]_loopVars
        => [PassStarts /\ begun = 3 => previous + interval + interval' > SamplePeriod]_loopVars
  <2> SUFFICES ASSUME LoopInv, Spread, LoopNext, PassStarts, begun = 3
               PROVE  previous + interval + interval' > SamplePeriod
    BY DEF loopVars
  <2>1. StartPass
    BY DEF LoopNext, PassStarts, Elapse, SampleTick, EndPass, SnapshotTick, EndPublish
  <2>2. interval' = since
    BY <2>1 DEF StartPass
  <2>3. previous + interval > lag /\ since + lag >= SamplePeriod
    BY DEF Spread, PassStarts
  <2>4. /\ previous \in Nat /\ interval \in Nat /\ since \in Nat /\ lag \in Nat
        /\ SamplePeriod \in Nat
    BY PeriodsAssumption DEF LoopInv, LoopTypeOK
  <2> QED
    BY <2>2, <2>3, <2>4
<1> QED
  BY <1>1, LoopInvariance, SpreadInvariance, PTL DEF LoopSpec, NoBurst
=============================================================================
