------------------------- MODULE CpuCollectorProofs -------------------------
(***************************************************************************)
(* What CpuCollector reports is what the kernel counted, for any number of *)
(* jiffies and reads.  The invariant speaks of the baseline: what has been *)
(* reported is what the baseline is ahead of the first reading, and what   *)
(* the kernel has counted since is ahead of the baseline, by iowait taken  *)
(* back at most.                                                           *)
(***************************************************************************)
EXTENDS CpuCollector, FiniteSetTheorems, TLAPS

\* An Option has at most one element.  There is a baseline for the shares if and
\* only if there is one for the switches, and nothing is reported before.
Options ==
    /\ \A p, q \in prevCpu : p = q
    /\ \A r, s \in ctxtRate : r = s
    /\ prevCpu = {} <=> ctxtRate = {}
    /\ prevCpu = {} => switches = 0 /\ \A m \in Shared : reported[m] = 0

\* The kernel takes nothing back but iowait, and tells how much.
Ahead ==
    /\ fell \/ taken = 0
    /\ \A p \in prevCpu :
          /\ \A m \in Modes \ {"iowait"} : p[m] <= jiffies[m]
          /\ p["iowait"] <= jiffies["iowait"] + taken

\* Switches never fall, and are counted only as time passes.
AheadSwitches ==
    \A r \in ctxtRate : /\ r.at <= clock /\ r.value <= ctxt
                        /\ r.at = clock => r.value = ctxt

\* What has been reported of the modes that never fall, up to the baseline.
ReportedBelow ==
    \A p \in prevCpu : \A m \in {"user", "system"} :
        reported[m] <= p[m] - first.times[m]

Inv == TypeOK /\ Options /\ Ahead /\ AheadSwitches /\ ReportedBelow /\ NothingLost
-----------------------------------------------------------------------------
\* A set without two different elements is an Option.
LEMMA AtMostOne ==
    ASSUME NEW S, \A x, y \in S : x = y
    PROVE  Cardinality(S) <= 1
<1>1. CASE S = {}
  BY <1>1, FS_EmptySet
<1>2. CASE S # {}
  <2>1. PICK x : x \in S
    BY <1>2
  <2>2. S = {x}
    BY <2>1
  <2> QED
    BY <2>2, FS_Singleton
<1> QED
  BY <1>1, <1>2

\* Totals are naturals.
LEMMA TotalType ==
    ASSUME NEW t \in Times
    PROVE  /\ Total(t) \in Nat
           /\ \A m \in Modes : t[m] \in Nat
BY DEF Times, Total, Modes, Shared

\* The shares since a baseline: one for each mode, or none at all.
LEMMA SharesSince ==
    ASSUME NEW p \in Times, NEW c \in Times
    PROVE  /\ Shares({p}, c) \subseteq [mode : Shared, delta : Nat, total : Nat \ {0}]
           /\ \A x \in Shares({p}, c) : x.total = Total(c) - Total(p)
           /\ \A m \in Shared :
                 Share(Shares({p}, c), m) =
                     IF Total(c) > Total(p) THEN SaturatingSub(c[m], p[m]) ELSE 0
<1> DEFINE S == Shares({p}, c)
           T == Total(c) - Total(p)
<1>1. Total(c) \in Nat /\ Total(p) \in Nat
  BY TotalType
<1>2. \A m \in Shared : c[m] \in Nat /\ p[m] \in Nat
  BY DEF Times, Modes
<1>3. \A m \in Shared : SaturatingSub(c[m], p[m]) \in Nat
  BY <1>2 DEF SaturatingSub
<1>4. CASE Total(c) > Total(p)
  <2>1. S = {[mode |-> m, delta |-> SaturatingSub(c[m], p[m]), total |-> T] : m \in Shared}
    BY <1>4 DEF Shares
  <2>2. T \in Nat \ {0}
    BY <1>1, <1>4
  <2> HIDE DEF S, T
  <2>3. S \subseteq [mode : Shared, delta : Nat, total : Nat \ {0}]
    BY <1>3, <2>1, <2>2
  <2>4. ASSUME NEW m \in Shared
        PROVE  Share(S, m) = SaturatingSub(c[m], p[m])
    <3>1. \E x \in S : x.mode = m
      <4> DEFINE x == [mode |-> m, delta |-> SaturatingSub(c[m], p[m]), total |-> T]
      <4>1. x \in S
        BY <2>1
      <4>2. x.mode = m
        OBVIOUS
      <4> QED
        BY <4>1, <4>2
    <3>2. \A x \in S : x.mode = m => x.delta = SaturatingSub(c[m], p[m])
      BY <2>1
    <3> QED
      BY <3>1, <3>2 DEF Share
  <2>5. \A x \in S : x.total = T
    BY <2>1
  <2> QED
    BY <1>4, <2>3, <2>4, <2>5 DEF S, T
<1>5. CASE ~ (Total(c) > Total(p))
  <2>1. S = {}
    BY <1>5 DEF Shares
  <2> QED
    BY <1>5, <2>1 DEF Share
<1> QED
  BY <1>4, <1>5

\* What is written and reported without a baseline.
LEMMA FirstReading ==
    ASSUME NEW c, NEW value, NEW at, NEW m
    PROVE  /\ Shares({}, c) = {}
           /\ Share({}, m) = 0
           /\ Rate({}, value, at) = {}
BY DEF Shares, Share, Rate

\* RateTracker::update with a previous reading.
LEMMA RateSince ==
    ASSUME NEW r \in Reading, NEW value \in Nat, NEW at \in Nat
    PROVE  Rate({r}, value, at) =
              IF at > r.at /\ value >= r.value
              THEN {[delta |-> value - r.value, elapsed |-> at - r.at]} ELSE {}
BY DEF Rate, Reading

\* The shares of modes that have not fallen are all that was counted.
LEMMA SharesExact ==
    ASSUME NEW p \in Times, NEW c \in Times,
           \A m \in Modes : p[m] <= c[m],
           NEW m \in Shared
    PROVE  Share(Shares({p}, c), m) = c[m] - p[m]
<1>1. /\ c["user"] \in Nat /\ c["system"] \in Nat /\ c["iowait"] \in Nat /\ c["rest"] \in Nat
      /\ p["user"] \in Nat /\ p["system"] \in Nat /\ p["iowait"] \in Nat /\ p["rest"] \in Nat
  BY DEF Times, Modes, Shared
<1>2. /\ p["user"] <= c["user"] /\ p["system"] <= c["system"]
      /\ p["iowait"] <= c["iowait"] /\ p["rest"] <= c["rest"]
  BY DEF Modes, Shared
<1>3. Share(Shares({p}, c), m) =
          IF Total(c) > Total(p) THEN SaturatingSub(c[m], p[m]) ELSE 0
  BY SharesSince
<1>4. c[m] \in Nat /\ p[m] \in Nat /\ p[m] <= c[m]
  BY DEF Times, Modes
<1>5. CASE Total(c) > Total(p)
  BY <1>3, <1>4, <1>5 DEF SaturatingSub
<1>6. CASE ~ (Total(c) > Total(p))
  <2>1. \/ m = "user" \/ m = "system" \/ m = "iowait"
    BY DEF Shared
  <2>2. Total(c) <= Total(p)
    BY <1>1, <1>6 DEF Total
  <2>3. c["user"] = p["user"] /\ c["system"] = p["system"] /\ c["iowait"] = p["iowait"]
    BY <1>1, <1>2, <2>2 DEF Total
  <2>4. c[m] = p[m]
    BY <2>1, <2>3
  <2> QED
    BY <1>3, <1>4, <1>6, <2>4
<1> QED
  BY <1>5, <1>6

\* The share of a mode that has not fallen is a natural, and no more than was
\* counted of it, whatever the other modes did.
LEMMA SharesBelow ==
    ASSUME NEW p \in Times, NEW c \in Times, NEW m \in Shared
    PROVE  /\ Share(Shares({p}, c), m) \in Nat
           /\ p[m] <= c[m] => Share(Shares({p}, c), m) <= c[m] - p[m]
<1>1. Share(Shares({p}, c), m) =
          IF Total(c) > Total(p) THEN SaturatingSub(c[m], p[m]) ELSE 0
  BY SharesSince
<1>2. c[m] \in Nat /\ p[m] \in Nat
  BY DEF Times, Modes
<1>3. CASE Total(c) > Total(p)
  BY <1>1, <1>2, <1>3 DEF SaturatingSub
<1>4. CASE ~ (Total(c) > Total(p))
  BY <1>1, <1>2, <1>4
<1> QED
  BY <1>3, <1>4

\* Together the shares exceed the growth of the total by the fall of iowait at
\* most.
LEMMA SharesTogether ==
    ASSUME NEW p \in Times, NEW c \in Times, NEW t \in Nat,
           \A m \in Modes \ {"iowait"} : p[m] <= c[m],
           p["iowait"] <= c["iowait"] + t,
           NEW x \in Shares({p}, c)
    PROVE  Share(Shares({p}, c), "user") + Share(Shares({p}, c), "system")
             + Share(Shares({p}, c), "iowait") <= x.total + t
<1>1. /\ c["user"] \in Nat /\ c["system"] \in Nat /\ c["iowait"] \in Nat /\ c["rest"] \in Nat
      /\ p["user"] \in Nat /\ p["system"] \in Nat /\ p["iowait"] \in Nat /\ p["rest"] \in Nat
  BY DEF Times, Modes, Shared
<1>2. p["user"] <= c["user"] /\ p["system"] <= c["system"] /\ p["rest"] <= c["rest"]
  BY DEF Modes, Shared
<1>3. x.total = Total(c) - Total(p) /\ x.total \in Nat \ {0}
  <2>1. x \in [mode : Shared, delta : Nat, total : Nat \ {0}]
    BY SharesSince
  <2>2. x.total = Total(c) - Total(p)
    BY SharesSince
  <2> QED
    BY <2>1, <2>2
<1>4. Total(c) > Total(p)
  BY <1>1, <1>3 DEF Total
<1>5. /\ Share(Shares({p}, c), "user") = SaturatingSub(c["user"], p["user"])
      /\ Share(Shares({p}, c), "system") = SaturatingSub(c["system"], p["system"])
      /\ Share(Shares({p}, c), "iowait") = SaturatingSub(c["iowait"], p["iowait"])
  BY <1>4, SharesSince DEF Shared
<1>6. /\ SaturatingSub(c["user"], p["user"]) = c["user"] - p["user"]
      /\ SaturatingSub(c["system"], p["system"]) = c["system"] - p["system"]
      /\ SaturatingSub(c["iowait"], p["iowait"]) <= c["iowait"] - p["iowait"] + t
      /\ SaturatingSub(c["iowait"], p["iowait"]) \in Nat
  BY <1>1, <1>2 DEF SaturatingSub
<1> QED
  BY <1>1, <1>2, <1>3, <1>5, <1>6 DEF Total
-----------------------------------------------------------------------------
\* The first good read only sets the baselines.
LEMMA CollectFirst ==
    ASSUME Inv, Collect, prevCpu = {}
    PROVE  /\ shares' = {}
           /\ reported' = reported
           /\ switches' = switches
           /\ first' = [times |-> jiffies, ctxt |-> ctxt]
<1>1. ctxtRate = {} /\ reported \in [Shared -> Nat]
  BY DEF Inv, Options, TypeOK
<1>2. shares' = {}
  BY FirstReading DEF Collect
<1>3. \A m \in Shared : Share(shares', m) = 0
  BY <1>2, FirstReading
<1>4. reported' = [m \in Shared |-> reported[m] + Share(shares', m)]
  BY DEF Collect
<1>5. reported' = reported
  <2>1. \A m \in Shared : reported'[m] = reported[m]
    BY <1>1, <1>3, <1>4
  <2> QED
    BY <1>1, <1>4, <2>1
<1>6. switches' = switches
  BY <1>1, FirstReading DEF Collect
<1>7. first' = [times |-> jiffies, ctxt |-> ctxt]
  BY DEF Collect
<1> QED
  BY <1>2, <1>5, <1>6, <1>7

\* A later one reports what has become of the counters since the baselines.
LEMMA CollectAgain ==
    ASSUME Inv, Collect, NEW p \in prevCpu, NEW r \in ctxtRate
    PROVE  /\ prevCpu = {p}
           /\ shares' = Shares({p}, jiffies)
           /\ reported' = [m \in Shared |-> reported[m] + Share(Shares({p}, jiffies), m)]
           /\ switches' = switches + (ctxt - r.value)
           /\ first' = first
<1>1. prevCpu = {p} /\ ctxtRate = {r}
  BY DEF Inv, Options
<1>2. r \in Reading /\ ctxt \in Nat /\ clock \in Nat /\ switches \in Nat
  BY DEF Inv, TypeOK
<1>3. r.value \in Nat /\ r.at \in Nat
  BY <1>2 DEF Reading
<1>4. r.at <= clock /\ r.value <= ctxt /\ (r.at = clock => r.value = ctxt)
  BY DEF Inv, AheadSwitches
<1>5. switches' = switches + (ctxt - r.value)
  <2>1. Rate(ctxtRate, ctxt, clock) =
            IF clock > r.at /\ ctxt >= r.value
            THEN {[delta |-> ctxt - r.value, elapsed |-> clock - r.at]} ELSE {}
    BY <1>1, <1>2, RateSince
  <2>2. CASE clock > r.at
    <3>1. Rate(ctxtRate, ctxt, clock) = {[delta |-> ctxt - r.value, elapsed |-> clock - r.at]}
      BY <1>2, <1>3, <1>4, <2>1, <2>2
    <3> HIDE DEF Rate
    <3>2. \E x \in Rate(ctxtRate, ctxt, clock) : TRUE
      BY <3>1
    <3>3. (CHOOSE x \in Rate(ctxtRate, ctxt, clock) : TRUE).delta = ctxt - r.value
      <4> DEFINE rate == CHOOSE x \in Rate(ctxtRate, ctxt, clock) : TRUE
      <4>1. rate \in Rate(ctxtRate, ctxt, clock)
        BY <3>2
      <4> HIDE DEF rate
      <4>2. rate = [delta |-> ctxt - r.value, elapsed |-> clock - r.at]
        BY <3>1, <4>1
      <4>3. rate.delta = ctxt - r.value
        BY <4>2
      <4> QED
        BY <4>3 DEF rate
    <3> QED
      BY <3>2, <3>3 DEF Collect
  <2>3. CASE ~ (clock > r.at)
    <3>1. Rate(ctxtRate, ctxt, clock) = {}
      BY <2>1, <2>3
    <3>2. switches' = switches
      BY <3>1 DEF Collect
    <3>3. r.value = ctxt
      BY <1>2, <1>3, <1>4, <2>3
    <3> QED
      BY <1>2, <1>3, <3>2, <3>3
  <2> QED
    BY <2>2, <2>3
<1> QED
  BY <1>1, <1>5 DEF Collect

\* What is remembered is what was read just now, in either case.
LEMMA CollectBaseline ==
    ASSUME Inv, Collect
    PROVE  /\ prevCpu' = {jiffies}
           /\ ctxtRate' = {[value |-> ctxt, at |-> clock]}
           /\ taken' = 0
           /\ UNCHANGED <<clock, jiffies, ctxt, fell>>
BY DEF Collect, Replaced, Remembered

\* A good read keeps the invariant.
LEMMA CollectKeeps ==
    ASSUME Inv, Collect
    PROVE  Inv'
<1>1. /\ clock \in Nat /\ jiffies \in Times /\ ctxt \in Nat /\ switches \in Nat
      /\ fell \in BOOLEAN /\ first \in [times : Times, ctxt : Nat]
      /\ reported \in [Shared -> Nat]
  BY DEF Inv, TypeOK
<1>2. /\ prevCpu' = {jiffies}
      /\ ctxtRate' = {[value |-> ctxt, at |-> clock]}
      /\ taken' = 0
      /\ UNCHANGED <<clock, jiffies, ctxt, fell>>
  BY CollectBaseline
<1>3. \A m \in Modes : jiffies[m] \in Nat
  BY <1>1 DEF Times
<1>4. /\ prevCpu' \in SUBSET Times /\ Cardinality(prevCpu') <= 1
      /\ ctxtRate' \in SUBSET Reading /\ Cardinality(ctxtRate') <= 1
  <2>1. [value |-> ctxt, at |-> clock] \in Reading
    BY <1>1 DEF Reading
  <2>2. \A x, y \in prevCpu' : x = y
    BY <1>2
  <2>3. \A x, y \in ctxtRate' : x = y
    BY <1>2
  <2>4. Cardinality(prevCpu') <= 1
    BY <2>2, AtMostOne
  <2>5. Cardinality(ctxtRate') <= 1
    BY <2>3, AtMostOne
  <2> QED
    BY <1>1, <1>2, <2>1, <2>4, <2>5
<1>5. Options' /\ Ahead' /\ AheadSwitches'
  <2>1. Options'
    BY <1>2 DEF Options
  <2>2. Ahead'
    BY <1>2, <1>3 DEF Ahead, Modes, Shared
  <2>3. AheadSwitches'
    BY <1>1, <1>2 DEF AheadSwitches
  <2> QED
    BY <2>1, <2>2, <2>3
<1>6. CASE prevCpu = {}
  <2>1. /\ shares' = {} /\ reported' = reported /\ switches' = switches
        /\ first' = [times |-> jiffies, ctxt |-> ctxt]
    BY <1>6, CollectFirst
  <2>2. switches = 0 /\ \A m \in Shared : reported[m] = 0
    BY <1>6 DEF Inv, Options
  <2>3. TypeOK'
    BY <1>1, <1>2, <1>4, <2>1 DEF TypeOK
  <2>4. \A m \in Shared : jiffies[m] - jiffies[m] = 0
    BY <1>3 DEF Modes
  <2>5. \A m \in Shared : reported'[m] = jiffies[m] - first'.times[m]
    BY <2>1, <2>2, <2>4
  <2>6. ReportedBelow'
    <3>1. \A m \in {"user", "system"} : reported'[m] <= jiffies[m] - first'.times[m]
      <4>1. {"user", "system"} \subseteq Shared
        BY DEF Shared
      <4>2. \A m \in Shared : reported'[m] \in Nat
        BY <1>1, <2>1
      <4> QED
        BY <2>5, <4>1, <4>2
    <3> QED
      BY <1>2, <3>1 DEF ReportedBelow
  <2>7. NothingLost'
    <3>1. switches' = ctxt - first'.ctxt
      BY <1>1, <2>1, <2>2
    <3> QED
      BY <1>2, <2>5, <3>1 DEF NothingLost
  <2> QED
    BY <1>5, <2>3, <2>6, <2>7 DEF Inv
<1>7. CASE prevCpu # {}
  <2>1. PICK p \in prevCpu, r \in ctxtRate : TRUE
    BY <1>7 DEF Inv, Options
  <2> DEFINE share(m) == Share(Shares({p}, jiffies), m)
  <2>2. /\ shares' = Shares({p}, jiffies)
        /\ reported' = [m \in Shared |-> reported[m] + share(m)]
        /\ switches' = switches + (ctxt - r.value)
        /\ first' = first
    BY CollectAgain
  <2>3. p \in Times /\ r \in Reading
    BY DEF Inv, TypeOK
  <2>4. \A m \in Shared : share(m) \in Nat
    BY <1>1, <2>3, SharesBelow
  <2>5. r.value <= ctxt /\ r.value \in Nat /\ switches = r.value - first.ctxt
        /\ first.ctxt \in Nat
    BY <1>1, <2>3 DEF Inv, AheadSwitches, NothingLost, Reading
  <2>6. \A m \in Modes \ {"iowait"} : p[m] <= jiffies[m]
    BY DEF Inv, Ahead
  <2>7. \A m \in {"user", "system"} : share(m) <= jiffies[m] - p[m]
    <3>1. {"user", "system"} \subseteq Shared /\ {"user", "system"} \subseteq Modes \ {"iowait"}
      BY DEF Shared, Modes
    <3> QED
      BY <1>1, <2>3, <2>6, <3>1, SharesBelow
  <2>8. \A m \in Shared : p[m] \in Nat /\ first.times[m] \in Nat /\ jiffies[m] \in Nat
    BY <1>1, <2>3 DEF Times, Modes
  <2>9. shares' \subseteq [mode : Shared, delta : Nat, total : Nat \ {0}]
    BY <1>1, <2>2, <2>3, SharesSince
  <2> HIDE DEF share
  <2>10. reported' \in [Shared -> Nat]
    BY <1>1, <2>2, <2>4
  <2>11. switches' \in Nat /\ switches' = ctxt - first'.ctxt
    BY <1>1, <2>2, <2>5
  <2>12. TypeOK'
    BY <1>1, <1>2, <1>4, <2>2, <2>9, <2>10, <2>11 DEF TypeOK
  <2>13. ReportedBelow'
    <3>1. ASSUME NEW m \in {"user", "system"}
          PROVE  reported'[m] <= jiffies[m] - first.times[m]
      <4>1. m \in Shared
        BY DEF Shared
      <4>2. reported'[m] = reported[m] + share(m)
        BY <2>2, <4>1
      <4>3. reported[m] <= p[m] - first.times[m] /\ reported[m] \in Nat
        BY <1>1, <4>1 DEF Inv, ReportedBelow
      <4>4. share(m) <= jiffies[m] - p[m] /\ share(m) \in Nat
        BY <2>4, <2>7, <4>1
      <4>5. p[m] \in Nat /\ first.times[m] \in Nat /\ jiffies[m] \in Nat
        BY <2>8, <4>1
      <4> QED
        BY <4>2, <4>3, <4>4, <4>5
    <3> QED
      BY <1>2, <2>2, <3>1 DEF ReportedBelow
  <2>14. NothingLost'
    <3>1. ASSUME ~ fell, NEW m \in Shared
          PROVE  reported'[m] = jiffies[m] - first.times[m]
      <4>1. reported[m] = p[m] - first.times[m]
        BY <3>1 DEF Inv, NothingLost
      <4>2. \A k \in Modes : p[k] <= jiffies[k]
        <5>1. taken = 0 /\ p["iowait"] <= jiffies["iowait"] + taken
          BY <3>1 DEF Inv, Ahead
        <5>2. jiffies["iowait"] \in Nat /\ p["iowait"] \in Nat
          BY <1>3, <2>8 DEF Modes, Shared
        <5>3. p["iowait"] <= jiffies["iowait"]
          BY <5>1, <5>2
        <5> QED
          BY <2>6, <5>3
      <4>3. share(m) = jiffies[m] - p[m]
        BY <1>1, <2>3, <4>2, SharesExact DEF share
      <4>4. reported'[m] = reported[m] + share(m)
        BY <2>2
      <4>5. p[m] \in Nat /\ first.times[m] \in Nat /\ jiffies[m] \in Nat
        BY <2>8
      <4> QED
        BY <4>1, <4>3, <4>4, <4>5
    <3> QED
      BY <1>2, <2>2, <2>11, <3>1 DEF NothingLost
  <2> QED
    BY <1>5, <2>12, <2>13, <2>14 DEF Inv
<1> QED
  BY <1>6, <1>7
-----------------------------------------------------------------------------
\* The invariant holds, whatever the kernel counts and whichever reads fail.
THEOREM Invariance == Spec => []Inv
<1>1. Init => Inv
  <2> SUFFICES ASSUME Init
               PROVE  Inv
    OBVIOUS
  <2>1. TypeOK
    <3>1. [m \in Modes |-> 0] \in Times
      BY DEF Times
    <3>2. Cardinality({}) <= 1
      BY FS_EmptySet
    <3> QED
      BY <3>1, <3>2 DEF Init, TypeOK
  <2>2. Options /\ Ahead /\ AheadSwitches /\ ReportedBelow /\ NothingLost
    BY DEF Init, Options, Ahead, AheadSwitches, ReportedBelow, NothingLost
  <2> QED
    BY <2>1, <2>2 DEF Inv
<1>2. Inv /\ [Next]_vars => Inv'
  <2> SUFFICES ASSUME Inv, [Next]_vars
               PROVE  Inv'
    OBVIOUS
  <2>0. TypeOK /\ Options /\ Ahead /\ AheadSwitches /\ ReportedBelow /\ NothingLost
    BY DEF Inv
  <2>1. ASSUME NEW M \in SUBSET Modes, NEW c \in 0..1, Run(M, c)
        PROVE  Inv'
    <3>1. /\ clock \in Nat /\ clock' = clock + 1
          /\ ctxt \in Nat /\ ctxt' = ctxt + c
          /\ \A m \in Modes : jiffies[m] \in Nat
      BY <2>0, <2>1 DEF Run, TypeOK, Times
    <3>2. jiffies' = [m \in Modes |-> jiffies[m] + (IF m \in M THEN 1 ELSE 0)]
      BY <2>1 DEF Run
    <3>3. \A m \in Modes : jiffies'[m] \in Nat /\ jiffies[m] <= jiffies'[m]
      BY <3>1, <3>2
    <3>4. UNCHANGED <<prevCpu, ctxtRate, shares, first, reported, switches, fell, taken>>
      BY <2>1 DEF Run
    <3>5. jiffies' \in Times
      BY <3>1, <3>2 DEF Times
    <3>6. TypeOK'
      BY <2>0, <3>1, <3>4, <3>5 DEF TypeOK
    <3>7. Options' /\ ReportedBelow' /\ NothingLost'
      BY <2>0, <3>4 DEF Options, ReportedBelow, NothingLost
    <3>8. Ahead'
      <4>1. \A p \in prevCpu : \A m \in Modes : p[m] \in Nat
        BY <2>0 DEF TypeOK, Times
      <4>2. taken \in Nat
        BY <2>0 DEF TypeOK
      <4>3. "iowait" \in Modes
        BY DEF Modes, Shared
      <4>4. ASSUME NEW p \in prevCpu
            PROVE  /\ \A m \in Modes \ {"iowait"} : p[m] <= jiffies'[m]
                   /\ p["iowait"] <= jiffies'["iowait"] + taken
        <5>1. /\ \A m \in Modes \ {"iowait"} : p[m] <= jiffies[m]
              /\ p["iowait"] <= jiffies["iowait"] + taken
          BY <2>0 DEF Ahead
        <5>2. \A m \in Modes \ {"iowait"} : p[m] <= jiffies'[m]
          BY <3>1, <3>3, <4>1, <5>1
        <5>3. p["iowait"] <= jiffies'["iowait"] + taken
          BY <3>1, <3>3, <4>1, <4>2, <4>3, <5>1
        <5> QED
          BY <5>2, <5>3
      <4> QED
        BY <2>0, <3>4, <4>4 DEF Ahead
    <3>9. AheadSwitches'
      <4>1. \A r \in ctxtRate : r.at \in Nat /\ r.value \in Nat
        BY <2>0 DEF TypeOK, Reading
      <4> QED
        BY <2>0, <3>1, <3>4, <4>1 DEF AheadSwitches
    <3> QED
      BY <3>6, <3>7, <3>8, <3>9 DEF Inv
  <2>2. CASE FallBack
    <3>1. /\ jiffies \in Times /\ taken \in Nat /\ "iowait" \in Modes
          /\ \A m \in Modes : jiffies[m] \in Nat
      BY <2>0 DEF TypeOK, Times, Modes, Shared
    <3>2. /\ jiffies' = [jiffies EXCEPT !["iowait"] = @ - 1]
          /\ jiffies["iowait"] > 0
          /\ taken' = taken + 1
          /\ fell' = TRUE
          /\ UNCHANGED <<clock, ctxt, prevCpu, ctxtRate, shares, first, reported, switches>>
      BY <2>2 DEF FallBack
    <3>3. /\ jiffies'["iowait"] = jiffies["iowait"] - 1
          /\ jiffies'["iowait"] \in Nat
          /\ \A m \in Modes \ {"iowait"} : jiffies'[m] = jiffies[m]
      BY <3>1, <3>2 DEF Times
    <3>4. jiffies' \in Times
      BY <3>1, <3>2, <3>3 DEF Times
    <3>5. TypeOK'
      BY <2>0, <3>1, <3>2, <3>4 DEF TypeOK
    <3>6. Options' /\ AheadSwitches' /\ ReportedBelow' /\ NothingLost'
      BY <2>0, <3>2 DEF Options, AheadSwitches, ReportedBelow, NothingLost
    <3>7. Ahead'
      <4>1. \A p \in prevCpu : p["iowait"] \in Nat
        BY <2>0, <3>1 DEF TypeOK, Times
      <4>2. \A p \in prevCpu : p["iowait"] <= jiffies'["iowait"] + taken'
        BY <2>0, <3>1, <3>2, <3>3, <4>1 DEF Ahead
      <4>3. \A p \in prevCpu : \A m \in Modes \ {"iowait"} : p[m] <= jiffies'[m]
        BY <2>0, <3>3 DEF Ahead
      <4> QED
        BY <3>2, <4>2, <4>3 DEF Ahead
    <3> QED
      BY <3>5, <3>6, <3>7 DEF Inv
  <2>3. CASE Collect
    BY <2>3, CollectKeeps
  <2>4. CASE Fail
    <3>1. shares' = {} /\ UNCHANGED <<clock, jiffies, ctxt, prevCpu, ctxtRate, first,
                                      reported, switches, fell, taken>>
      BY <2>4 DEF Fail
    <3>2. TypeOK'
      BY <2>0, <3>1 DEF TypeOK
    <3>3. Options' /\ Ahead' /\ AheadSwitches' /\ ReportedBelow' /\ NothingLost'
      BY <2>0, <3>1 DEF Options, Ahead, AheadSwitches, ReportedBelow, NothingLost
    <3> QED
      BY <3>2, <3>3 DEF Inv
  <2>5. CASE UNCHANGED vars
    BY <2>0, <2>5
    DEF vars, Inv, TypeOK, Options, Ahead, AheadSwitches, ReportedBelow, NothingLost
  <2> QED
    BY <2>1, <2>2, <2>3, <2>4, <2>5 DEF Next
<1> QED
  BY <1>1, <1>2, PTL DEF Spec

\* Every variable keeps its type, and an Option its one element: nothing that is
\* subtracted goes below zero, although iowait may fall.
THEOREM TypeCorrect == Spec => []TypeOK
<1>1. Inv => TypeOK
  BY DEF Inv
<1> QED
  BY <1>1, Invariance, PTL

\* Whatever calls fail, the switches reported are those the kernel counted
\* between the first good read and the latest, and so are the jiffies until
\* iowait is taken back.
THEOREM NothingLostAlways == Spec => []NothingLost
<1>1. Inv => NothingLost
  BY DEF Inv
<1> QED
  BY <1>1, Invariance, PTL

\* No user or system time is reported twice, even when iowait falls and the total
\* with it.
THEOREM NothingTwiceAlways == Spec => []NothingTwice
<1>1. Inv => NothingTwice
  <2> SUFFICES ASSUME Inv, prevCpu # {}, NEW m \in {"user", "system"}
               PROVE  reported[m] <= jiffies[m] - first.times[m]
    BY DEF NothingTwice
  <2>1. PICK p \in prevCpu : TRUE
    OBVIOUS
  <2>2. reported[m] <= p[m] - first.times[m]
    BY DEF Inv, ReportedBelow
  <2>3. m \in Shared /\ m \in Modes \ {"iowait"}
    BY DEF Modes, Shared
  <2>4. p[m] <= jiffies[m]
    BY <2>3 DEF Inv, Ahead
  <2>5. /\ reported[m] \in Nat /\ p[m] \in Nat
        /\ first.times[m] \in Nat /\ jiffies[m] \in Nat
    BY <2>3 DEF Inv, TypeOK, Times
  <2> QED
    BY <2>2, <2>4, <2>5
<1> QED
  BY <1>1, Invariance, PTL

\* The shares of one call add up to 100 percent at most, but for the iowait taken
\* back since the baseline.
THEOREM SharesAddUpAlways == Spec => SharesAddUp
<1>1. Inv /\ [Next]_vars =>
        [Collect => \A x \in shares' :
            Share(shares', "user") + Share(shares', "system") + Share(shares', "iowait")
                <= x.total + taken]_vars
  <2> SUFFICES ASSUME Inv, Collect, NEW x \in shares'
               PROVE  Share(shares', "user") + Share(shares', "system")
                        + Share(shares', "iowait") <= x.total + taken
    OBVIOUS
  <2>1. prevCpu # {}
    BY CollectFirst
  <2>2. PICK p \in prevCpu, r \in ctxtRate : TRUE
    BY <2>1 DEF Inv, Options
  <2>3. shares' = Shares({p}, jiffies)
    BY CollectAgain
  <2>4. /\ p \in Times /\ jiffies \in Times /\ taken \in Nat
        /\ \A m \in Modes \ {"iowait"} : p[m] <= jiffies[m]
        /\ p["iowait"] <= jiffies["iowait"] + taken
    BY DEF Inv, TypeOK, Ahead
  <2> QED
    BY <2>3, <2>4, SharesTogether
<1> QED
  BY <1>1, Invariance, PTL DEF Spec, SharesAddUp
=============================================================================
