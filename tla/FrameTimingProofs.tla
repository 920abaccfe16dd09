-------------------------- MODULE FrameTimingProofs --------------------------
(***************************************************************************)
(* TLAPS proofs about FrameTiming, for intervals, ages, histograms and     *)
(* delays of any size: that nobody sleeps beyond the end of its sleep      *)
(* (Base), that the counted entries of the histogram are in order, that a  *)
(* screen that stands still is polled no more often than every             *)
(* IdleInterval, that main's calls leave the histogram alone, by when the  *)
(* next poll comes, and how many skipped frames there can be at a time.    *)
(* The last two are what the code keeps until a prediction is misled: the  *)
(* run frame_timing_preempted shows that the screen is not polled after    *)
(* that.  The waits for the SPI thread (Throttles) and the time a thread   *)
(* may lose in a prediction (MaxDelay) are arbitrary.                      *)
(* Three need what the code does not enforce, a hypothesis of their        *)
(* theorems: that an uninitialized time is not near the clock's            *)
(* (FarFromClock), that main is not held back for longer than an entry     *)
(* lives, and that the array is as long as main may be away (SkipsFit).    *)
(***************************************************************************)
EXTENDS FrameTiming, FiniteSetTheorems, WellFoundedInduction, SequenceTheorems, TLAPS

-----------------------------------------------------------------------------
(* Constants, and the operators of the model *)

LEMMA Constants ==
  /\ VsyncInterval \in Nat \ {0} /\ FrameInterval \in Nat \ {0} /\ HistogramSize \in Nat \ {0}
  /\ Start \in Nat \ {0} /\ MaxTime \in Nat /\ Start < MaxTime
  /\ IdleInterval \in Nat /\ DeepInterval \in Nat /\ SkipAge \in Nat /\ IdleAge \in Nat
  /\ MaxSampleAge \in Nat /\ DeepIdleAge \in Nat /\ MaxInterlaced \in Nat
  /\ FrameInterval < IdleInterval /\ IdleInterval < DeepInterval /\ DeepInterval < SkipAge
  /\ SkipAge < IdleAge /\ IdleAge < MaxSampleAge /\ MaxSampleAge < DeepIdleAge
  /\ TimeModulus \in Nat \ {0} /\ MaxTime + 1 < TimeModulus
  /\ Throttles \subseteq Nat /\ \A d \in Throttles : d <= MaxThrottle
  /\ MaxThrottle \in Nat /\ MaxDelay \in Nat
  /\ Builds \subseteq {"polled", "vsync"}
  /\ Uninitialized \subseteq 0..TimeModulus - 1
<1>1. HistogramSize * FrameInterval \in Nat
  BY TimingAssumption DEF TimingAssumption
<1> QED BY <1>1, TimingAssumption DEF TimingAssumption

LEMMA LowestIsLeast ==
  ASSUME NEW S, S \subseteq Nat, S # {}
  PROVE  Lowest(S) \in S /\ \A m \in S : Lowest(S) <= m
<1>1. PICK c \in S : \A d \in S : <<d, c>> \notin OpToRel(<, Nat)
  BY WFMin, NatLessThanWellFounded, Zenon
<1>2. \A d \in S : ~(d < c)
  BY <1>1 DEF OpToRel
<1>3. \A d \in S : c <= d
  BY <1>2
<1> QED BY <1>3, Zenon DEF Lowest

\* A set of numbers with a bound has a greatest one.
LEMMA SomeGreatest ==
  ASSUME NEW S, S \subseteq Nat, S # {}, NEW b \in Nat, \A d \in S : d <= b
  PROVE  \E c \in S : \A d \in S : d <= c
<1> DEFINE R == {b - d : d \in S}
<1>1. R \subseteq Nat /\ R # {}
  <2>1. PICK d \in S : TRUE
    OBVIOUS
  <2>2. b - d \in R
    BY <2>1
  <2>3. \A e \in S : b - e \in Nat
    OBVIOUS
  <2> QED BY <2>2, <2>3
<1>2. PICK r \in R : \A e \in R : r <= e
  BY <1>1, LowestIsLeast, Zenon
<1>3. PICK c \in S : r = b - c
  BY <1>2
<1>4. ASSUME NEW d \in S PROVE d <= c
  <2>1. b - d \in R
    OBVIOUS
  <2>2. b - c <= b - d
    BY <1>2, <1>3, <2>1
  <2> QED BY <2>2
<1> QED BY <1>4

\* The age of an earlier time, as long as times do not wrap; any age is a number.
LEMMA AgeIsNat ==
  ASSUME NEW t \in Int, NEW s \in Int
  PROVE  Age(t, s) \in Nat
BY Constants DEF Age

LEMMA AgeOfEarlier ==
  ASSUME NEW t \in Nat, NEW s \in Nat, s <= t, t < TimeModulus
  PROVE  Age(t, s) = t - s
<1>1. PICK a \in Nat : a = t - s
  OBVIOUS
<1>2. PICK m \in Nat \ {0} : m = TimeModulus
  BY Constants
<1>3. a < m /\ Age(t, s) = a % m
  BY <1>1, <1>2 DEF Age
<1> DEFINE q == a \div m
           r == a % m
<1>4. a = m * q + r /\ r \in 0..m - 1 /\ q \in Nat
  OBVIOUS
<1> HIDE DEF q, r
<1>5. q = 0
  <2> SUFFICES ASSUME q >= 1 PROVE FALSE
    BY <1>4
  <2>1. m * (q - 1) >= 0
    BY <1>4
  <2> QED BY <1>3, <1>4, <2>1
<1>6. r = a
  BY <1>4, <1>5
<1> QED BY <1>1, <1>3, <1>6 DEF r

\* Expiring leaves the most recent entry, and no entry of the rest is too old at the end.
LEMMA KeptIsYoung ==
  ASSUME NEW size \in Nat \ {0}, NEW times, \A i \in 0..size - 1 : times[i] \in Nat,
         times[0] < TimeModulus
  PROVE  /\ Kept(times, size) \in 1..size
         /\ Age(times[0], times[Kept(times, size) - 1]) <= MaxSampleAge
<1> DEFINE Old(n) == Age(times[0], times[n - 1]) > MaxSampleAge
           old == {n \in 1..size : \A i \in n..size : Old(i)}
<1>1. Kept(times, size) = IF old = {} THEN size ELSE Lowest(old) - 1
  BY DEF Kept
<1>2. ~Old(1)
  BY AgeOfEarlier, Constants
<1>3. ASSUME NEW n \in 1..size PROVE Age(times[0], times[n - 1]) \in Nat
  <2>1. n - 1 \in 0..size - 1 /\ 0 \in 0..size - 1
    OBVIOUS
  <2>2. times[0] \in Int /\ times[n - 1] \in Int
    BY <2>1
  <2> QED BY <2>2, AgeIsNat
<1> HIDE DEF Old
<1>4. CASE old = {}
  <2>1. size \notin old
    BY <1>4
  <2>2. ~Old(size)
    BY <2>1
  <2> QED BY <1>1, <1>3, <1>4, <2>2, Constants DEF Old
<1>5. CASE old # {}
  <2> DEFINE l == Lowest(old)
  <2>1. l \in old /\ \A m \in old : l <= m
    BY <1>5, LowestIsLeast
  <2> HIDE DEF l
  <2>2. l \in 1..size /\ \A i \in l..size : Old(i)
    BY <2>1
  <2>3. l # 1
    BY <1>2, <2>2
  <2>4. l - 1 \in 1..size /\ l - 1 \notin old
    BY <2>1, <2>2, <2>3
  <2>5. PICK i \in l - 1..size : ~Old(i)
    BY <2>4
  <2>6. i = l - 1
    BY <2>2, <2>5
  <2>7. ~Old(l - 1)
    BY <2>5, <2>6
  <2>8. Kept(times, size) = l - 1
    BY <1>1, <1>5 DEF l
  <2> QED BY <1>3, <2>4, <2>7, <2>8, Constants DEF Old
<1> QED BY <1>4, <1>5

Times == 0..TimeModulus - 1

Histogram ==
  /\ arrivals \in [0..HistogramSize - 1 -> Times]
  /\ histogramSize \in 0..HistogramSize

\* A sample is added in front, the others move up, and some of the last are dropped.
LEMMA SampleAdded ==
  ASSUME Histogram, NEW t \in Times, NEW size \in 0..HistogramSize, AddHistogramSample(t, size)
  PROVE  /\ arrivals' \in [0..HistogramSize - 1 -> Times]
         /\ arrivals'[0] = t
         /\ \A i \in 1..HistogramSize - 1 : arrivals'[i] = arrivals[i - 1]
         /\ histogramSize' \in 1..HistogramSize /\ histogramSize' <= size + 1
         /\ Age(t, arrivals'[histogramSize' - 1]) <= MaxSampleAge
<1> DEFINE times == [i \in 0..HistogramSize - 1 |-> IF i = 0 THEN t ELSE arrivals[i - 1]]
           least == Least(size + 1, HistogramSize)
<1>1. arrivals' = times /\ histogramSize' = Kept(times, least)
  BY Zenon DEF AddHistogramSample
<1>2. /\ least \in 1..HistogramSize /\ least <= size + 1
  BY Constants DEF Least
<1>3. times \in [0..HistogramSize - 1 -> Times]
  <2>1. ASSUME NEW i \in 0..HistogramSize - 1, i # 0 PROVE arrivals[i - 1] \in Times
    <3>1. i - 1 \in 0..HistogramSize - 1
      BY <2>1, Constants
    <3> QED BY <3>1 DEF Histogram
  <2> QED BY <2>1
<1>4. times[0] = t /\ \A i \in 1..HistogramSize - 1 : times[i] = arrivals[i - 1]
  BY Constants
<1> HIDE DEF times, least
<1>5. \A i \in 0..least - 1 : times[i] \in Nat
  BY <1>2, <1>3, Constants DEF Times
<1>6. times[0] < TimeModulus /\ least \in Nat \ {0}
  BY <1>2, <1>4, Constants DEF Times
<1>7. /\ Kept(times, least) \in 1..least
      /\ Age(times[0], times[Kept(times, least) - 1]) <= MaxSampleAge
  BY <1>5, <1>6, KeptIsYoung
<1>8. histogramSize' \in 1..HistogramSize /\ histogramSize' <= size + 1
  BY <1>1, <1>2, <1>7, Constants
<1> QED BY <1>1, <1>3, <1>4, <1>7, <1>8

\* The percentile is one of the intervals: the number it must exceed is less than theirs.
LEMMA PercentileExists ==
  ASSUME Histogram, histogramSize >= 2, eager \in Nat
  PROVE  Percentile \in Nat
<1> DEFINE n == histogramSize - 1
           interval(i) == Least(IdleInterval, Age(arrivals[i - 1], arrivals[i]))
           NotAbove(v) == {i \in 1..n : interval(i) <= v}
           percentile == Greatest((n * 2) \div 5 - eager, 0)
           intervals == {interval(i) : i \in 1..n}
           enough == {v \in intervals : Cardinality(NotAbove(v)) > percentile}
<1>1. n \in Nat \ {0} /\ n + 1 <= HistogramSize
  BY DEF Histogram
<1>2. percentile \in Nat /\ percentile < n
  <2>1. (n * 2) \div 5 \in Nat /\ (n * 2) \div 5 < n
    <3>1. PICK m \in Nat \ {0} : m = n
      BY <1>1
    <3>2. (m * 2) \div 5 \in Nat /\ (m * 2) \div 5 < m
      OBVIOUS
    <3> QED BY <3>1, <3>2
  <2> QED BY <1>1, <2>1 DEF Greatest
<1>3. ASSUME NEW i \in 1..n PROVE interval(i) \in 0..IdleInterval
  <2>1. arrivals[i - 1] \in Int /\ arrivals[i] \in Int
    <3>1. i - 1 \in 0..HistogramSize - 1 /\ i \in 0..HistogramSize - 1
      BY <1>1, Constants
    <3> QED BY <3>1 DEF Histogram, Times
  <2>2. Age(arrivals[i - 1], arrivals[i]) \in Nat
    BY <2>1, AgeIsNat
  <2> QED BY <2>2, Constants DEF Least
<1> HIDE DEF interval, percentile
<1>4. intervals \subseteq Nat /\ intervals # {} /\ \A d \in intervals : d <= IdleInterval
  <2>1. 1 \in 1..n
    BY DEF Histogram
  <2> QED BY <1>3, <2>1
<1>5. PICK v \in intervals : \A d \in intervals : d <= v
  BY <1>4, SomeGreatest, Constants
<1>6. NotAbove(v) = 1..n
  BY <1>5
<1>7. Cardinality(1..n) = n
  BY <1>1, FS_Interval
<1>8. v \in enough
  BY <1>2, <1>5, <1>6, <1>7
<1>9. enough \subseteq Nat /\ enough # {}
  BY <1>4, <1>8
<1>10. Lowest(enough) \in Nat
  BY <1>9, LowestIsLeast
<1> QED BY <1>10 DEF Percentile, interval, percentile

\* The estimated interval is never 0, and between those of TARGET_FRAME_RATE and of an idle
\* screen as long as frames have arrived of late.
LEMMA EstimateIsInterval ==
  ASSUME Histogram, eager \in Nat, lastFramePollTime \in Nat, NEW t \in Nat
  PROVE  /\ EstimateFrameRateInterval(t) \in Nat \ {0}
         /\ (histogramSize = 0 \/ Age(t, arrivals[0]) <= IdleAge)
              => /\ FrameInterval <= EstimateFrameRateInterval(t)
                 /\ EstimateFrameRateInterval(t) <= IdleInterval
<1>1. CASE histogramSize = 0
  BY <1>1, Constants DEF EstimateFrameRateInterval
<1>2. CASE histogramSize # 0
  <2>1. arrivals[0] \in Nat /\ histogramSize \in Nat
    BY Constants DEF Histogram, Times
  <2>2. Age(t, arrivals[0]) \in Nat
    <3>1. arrivals[0] \in Int /\ t \in Int
      BY <2>1
    <3> QED BY <3>1, AgeIsNat
  <2>3. CASE Age(t, arrivals[0]) > IdleAge
    BY <1>2, <2>2, <2>3, Constants DEF EstimateFrameRateInterval
  <2>4. CASE Age(t, arrivals[0]) <= IdleAge /\ histogramSize < 2
    BY <1>2, <2>2, <2>4, Constants DEF EstimateFrameRateInterval
  <2>5. CASE Age(t, arrivals[0]) <= IdleAge /\ histogramSize >= 2
    <3> DEFINE interval == Least(Percentile, Age(arrivals[0], arrivals[1])) - eager
    <3>1. Percentile \in Nat
      BY <2>5, PercentileExists
    <3>2. Age(arrivals[0], arrivals[1]) \in Nat
      <4>1. arrivals[0] \in Int /\ arrivals[1] \in Int
        <5>1. 0 \in 0..HistogramSize - 1 /\ 1 \in 0..HistogramSize - 1
          BY <2>5, Constants DEF Histogram
        <5> QED BY <5>1 DEF Histogram, Times
      <4> QED BY <4>1, AgeIsNat
    <3>3. interval \in Int
      BY <3>1, <3>2 DEF Least
    <3> HIDE DEF interval
    <3>4. Greatest(Least(interval, IdleInterval), FrameInterval) \in FrameInterval..IdleInterval
      BY <3>3, Constants DEF Greatest, Least
    <3>5. EstimateFrameRateInterval(t) = Greatest(Least(interval, IdleInterval), FrameInterval)
      <4>1. ~(Age(t, arrivals[0]) > DeepIdleAge) /\ ~(Age(t, arrivals[0]) > IdleAge)
            /\ ~(histogramSize < 2)
        BY <2>1, <2>2, <2>5, Constants
      <4> QED BY <1>2, <4>1, Zenon DEF EstimateFrameRateInterval, interval
    <3> QED BY <3>4, <3>5, Constants
  <2> QED BY <2>1, <2>2, <2>3, <2>4, <2>5, Constants
<1> QED BY <1>1, <1>2

\* The predicted arrival is the first of its series at or after the reading of the timer, so
\* less than an interval later; an interval that has just begun is not cut short.
LEMMA NextArrivalIsSoon ==
  ASSUME NEW interval \in Nat \ {0}, timeNow \in Nat, mostRecentFrame(timeNow) \in Nat
  PROVE  /\ NextArrival(interval) \in Int
         /\ NextArrival(interval) < timeNow + interval
         /\ mostRecentFrame(timeNow) < timeNow /\ timeNow <= mostRecentFrame(timeNow) + interval
              => NextArrival(interval) = mostRecentFrame(timeNow) + interval
<1> DEFINE latest == mostRecentFrame(timeNow)
           a == timeNow - latest + interval - 1
           k == a \div interval
           next == latest + k * interval
           previousMissed == next - interval
<1>1. PICK l \in Nat : l = latest
  OBVIOUS
<1>2. PICK t \in Nat : t = timeNow
  OBVIOUS
<1>3. a = t - l + interval - 1 /\ a \in Int
  BY <1>1, <1>2
<1>4. PICK b \in Int : b = a
  BY <1>3
<1>5. b \div interval \in Int /\ b = interval * (b \div interval) + (b % interval)
      /\ b % interval \in 0..interval - 1
  OBVIOUS
<1>6. PICK q \in Int : q = k
  BY <1>4, <1>5
<1>7. q * interval \in Int /\ q * interval <= b /\ b < q * interval + interval
  <2>1. q = b \div interval
    BY <1>4, <1>6
  <2>2. PICK r \in 0..interval - 1 : b = interval * q + r
    BY <1>5, <2>1
  <2>3. interval * q = q * interval /\ q * interval \in Int
    OBVIOUS
  <2> QED BY <2>2, <2>3
<1>8. next \in Int /\ next = l + q * interval
  BY <1>1, <1>6, <1>7
<1>9. NextArrival(interval)
        = IF timeNow - previousMissed < interval \div 3 /\ previousMissed > latest
            THEN timeNow ELSE next
  BY Zenon DEF NextArrival
<1> HIDE DEF latest, a, k, next
<1>10. next < t + interval
  BY <1>3, <1>4, <1>7, <1>8
<1>11. NextArrival(interval) \in Int /\ NextArrival(interval) < timeNow + interval
  BY <1>2, <1>8, <1>9, <1>10
<1>12. ASSUME l < t, t <= l + interval
       PROVE  NextArrival(interval) = l + interval
  <2>1. interval <= b /\ b < 2 * interval
    BY <1>3, <1>4, <1>12
  <2>2. q = 1
    <3>1. ~(q <= 0)
      <4> SUFFICES ASSUME q <= 0 PROVE FALSE
        OBVIOUS
      <4>1. (0 - q) * interval >= 0 /\ (0 - q) * interval = 0 - (q * interval)
        OBVIOUS
      <4> QED BY <1>7, <2>1, <4>1
    <3>2. ~(q >= 2)
      <4> SUFFICES ASSUME q >= 2 PROVE FALSE
        OBVIOUS
      <4>1. (q - 2) * interval >= 0 /\ (q - 2) * interval = q * interval - 2 * interval
        OBVIOUS
      <4> QED BY <1>7, <2>1, <4>1
    <3> QED BY <3>1, <3>2
  <2>3. next = l + interval
    BY <1>8, <2>2
  <2>4. previousMissed = l
    BY <2>3
  <2>5. ~(previousMissed > latest)
    BY <1>1, <2>4
  <2> QED BY <1>9, <2>3, <2>5
<1> QED BY <1>1, <1>2, <1>11, <1>12 DEF latest
-----------------------------------------------------------------------------
(* Types and control *)

Types ==
  /\ build \in Builds /\ now \in Start..MaxTime /\ fresh \in BOOLEAN /\ got \in BOOLEAN
  /\ Histogram /\ (build = "polled" => histogramSize >= 1)
  /\ eager \in Nat /\ lastFramePollTime \in {0} \cup Start..now + 1
  /\ pWake \in Nat /\ mWake \in Nat /\ timeNow \in Nat /\ giveUp \in Nat
  /\ received \in Start..now + 1
  /\ numNewGpuFrames \in Nat /\ taken \in Nat
  /\ interlacedUpdate \in 0..MaxInterlaced
  /\ skips \in Seq(Start..now)

PolledPcs == {"target", "predict", "estimate", "snapshot", "compare"}
VsyncPcs == {"wait", "load", "predict", "estimate", "snapshot", "compare", "look", "send"}

\* With vsync, no frame is lost between being seen and being taken.
Control ==
  /\ build = "polled" => pPc \in PolledPcs /\ mPc \in {"wait", "load", "estimate"}
  /\ build = "vsync" => pPc \in VsyncPcs /\ mPc = "wait"
  /\ build = "vsync" /\ pPc \in {"predict", "estimate", "snapshot", "compare"}
       => taken <= numNewGpuFrames
  /\ pPc \in {"compare", "look"} => lastFramePollTime # 0 /\ pWake = lastFramePollTime + 1
  /\ pPc # "look" => received <= now /\ lastFramePollTime <= now
  /\ pPc = "look" => received <= pWake

\* Nobody sleeps beyond the end of its sleep.
OnTime ==
  /\ pPc \notin {"wait", "estimate"} => now <= pWake
  /\ pPc \in {"wait", "estimate", "send"} => pWake <= now
  /\ pPc = "estimate" => timeNow <= now
  /\ pPc = "estimate" => now <= timeNow + MaxDelay
  /\ mPc = "load" => now <= mWake
  /\ mPc # "load" => mWake <= now
  /\ build = "vsync" => now <= nextVsync /\ nextVsync <= now + VsyncInterval

Base == Types /\ Control /\ nextVsync \in Nat /\ OnTime

LEMMA Unchanged == ASSUME Base, UNCHANGED vars PROVE Base'
BY DEF Base, vars, histogram, poller, mainThread, frames, vsync, Types, Histogram, Control, OnTime

LEMMA FunctionIsSeq ==
  ASSUME NEW S, NEW k \in Nat, NEW f \in [1..k -> S]
  PROVE  f \in Seq(S)
OBVIOUS

LEMMA SeqGrows ==
  ASSUME NEW S, NEW T, S \subseteq T, NEW s \in Seq(S)
  PROVE  s \in Seq(T)
<1>1. Len(s) \in Nat /\ s = [i \in 1..Len(s) |-> s[i]] /\ \A i \in 1..Len(s) : s[i] \in S
  BY LenProperties, ElementOfSeq
<1>2. s \in [1..Len(s) -> T]
  BY <1>1
<1> QED BY <1>1, <1>2

\* The entries that are left are a suffix, and those that are added have the time of now.
LEMMA SkipsAreTimes ==
  ASSUME Types
  PROVE  /\ Current \in Seq(Start..now)
         /\ \A s \in Seq(Start..now), n \in Nat : Skipped(s, n) \in Seq(Start..now)
<1>1. Current \in Seq(Start..now)
  <2> DEFINE young == {n \in 1..Len(skips) : now - skips[n] < SkipAge}
  <2>1. CASE young = {}
    BY <2>1 DEF Current
  <2>2. CASE young # {}
    <3>1. skips \in Seq(Start..now) /\ Len(skips) \in Nat
      BY LenProperties DEF Types
    <3>2. young \subseteq Nat
      BY <3>1
    <3> DEFINE l == Lowest(young)
    <3>3. l \in young
      BY <2>2, <3>2, LowestIsLeast
    <3>4. l \in Int /\ l >= 1 /\ Len(skips) \in Int
      BY <3>1, <3>3
    <3> HIDE DEF l
    <3>5. \A i \in l..Len(skips) : skips[i] \in Start..now
      <4>1. ASSUME NEW i \in l..Len(skips) PROVE skips[i] \in Start..now
        <5>1. i \in 1..Len(skips)
          BY <3>1, <3>4
        <5> QED BY <3>1, <5>1, ElementOfSeq
      <4> QED BY <4>1
    <3>6. SubSeq(skips, l, Len(skips)) \in Seq(Start..now)
      BY <3>1, <3>4, <3>5, SubSeqProperties, Zenon
    <3>7. Current = SubSeq(skips, l, Len(skips))
      BY <2>2 DEF Current, l
    <3> QED BY <3>6, <3>7
  <2> QED BY <2>1, <2>2
<1>2. ASSUME NEW s \in Seq(Start..now), NEW n \in Nat
      PROVE  Skipped(s, n) \in Seq(Start..now)
  <2> DEFINE added == [i \in 1..Greatest(0, n - 1) |-> now]
  <2>1. Greatest(0, n - 1) \in Nat
    BY DEF Greatest
  <2>2. now \in Start..now
    BY Constants DEF Types
  <2>3. added \in Seq(Start..now)
    <3>1. PICK k \in Nat : k = Greatest(0, n - 1)
      BY <2>1
    <3>2. added = [i \in 1..k |-> now]
      BY <3>1
    <3>3. added \in [1..k -> Start..now]
      BY <2>2, <3>2
    <3> HIDE DEF added
    <3> QED BY <3>3, FunctionIsSeq
  <2> HIDE DEF added
  <2>4. s \o added \in Seq(Start..now)
    BY <2>3, ConcatProperties
  <2> QED BY <2>4 DEF Skipped, added
<1> QED BY <1>1, <1>2

\* A deep sleep leaves one entry, if there was one.
LEMMA ShrunkIsSize ==
  ASSUME Histogram, NEW t
  PROVE  /\ Shrunk(t) \in 0..histogramSize
         /\ histogramSize >= 1 => Shrunk(t) >= 1
         /\ ~(Age(t, arrivals[0]) > DeepIdleAge) => Shrunk(t) = histogramSize
BY DEF Shrunk, Histogram

LEMMA InitBase == Init => Base
<1> SUFFICES ASSUME Init PROVE Base
  OBVIOUS
<1>1. ASSUME NEW i \in 0..HistogramSize - 1
      PROVE  Start - FrameInterval * (i + 1) \in Times
  <2>1. /\ HistogramSize \in Nat /\ FrameInterval \in Nat /\ Start \in Nat /\ Start < TimeModulus
        /\ HistogramSize * FrameInterval < Start
    BY Constants, TimingAssumption DEF TimingAssumption
  <2>2. (HistogramSize - (i + 1)) * FrameInterval >= 0
    BY <2>1
  <2>3. /\ (HistogramSize - (i + 1)) * FrameInterval
             = HistogramSize * FrameInterval - FrameInterval * (i + 1)
        /\ FrameInterval * (i + 1) \in Nat
    BY <2>1
  <2>4. PICK a \in Nat : a = HistogramSize * FrameInterval
    BY <2>1, TimingAssumption DEF TimingAssumption
  <2>5. PICK b \in Nat : b = FrameInterval * (i + 1)
    BY <2>3
  <2>6. Start - b \in Times
    BY <2>1, <2>2, <2>3, <2>4, <2>5, Constants DEF Times
  <2> QED BY <2>5, <2>6
<1>2. arrivals \in [0..HistogramSize - 1 -> Times]
  <2>1. 0 \in Times
    BY Constants DEF Times
  <2>2. CASE build = "polled"
    <3>1. arrivals = [i \in 0..HistogramSize - 1 |-> Start - FrameInterval * (i + 1)]
      BY <2>2, Zenon DEF Init
    <3> QED BY <1>1, <3>1
  <2>3. CASE build # "polled"
    <3>1. arrivals = [i \in 0..HistogramSize - 1 |-> 0]
      BY <2>3, Zenon DEF Init
    <3> QED BY <2>1, <3>1
  <2> QED BY <2>2, <2>3
<1>3. \A i \in 0..HistogramSize - 1 : arrivals[i] \in Nat
  BY <1>2 DEF Times
<1>4. arrivals[0] < TimeModulus
  BY <1>2, Constants DEF Times
<1>5. Kept(arrivals, HistogramSize) \in 1..HistogramSize
  BY <1>3, <1>4, KeptIsYoung, Constants
<1>6. Histogram /\ (build = "polled" => histogramSize >= 1)
  <2>1. histogramSize = IF build = "polled" THEN Kept(arrivals, HistogramSize) ELSE 0
    BY Zenon DEF Init
  <2> QED BY <1>2, <1>5, <2>1, Constants DEF Histogram
<1>7. skips \in Seq(Start..now)
  BY DEF Init
<1>8. Types
  <2>1. /\ build \in Builds /\ now = Start /\ fresh = FALSE /\ got = FALSE
        /\ eager = 0 /\ lastFramePollTime = 0 /\ pWake = Start /\ mWake = Start
        /\ timeNow = Start /\ giveUp = Start /\ received = Start
        /\ numNewGpuFrames = 0 /\ taken = 0 /\ interlacedUpdate = 0
    BY Zenon DEF Init
  <2>2. /\ now \in Start..MaxTime /\ lastFramePollTime \in {0} \cup Start..now + 1
        /\ pWake \in Nat /\ mWake \in Nat /\ timeNow \in Nat /\ giveUp \in Nat
        /\ received \in Start..now + 1 /\ eager \in Nat
        /\ numNewGpuFrames \in Nat /\ taken \in Nat /\ interlacedUpdate \in 0..MaxInterlaced
    BY <2>1, Constants
  <2>3. build \in Builds /\ fresh \in BOOLEAN /\ got \in BOOLEAN
    BY <2>1
  <2> QED BY <1>6, <1>7, <2>2, <2>3, Zenon DEF Types
<1>9. Control /\ nextVsync \in Nat /\ OnTime
  BY Constants DEF Init, Control, OnTime, PolledPcs, VsyncPcs
<1> QED BY <1>8, <1>9 DEF Base

\* Base is inductive: each action keeps it.
LEMMA TickBase ==
  ASSUME Base, Tick
  PROVE  Base'
<1>1. Histogram' /\ (build' = "polled" => histogramSize' >= 1)
  BY DEF Base, Types, Histogram, Tick, histogram, poller, mainThread, frames, vsync, PollerRests,
         MainRests, SomeFrame
<1>2. skips' \in Seq(Start..now')
  <2>1. Start..now \subseteq Start..now'
    BY Constants DEF Base, Types, Tick
  <2>2. skips \in Seq(Start..now) /\ skips' = skips
    BY DEF Base, Types, Tick, frames
  <2> QED BY <2>1, <2>2, SeqGrows
<1>3. Types'
  BY <1>1, <1>2, Constants DEF Base, Types, Control, OnTime, Tick, histogram, poller, mainThread,
                               frames, vsync, PollerRests, MainRests, SomeFrame
<1>4. Control' /\ nextVsync' \in Nat
  BY Constants DEF Base, Types, Control, OnTime, PolledPcs, VsyncPcs, Tick, histogram, poller,
                   mainThread, frames, vsync, PollerRests, MainRests, SomeFrame
<1>5. OnTime'
  BY Constants DEF Base, Types, Control, OnTime, PolledPcs, VsyncPcs, Tick, histogram, poller,
                   mainThread, frames, vsync, PollerRests, MainRests, SomeFrame
<1> QED BY <1>3, <1>4, <1>5 DEF Base

LEMMA RenderFrameBase ==
  ASSUME Base, RenderFrame
  PROVE  Base'
<1>1. Histogram' /\ (build' = "polled" => histogramSize' >= 1)
  BY DEF Base, Types, Histogram, RenderFrame, histogram, poller, mainThread, frames, vsync
<1>2. skips' \in Seq(Start..now')
  BY DEF Base, Types, RenderFrame, histogram, poller, mainThread, frames, vsync
<1>3. Types'
  BY <1>1, <1>2, Constants DEF Base, Types, Control, OnTime, RenderFrame, histogram, poller,
                               mainThread, frames, vsync
<1>4. Control' /\ nextVsync' \in Nat
  BY Constants DEF Base, Types, Control, OnTime, PolledPcs, VsyncPcs, RenderFrame, histogram,
                   poller, mainThread, frames, vsync
<1>5. OnTime'
  BY Constants DEF Base, Types, Control, OnTime, PolledPcs, VsyncPcs, RenderFrame, histogram,
                   poller, mainThread, frames, vsync
<1> QED BY <1>3, <1>4, <1>5 DEF Base

LEMMA VsyncCallbackBase ==
  ASSUME Base, VsyncCallback
  PROVE  Base'
<1>1. Histogram' /\ (build' = "polled" => histogramSize' >= 1)
  BY DEF Base, Types, Histogram, VsyncCallback, histogram, poller, mainThread, frames, vsync
<1>2. skips' \in Seq(Start..now')
  BY DEF Base, Types, VsyncCallback, histogram, poller, mainThread, frames, vsync
<1>3. Types'
  BY <1>1, <1>2, Constants DEF Base, Types, Control, OnTime, VsyncCallback, histogram, poller,
                               mainThread, frames, vsync
<1>4. Control' /\ nextVsync' \in Nat
  BY Constants DEF Base, Types, Control, OnTime, PolledPcs, VsyncPcs, VsyncCallback, histogram,
                   poller, mainThread, frames, vsync
<1>5. OnTime'
  BY Constants DEF Base, Types, Control, OnTime, PolledPcs, VsyncPcs, VsyncCallback, histogram,
                   poller, mainThread, frames, vsync
<1> QED BY <1>3, <1>4, <1>5 DEF Base

LEMMA SleepUntilTargetBase ==
  ASSUME Base, SleepUntilTarget
  PROVE  Base'
<1>1. Histogram' /\ (build' = "polled" => histogramSize' >= 1)
  BY DEF Base, Types, Histogram, SleepUntilTarget, histogram, mainThread, frames, vsync, Awake
<1>2. skips' \in Seq(Start..now')
  BY DEF Base, Types, SleepUntilTarget, histogram, mainThread, frames, vsync, Awake
<1>3. Types'
  BY <1>1, <1>2, Constants DEF Base, Types, Control, OnTime, SleepUntilTarget, histogram,
                               mainThread, frames, vsync, Greatest, Awake
<1>4. Control' /\ nextVsync' \in Nat
  BY Constants DEF Base, Types, Control, OnTime, PolledPcs, VsyncPcs, SleepUntilTarget, histogram,
                   mainThread, frames, vsync, Greatest, Awake
<1>5. OnTime'
  BY Constants DEF Base, Types, Control, OnTime, PolledPcs, VsyncPcs, SleepUntilTarget, histogram,
                   mainThread, frames, vsync, Greatest, Awake
<1> QED BY <1>3, <1>4, <1>5 DEF Base

LEMMA PredictBase ==
  ASSUME Base, Predict
  PROVE  Base'
<1>1. Histogram' /\ (build' = "polled" => histogramSize' >= 1)
  BY ShrunkIsSize, Constants DEF Base, Types, Histogram, Predict, mainThread, frames, vsync
<1>2. skips' \in Seq(Start..now')
  BY DEF Base, Types, Predict, mainThread, frames, vsync, Awake, IdlePoll
<1>3. Types'
  BY <1>1, <1>2, Constants DEF Base, Types, Control, OnTime, Predict, mainThread, frames, vsync,
                               Greatest, Awake, IdlePoll
<1>4. Control' /\ nextVsync' \in Nat
  BY Constants DEF Base, Types, Control, OnTime, PolledPcs, VsyncPcs, Predict, mainThread, frames,
                   vsync, Greatest, Awake, IdlePoll
<1>5. OnTime'
  BY Constants DEF Base, Types, Control, OnTime, PolledPcs, VsyncPcs, Predict, mainThread, frames,
                   vsync, Greatest, Awake, IdlePoll
<1> QED BY <1>3, <1>4, <1>5 DEF Base

LEMMA EstimateBase ==
  ASSUME Base, Estimate
  PROVE  Base'
<1>0. NextArrival(EstimateFrameRateInterval(now)) \in Int
  <2>1. /\ Histogram /\ eager \in Nat /\ lastFramePollTime \in Nat /\ now \in Nat
        /\ timeNow \in Nat
    BY Constants DEF Base, Types
  <2>2. mostRecentFrame(timeNow) \in Nat
    BY <2>1, Constants DEF mostRecentFrame, Histogram, Times
  <2>3. EstimateFrameRateInterval(now) \in Nat \ {0}
    BY <2>1, EstimateIsInterval
  <2> QED BY <2>1, <2>2, <2>3, NextArrivalIsSoon
<1>1. Histogram' /\ (build' = "polled" => histogramSize' >= 1)
  BY ShrunkIsSize, Constants DEF Base, Types, Histogram, Estimate, mainThread, frames, vsync
<1>2. skips' \in Seq(Start..now')
  BY DEF Base, Types, Estimate, mainThread, frames, vsync, Awake
<1>3. Types'
  BY <1>0, <1>1, <1>2, Constants DEF Base, Types, Control, OnTime, Estimate, mainThread, frames,
                                     vsync, Greatest, Awake
<1>4. Control' /\ nextVsync' \in Nat
  BY <1>0, Constants DEF Base, Types, Control, OnTime, PolledPcs, VsyncPcs, Estimate, mainThread,
                         frames, vsync, Greatest, Awake
<1>5. OnTime'
  BY <1>0, Constants DEF Base, Types, Control, OnTime, PolledPcs, VsyncPcs, Estimate, mainThread,
                         frames, vsync, Greatest, Awake
<1> QED BY <1>3, <1>4, <1>5 DEF Base

LEMMA SnapshotBase ==
  ASSUME Base, Snapshot
  PROVE  Base'
<1>1. Histogram' /\ (build' = "polled" => histogramSize' >= 1)
  BY DEF Base, Types, Histogram, Snapshot, histogram, mainThread, frames, vsync, Awake
<1>2. skips' \in Seq(Start..now')
  BY DEF Base, Types, Snapshot, histogram, mainThread, frames, vsync, Awake
<1>3. Types'
  BY <1>1, <1>2, Constants DEF Base, Types, Control, OnTime, Snapshot, histogram, mainThread,
                               frames, vsync, Awake
<1>4. Control' /\ nextVsync' \in Nat
  BY Constants DEF Base, Types, Control, OnTime, PolledPcs, VsyncPcs, Snapshot, histogram,
                   mainThread, frames, vsync, Awake
<1>5. OnTime'
  BY Constants DEF Base, Types, Control, OnTime, PolledPcs, VsyncPcs, Snapshot, histogram,
                   mainThread, frames, vsync, Awake
<1> QED BY <1>3, <1>4, <1>5 DEF Base

LEMMA NewFramebufferBase ==
  ASSUME Base, NewFramebuffer
  PROVE  Base'
<1>1. Histogram' /\ (build' = "polled" => histogramSize' >= 1)
  <2>1. lastFramePollTime \in Times
    BY Constants DEF Base, Types, Control, Times, NewFramebuffer, Awake
  <2>2. Histogram /\ histogramSize \in 0..HistogramSize
    BY DEF Base, Types, Histogram
  <2>3. AddHistogramSample(lastFramePollTime, histogramSize)
    BY DEF NewFramebuffer
  <2> QED BY <2>1, <2>2, <2>3, SampleAdded, Constants DEF Histogram
<1>2. skips' \in Seq(Start..now')
  BY DEF Base, Types, NewFramebuffer, mainThread, frames, vsync, Awake
<1>3. Types'
  <2>1. /\ build' = build /\ now' = now /\ lastFramePollTime' = lastFramePollTime
        /\ pWake' = pWake /\ mWake' = mWake /\ timeNow' = timeNow /\ giveUp' = giveUp
        /\ got' = got /\ taken' = taken /\ interlacedUpdate' = interlacedUpdate
        /\ fresh' = FALSE /\ received' = lastFramePollTime /\ eager' = eager + 1
        /\ numNewGpuFrames' = numNewGpuFrames + 1 /\ pPc = "compare"
    BY DEF NewFramebuffer, mainThread, frames, Awake
  <2>2. lastFramePollTime \in Start..now + 1
    BY <2>1 DEF Base, Types, Control
  <2>3. /\ now' \in Start..MaxTime /\ lastFramePollTime' \in {0} \cup Start..now' + 1
        /\ pWake' \in Nat /\ mWake' \in Nat /\ timeNow' \in Nat /\ giveUp' \in Nat
        /\ received' \in Start..now' + 1 /\ eager' \in Nat
        /\ numNewGpuFrames' \in Nat /\ taken' \in Nat /\ interlacedUpdate' \in 0..MaxInterlaced
    BY <2>1, <2>2, Constants DEF Base, Types
  <2>4. build' \in Builds /\ fresh' \in BOOLEAN /\ got' \in BOOLEAN
    BY <2>1 DEF Base, Types
  <2> QED BY <1>1, <1>2, <2>3, <2>4, Zenon DEF Types
<1>4. Control' /\ nextVsync' \in Nat
  BY Constants DEF Base, Types, Control, OnTime, PolledPcs, VsyncPcs, NewFramebuffer, mainThread,
                   frames, vsync, Awake
<1>5. OnTime'
  BY Constants DEF Base, Types, Control, OnTime, PolledPcs, VsyncPcs, NewFramebuffer, mainThread,
                   frames, vsync, Awake
<1> QED BY <1>3, <1>4, <1>5 DEF Base

LEMMA SameFramebufferBase ==
  ASSUME Base, SameFramebuffer
  PROVE  Base'
<1>1. Histogram' /\ (build' = "polled" => histogramSize' >= 1)
  BY DEF Base, Types, Histogram, SameFramebuffer, histogram, mainThread, frames, vsync, Awake
<1>2. skips' \in Seq(Start..now')
  BY DEF Base, Types, SameFramebuffer, histogram, mainThread, frames, vsync, Awake
<1>3. Types'
  BY <1>1, <1>2, Constants DEF Base, Types, Control, OnTime, SameFramebuffer, histogram,
                               mainThread, frames, vsync, Awake
<1>4. Control' /\ nextVsync' \in Nat
  BY Constants DEF Base, Types, Control, OnTime, PolledPcs, VsyncPcs, SameFramebuffer, histogram,
                   mainThread, frames, vsync, Awake
<1>5. OnTime'
  BY Constants DEF Base, Types, Control, OnTime, PolledPcs, VsyncPcs, SameFramebuffer, histogram,
                   mainThread, frames, vsync, Awake
<1> QED BY <1>3, <1>4, <1>5 DEF Base

LEMMA MainWaitBase ==
  ASSUME Base, MainWait
  PROVE  Base'
<1>1. Histogram' /\ (build' = "polled" => histogramSize' >= 1)
  BY DEF Base, Types, Histogram, MainWait, histogram, poller, frames, vsync, SomeFrame
<1>2. skips' \in Seq(Start..now')
  BY DEF Base, Types, MainWait, histogram, poller, frames, vsync, SomeFrame
<1>3. Types'
  BY <1>1, <1>2, Constants DEF Base, Types, Control, OnTime, MainWait, histogram, poller, frames,
                               vsync, SomeFrame
<1>4. Control' /\ nextVsync' \in Nat
  BY Constants DEF Base, Types, Control, OnTime, PolledPcs, VsyncPcs, MainWait, histogram, poller,
                   frames, vsync, SomeFrame
<1>5. OnTime'
  BY Constants DEF Base, Types, Control, OnTime, PolledPcs, VsyncPcs, MainWait, histogram, poller,
                   frames, vsync, SomeFrame
<1> QED BY <1>3, <1>4, <1>5 DEF Base

LEMMA MainTakesFramesBase ==
  ASSUME Base, MainTakesFrames
  PROVE  Base'
<1>1. Histogram' /\ (build' = "polled" => histogramSize' >= 1)
  BY DEF Base, Types, Histogram, MainTakesFrames, histogram, poller, vsync
<1>2. skips' \in Seq(Start..now')
  BY SkipsAreTimes, Zenon DEF Base, Types, MainTakesFrames
<1>3. Types'
  BY <1>1, <1>2, Constants DEF Base, Types, Control, OnTime, MainTakesFrames, histogram, poller,
                               vsync, Greatest
<1>4. Control' /\ nextVsync' \in Nat
  BY Constants DEF Base, Types, Control, OnTime, PolledPcs, VsyncPcs, MainTakesFrames, histogram,
                   poller, vsync, Greatest
<1>5. OnTime'
  BY Constants DEF Base, Types, Control, OnTime, PolledPcs, VsyncPcs, MainTakesFrames, histogram,
                   poller, vsync, Greatest
<1> QED BY <1>3, <1>4, <1>5 DEF Base

LEMMA MainEstimatesBase ==
  ASSUME Base, MainEstimates
  PROVE  Base'
<1>1. Histogram' /\ (build' = "polled" => histogramSize' >= 1)
  BY ShrunkIsSize, Constants DEF Base, Types, Histogram, MainEstimates, poller, vsync
<1>2. skips' \in Seq(Start..now')
  BY DEF Base, Types, MainEstimates, poller, vsync, Interlaced
<1>3. Types'
  BY <1>1, <1>2, Constants DEF Base, Types, Control, OnTime, MainEstimates, poller, vsync,
                               Greatest, Interlaced
<1>4. Control' /\ nextVsync' \in Nat
  BY Constants DEF Base, Types, Control, OnTime, PolledPcs, VsyncPcs, MainEstimates, poller,
                   vsync, Greatest, Interlaced
<1>5. OnTime'
  BY Constants DEF Base, Types, Control, OnTime, PolledPcs, VsyncPcs, MainEstimates, poller,
                   vsync, Greatest, Interlaced
<1> QED BY <1>3, <1>4, <1>5 DEF Base

LEMMA PollerWaitBase ==
  ASSUME Base, PollerWait
  PROVE  Base'
<1>1. Histogram' /\ (build' = "polled" => histogramSize' >= 1)
  BY DEF Base, Types, Histogram, PollerWait, histogram, mainThread, frames, vsync, SomeFrame
<1>2. skips' \in Seq(Start..now')
  BY DEF Base, Types, PollerWait, histogram, mainThread, frames, vsync, SomeFrame
<1>3. Types'
  BY <1>1, <1>2, Constants DEF Base, Types, Control, OnTime, PollerWait, histogram, mainThread,
                               frames, vsync, SomeFrame
<1>4. Control' /\ nextVsync' \in Nat
  BY Constants DEF Base, Types, Control, OnTime, PolledPcs, VsyncPcs, PollerWait, histogram,
                   mainThread, frames, vsync, SomeFrame
<1>5. OnTime'
  BY Constants DEF Base, Types, Control, OnTime, PolledPcs, VsyncPcs, PollerWait, histogram,
                   mainThread, frames, vsync, SomeFrame
<1> QED BY <1>3, <1>4, <1>5 DEF Base

LEMMA PollerLoadsFramesBase ==
  ASSUME Base, PollerLoadsFrames
  PROVE  Base'
<1>1. Histogram' /\ (build' = "polled" => histogramSize' >= 1)
  BY DEF Base, Types, Histogram, PollerLoadsFrames, histogram, mainThread, vsync, Awake
<1>2. skips' \in Seq(Start..now')
  BY SkipsAreTimes, Zenon DEF Base, PollerLoadsFrames
<1>3. Types'
  BY <1>1, <1>2, Constants DEF Base, Types, Control, OnTime, PollerLoadsFrames, histogram,
                               mainThread, vsync, Awake
<1>4. Control' /\ nextVsync' \in Nat
  BY Constants DEF Base, Types, Control, OnTime, PolledPcs, VsyncPcs, PollerLoadsFrames,
                   histogram, mainThread, vsync, Awake
<1>5. OnTime'
  BY Constants DEF Base, Types, Control, OnTime, PolledPcs, VsyncPcs, PollerLoadsFrames,
                   histogram, mainThread, vsync, Awake
<1> QED BY <1>3, <1>4, <1>5 DEF Base

LEMMA PollerTakesFramesBase ==
  ASSUME Base, PollerTakesFrames
  PROVE  Base'
<1>1. Histogram' /\ (build' = "polled" => histogramSize' >= 1)
  BY DEF Base, Types, Histogram, PollerTakesFrames, histogram, mainThread, vsync, Awake
<1>2. skips' \in Seq(Start..now')
  BY SkipsAreTimes, Zenon DEF Base, Types, PollerTakesFrames
<1>3. Types'
  BY <1>1, <1>2, Constants DEF Base, Types, Control, OnTime, PollerTakesFrames, histogram,
                               mainThread, vsync, Greatest, Awake
<1>4. Control' /\ nextVsync' \in Nat
  BY Constants DEF Base, Types, Control, OnTime, PolledPcs, VsyncPcs, PollerTakesFrames,
                   histogram, mainThread, vsync, Greatest, Awake
<1>5. OnTime'
  BY Constants DEF Base, Types, Control, OnTime, PolledPcs, VsyncPcs, PollerTakesFrames,
                   histogram, mainThread, vsync, Greatest, Awake
<1> QED BY <1>3, <1>4, <1>5 DEF Base

LEMMA SnapshotAgainBase ==
  ASSUME Base, SnapshotAgain
  PROVE  Base'
<1>1. Histogram' /\ (build' = "polled" => histogramSize' >= 1)
  BY DEF Base, Types, Histogram, SnapshotAgain, histogram, mainThread, frames, vsync, Awake
<1>2. skips' \in Seq(Start..now')
  BY DEF Base, Types, SnapshotAgain, histogram, mainThread, frames, vsync, Awake
<1>3. Types'
  BY <1>1, <1>2, Constants DEF Base, Types, Control, OnTime, SnapshotAgain, histogram, mainThread,
                               frames, vsync, Awake
<1>4. Control' /\ nextVsync' \in Nat
  BY Constants DEF Base, Types, Control, OnTime, PolledPcs, VsyncPcs, SnapshotAgain, histogram,
                   mainThread, frames, vsync, Awake
<1>5. OnTime'
  BY Constants DEF Base, Types, Control, OnTime, PolledPcs, VsyncPcs, SnapshotAgain, histogram,
                   mainThread, frames, vsync, Awake
<1> QED BY <1>3, <1>4, <1>5 DEF Base

LEMMA StopLookingBase ==
  ASSUME Base, StopLooking
  PROVE  Base'
<1>1. Histogram' /\ (build' = "polled" => histogramSize' >= 1)
  BY DEF Base, Types, Histogram, StopLooking, histogram, mainThread, vsync, Awake
<1>2. skips' \in Seq(Start..now')
  BY SkipsAreTimes, Zenon DEF Base, Types, StopLooking
<1>3. Types'
  BY <1>1, <1>2, Constants DEF Base, Types, Control, OnTime, StopLooking, histogram, mainThread,
                               vsync, Greatest, Awake
<1>4. Control' /\ nextVsync' \in Nat
  BY Constants DEF Base, Types, Control, OnTime, PolledPcs, VsyncPcs, StopLooking, histogram,
                   mainThread, vsync, Greatest, Awake
<1>5. OnTime'
  BY Constants DEF Base, Types, Control, OnTime, PolledPcs, VsyncPcs, StopLooking, histogram,
                   mainThread, vsync, Greatest, Awake
<1> QED BY <1>3, <1>4, <1>5 DEF Base

LEMMA PollerSendsBase ==
  ASSUME Base, PollerSends
  PROVE  Base'
<1>0. build' = build /\ build # "polled"
  BY DEF PollerSends, Base, Control, PolledPcs
<1>1. Histogram' /\ (build' = "polled" => histogramSize' >= 1)
  <2>1. Histogram /\ Shrunk(now) \in 0..HistogramSize
    <3>1. Histogram
      BY DEF Base, Types
    <3>2. Shrunk(now) \in 0..histogramSize
      BY <3>1, ShrunkIsSize
    <3> QED BY <3>1, <3>2, Constants DEF Histogram
  <2>2. CASE histogramSize' = Shrunk(now) /\ UNCHANGED arrivals
    BY <2>1, <2>2, <1>0 DEF Histogram
  <2>3. CASE \E t \in {received} \cup Uninitialized : AddHistogramSample(t, Shrunk(now))
    <3>1. {received} \cup Uninitialized \subseteq Times
      BY Constants DEF Base, Types, Control, Times
    <3>2. PICK t \in Times : AddHistogramSample(t, Shrunk(now))
      BY <2>3, <3>1
    <3> QED BY <1>0, <2>1, <3>2, SampleAdded DEF Histogram
  <2> QED BY <2>2, <2>3 DEF PollerSends
<1>2. skips' \in Seq(Start..now')
  BY DEF Base, Types, PollerSends, mainThread, vsync, Interlaced
<1>3. Types'
  <2>1. /\ build' = build /\ now' = now /\ lastFramePollTime' = lastFramePollTime
        /\ pWake' = pWake /\ mWake' = mWake /\ timeNow' = timeNow /\ giveUp' = giveUp
        /\ got' = FALSE /\ taken' = 0 /\ interlacedUpdate' \in Interlaced
        /\ fresh' = fresh /\ received' = received /\ eager' = eager
        /\ numNewGpuFrames' = numNewGpuFrames
    BY DEF PollerSends, mainThread
  <2>2. interlacedUpdate' \in 0..MaxInterlaced
    BY <2>1, Constants DEF Base, Types, Interlaced, Greatest
  <2> QED BY <1>1, <1>2, <2>1, <2>2, Constants DEF Base, Types
<1>4. Control' /\ nextVsync' \in Nat
  BY Constants DEF Base, Types, Control, OnTime, PolledPcs, VsyncPcs, PollerSends, mainThread,
                   vsync, Greatest, Interlaced
<1>5. OnTime'
  <2>1. /\ now' = now /\ pPc' = "wait" /\ mWake' = mWake /\ mPc' = mPc /\ nextVsync' = nextVsync
        /\ build' = build /\ pWake' = pWake /\ pPc = "send" /\ build = "vsync" /\ mPc = "wait"
    BY Constants DEF PollerSends, mainThread, vsync, Base, Types, Control, PolledPcs
  <2> QED BY <2>1 DEF Base, OnTime
<1> QED BY <1>3, <1>4, <1>5 DEF Base

LEMMA BaseStep == ASSUME Base, [Next]_vars PROVE Base'
BY Unchanged, TickBase, RenderFrameBase, VsyncCallbackBase, SleepUntilTargetBase, PredictBase,
   EstimateBase, SnapshotBase, NewFramebufferBase, SameFramebufferBase, MainWaitBase,
   MainTakesFramesBase, MainEstimatesBase, PollerWaitBase, PollerLoadsFramesBase,
   PollerTakesFramesBase, SnapshotAgainBase, StopLookingBase, PollerSendsBase, Zenon DEF Next

\* Nobody sleeps beyond the end of its sleep, no poll lies ahead, and a thread that has lost the
\* processor in a prediction goes on in time.
THEOREM BaseInvariant == Spec => []Base
<1>1. Base /\ [Next]_vars => Base'
  BY BaseStep
<1> QED BY InitBase, <1>1, PTL DEF Spec

\* The histogram keeps its bounds, the prediction and the estimate are numbers, main takes no
\* more frames than were counted, and no time is entered that lies ahead.
THEOREM TypeCorrect == Spec => []TypeOK
<1>1. Base => TypeOK
  <2> SUFFICES ASSUME Base PROVE TypeOK
    OBVIOUS
  <2>1. Types /\ Histogram
    BY DEF Base, Types
  <2>2. DOMAIN arrivals = 0..HistogramSize - 1
    BY <2>1 DEF Histogram
  <2>3. histogramSize \in (IF build = "polled" THEN 1 ELSE 0)..HistogramSize
    BY <2>1, Constants DEF Types, Histogram
  <2>4. received \in Nat
    BY <2>1, Constants DEF Types
  <2>5. \A n \in DOMAIN skips : skips[n] \in Start..now
    <3>1. skips \in Seq(Start..now) /\ DOMAIN skips = 1..Len(skips)
      BY <2>1, LenProperties DEF Types
    <3> QED BY <3>1, ElementOfSeq
  <2> QED BY <2>1, <2>2, <2>3, <2>4, <2>5 DEF TypeOK, Types
<1> QED BY <1>1, BaseInvariant, PTL

-----------------------------------------------------------------------------
(* The order of the histogram *)

\* What each step does to the histogram and to the times that are entered in it.
LEMMA HistogramMoves ==
  ASSUME Base, Next, ~NewFramebuffer, ~PollerSends
  PROVE  arrivals' = arrivals /\ (histogramSize' = histogramSize \/ histogramSize' = Shrunk(now))
BY Zenon DEF Next, histogram, Tick, RenderFrame, VsyncCallback, SleepUntilTarget, Predict,
   Estimate, Snapshot, SameFramebuffer, MainWait, MainTakesFrames, MainEstimates, PollerWait,
   PollerLoadsFrames, PollerTakesFrames, SnapshotAgain, StopLooking

LEMMA TimeMoves ==
  ASSUME Base, Next
  PROVE  /\ build' = build
         /\ ~Tick => now' = now
         /\ pPc' = "compare" =>
               Snapshot \/ (pPc = "compare" /\ lastFramePollTime' = lastFramePollTime)
         /\ received' = received \/ NewFramebuffer \/ PollerLoadsFrames \/ SnapshotAgain
<1>1. build' = build /\ (~Tick => now' = now)
  BY Zenon DEF Next, poller, Tick, RenderFrame, VsyncCallback, SleepUntilTarget, Predict,
   Estimate, Snapshot, NewFramebuffer, SameFramebuffer, MainWait, MainTakesFrames, MainEstimates,
   PollerWait, PollerLoadsFrames, PollerTakesFrames, SnapshotAgain, StopLooking, PollerSends
<1>2. pPc' = "compare" => Snapshot \/ (pPc = "compare" /\ lastFramePollTime' = lastFramePollTime)
  <2> SUFFICES ASSUME pPc' = "compare", ~Snapshot
               PROVE  pPc = "compare" /\ lastFramePollTime' = lastFramePollTime
    OBVIOUS
  <2>1. CASE Tick \/ RenderFrame \/ VsyncCallback \/ MainWait \/ MainTakesFrames \/ MainEstimates
    BY <2>1 DEF poller, Tick, RenderFrame, VsyncCallback, MainWait, MainTakesFrames, MainEstimates
  <2>2. CASE SleepUntilTarget \/ Predict \/ Estimate \/ NewFramebuffer \/ SameFramebuffer
    BY <2>2 DEF SleepUntilTarget, Predict, Estimate, NewFramebuffer, SameFramebuffer
  <2>3. CASE PollerWait \/ PollerLoadsFrames \/ PollerTakesFrames \/ SnapshotAgain
             \/ StopLooking \/ PollerSends
    BY <2>3 DEF PollerWait, PollerLoadsFrames, PollerTakesFrames, SnapshotAgain, StopLooking,
                PollerSends, Awake
  <2> QED BY <2>1, <2>2, <2>3, Zenon DEF Next
<1>3. received' = received \/ NewFramebuffer \/ PollerLoadsFrames \/ SnapshotAgain
  BY Zenon DEF Next, poller, Tick, RenderFrame, VsyncCallback, SleepUntilTarget, Predict,
   Estimate, Snapshot, SameFramebuffer, MainWait, MainTakesFrames, MainEstimates, PollerWait,
   PollerTakesFrames, StopLooking, PollerSends
<1> QED BY <1>1, <1>2, <1>3

\* gpu_polling_thread enters its own readings of the timer, and began with others as much apart.
ClockOrder ==
  /\ \A i \in 1..HistogramSize - 1 : arrivals[i] <= arrivals[i - 1]
  /\ arrivals[0] <= now
  /\ pPc = "compare" => arrivals[0] <= lastFramePollTime

Young == histogramSize > 0 => Age(arrivals[0], arrivals[histogramSize - 1]) <= MaxSampleAge

LEMMA FirstIsYoung == ASSUME Base PROVE Age(arrivals[0], arrivals[0]) = 0
<1>1. arrivals[0] \in Nat /\ arrivals[0] < TimeModulus
  BY Constants DEF Base, Types, Histogram, Times
<1> QED BY <1>1, AgeOfEarlier

\* What a deep sleep leaves is a single entry.
LEMMA YoungKept ==
  ASSUME Base, Young, arrivals' = arrivals,
         histogramSize' = histogramSize \/ histogramSize' = Shrunk(now)
  PROVE  Young'
<1>1. histogramSize' = histogramSize \/ histogramSize' = 1
  BY DEF Shrunk
<1>2. CASE histogramSize' = histogramSize
  BY <1>2 DEF Young
<1>3. CASE histogramSize' = 1
  BY <1>3, FirstIsYoung, Constants DEF Young
<1> QED BY <1>1, <1>2, <1>3

PolledOrder == build = "polled" => ClockOrder /\ Young

LEMMA InitPolledOrder == ASSUME Init PROVE PolledOrder
<1> SUFFICES ASSUME build = "polled" PROVE ClockOrder /\ Young
  BY DEF PolledOrder
<1>1. Base
  BY InitBase
<1>2. /\ arrivals = [i \in 0..HistogramSize - 1 |-> Start - FrameInterval * (i + 1)]
      /\ histogramSize = Kept(arrivals, HistogramSize) /\ now = Start /\ pPc = "target"
  BY Zenon DEF Init
<1>3. ASSUME NEW i \in 1..HistogramSize - 1 PROVE arrivals[i] <= arrivals[i - 1]
  <2>1. /\ i \in Nat /\ FrameInterval \in Nat /\ Start \in Nat
        /\ i \in 0..HistogramSize - 1 /\ i - 1 \in 0..HistogramSize - 1
    BY Constants
  <2>2. arrivals[i] = Start - FrameInterval * (i + 1) /\ arrivals[i - 1] = Start - FrameInterval * i
    BY <1>2, <2>1
  <2>3. PICK a \in Nat : a = FrameInterval * i
    BY <2>1
  <2>4. FrameInterval * (i + 1) = a + FrameInterval
    BY <2>1, <2>3
  <2> QED BY <2>1, <2>2, <2>3, <2>4
<1>4. arrivals[0] <= now
  <2>1. arrivals[0] = Start - FrameInterval
    BY <1>2, Constants
  <2> QED BY <1>2, <2>1, Constants
<1>5. \A i \in 0..HistogramSize - 1 : arrivals[i] \in Nat
  BY <1>1 DEF Base, Types, Histogram, Times
<1>6. arrivals[0] < TimeModulus
  BY <1>1, Constants DEF Base, Types, Histogram, Times
<1>7. Young
  BY <1>2, <1>5, <1>6, KeptIsYoung, Constants DEF Young
<1> QED BY <1>2, <1>3, <1>4, <1>7 DEF ClockOrder

LEMMA SampleIsTime ==
  ASSUME Base, NewFramebuffer
  PROVE  lastFramePollTime \in Times /\ AddHistogramSample(lastFramePollTime, histogramSize)
BY Constants DEF Base, Types, Control, Times, NewFramebuffer, Awake

LEMMA PolledOrderStep == ASSUME Base, PolledOrder, [Next]_vars PROVE PolledOrder'
<1>1. CASE UNCHANGED vars
  BY <1>1 DEF PolledOrder, ClockOrder, Young, vars, histogram, poller
<1>2. CASE Next
  <2> SUFFICES ASSUME build' = "polled" PROVE (ClockOrder /\ Young)'
    BY DEF PolledOrder
  <2>1. build = "polled" /\ ClockOrder /\ Young
    BY <1>2, TimeMoves DEF PolledOrder
  <2>2. now \in Nat /\ arrivals[0] \in Nat /\ lastFramePollTime \in Nat
    BY Constants DEF Base, Types, Histogram, Times
  <2>3. ~PollerSends
    BY <2>1 DEF Base, Control, PolledPcs, PollerSends
  <2>4. CASE NewFramebuffer
    <3>1. /\ arrivals' \in [0..HistogramSize - 1 -> Times] /\ arrivals'[0] = lastFramePollTime
          /\ \A i \in 1..HistogramSize - 1 : arrivals'[i] = arrivals[i - 1]
          /\ Age(arrivals'[0], arrivals'[histogramSize' - 1]) <= MaxSampleAge
      BY <2>4, SampleIsTime, SampleAdded DEF Base, Types, Histogram
    <3>2. /\ arrivals[0] <= lastFramePollTime /\ lastFramePollTime <= now
          /\ now' = now /\ pPc' = "target"
      BY <2>1, <2>4 DEF NewFramebuffer, Awake, ClockOrder, Base, Control
    <3>3. ASSUME NEW i \in 1..HistogramSize - 1 PROVE arrivals'[i] <= arrivals'[i - 1]
      <4>1. CASE i = 1
        BY <3>1, <3>2, <4>1
      <4>2. CASE i # 1
        <5>1. i - 1 \in 1..HistogramSize - 1
          BY <4>2, Constants
        <5>2. arrivals'[i] = arrivals[i - 1] /\ arrivals'[i - 1] = arrivals[i - 1 - 1]
          BY <3>1, <5>1
        <5> QED BY <2>1, <5>1, <5>2 DEF ClockOrder
      <4> QED BY <4>1, <4>2
    <3>4. Young'
      BY <3>1 DEF Young
    <3> QED BY <3>1, <3>2, <3>3, <3>4 DEF ClockOrder
  <2>5. CASE ~NewFramebuffer
    <3>1. arrivals' = arrivals /\ (histogramSize' = histogramSize \/ histogramSize' = Shrunk(now))
      BY <1>2, <2>3, <2>5, HistogramMoves
    <3>2. Young'
      BY <2>1, <3>1, YoungKept
    <3>3. now' >= now
      BY <1>2, <2>2, TimeMoves DEF Tick
    <3>4. pPc' = "compare" => arrivals[0] <= lastFramePollTime'
      BY <1>2, <2>1, TimeMoves DEF Snapshot, ClockOrder
    <3>5. now' \in Nat
      BY <1>2, <2>2, TimeMoves DEF Tick
    <3> QED BY <2>1, <2>2, <3>1, <3>2, <3>3, <3>4, <3>5 DEF ClockOrder
  <2> QED BY <2>4, <2>5
<1> QED BY <1>1, <1>2

LEMMA PolledOrderInvariant == Spec => []PolledOrder
<1>1. Init => PolledOrder
  BY InitPolledOrder
<1>2. Base /\ PolledOrder /\ [Next]_vars => PolledOrder'
  BY PolledOrderStep
<1> QED BY <1>1, <1>2, BaseInvariant, PTL DEF Spec

\* Without vsync the entries of the histogram that count are always in order and none is too
\* old, although the main thread may cut it short as well.
THEOREM PolledHistogramSound == Spec => [](build = "polled" => HistogramSound)
<1>1. Base /\ PolledOrder => (build = "polled" => HistogramSound)
  <2> SUFFICES ASSUME Base, PolledOrder, build = "polled" PROVE HistogramSound
    OBVIOUS
  <2>1. ClockOrder /\ Young /\ histogramSize \in 0..HistogramSize
    BY DEF PolledOrder, Base, Types, Histogram
  <2>2. 1..histogramSize - 1 \subseteq 1..HistogramSize - 1
    BY <2>1, Constants
  <2> QED BY <2>1, <2>2 DEF ClockOrder, Young, HistogramSound
<1> QED BY <1>1, BaseInvariant, PolledOrderInvariant, PTL

\* What an uninitialized variable holds is far from any time since the program was started, and
\* no two such values are near each other.
FarFromClock ==
  \A u \in Uninitialized :
    /\ \A t \in Start..MaxTime : Age(t, u) > MaxSampleAge /\ Age(u, t) > MaxSampleAge
    /\ \A v \in Uninitialized : v # u => Age(u, v) > MaxSampleAge

\* With vsync the entries that count are either all readings of the timer, in order, or all the
\* same that nobody has read: a change from one to the other makes the older ones too old.
Read(times, size, r) ==
  /\ \A i \in 0..size - 1 : times[i] \in Start..r
  /\ \A i \in 1..size - 1 : times[i] <= times[i - 1]
Same(times, size, u) == \A i \in 0..size - 1 : times[i] = u
Stretch(times, size, r) ==
  Read(times, size, r) \/ \E u \in Uninitialized : Same(times, size, u)

VsyncOrder == build = "vsync" => Stretch(arrivals, histogramSize, received) /\ Young

LEMMA InitVsyncOrder == ASSUME Init PROVE VsyncOrder
<1> SUFFICES ASSUME build = "vsync" PROVE Stretch(arrivals, histogramSize, received) /\ Young
  BY DEF VsyncOrder
<1>1. histogramSize = 0
  BY DEF Init
<1>2. Read(arrivals, histogramSize, received)
  BY <1>1 DEF Read
<1>3. Young
  BY <1>1 DEF Young
<1> QED BY <1>2, <1>3 DEF Stretch

\* A histogram that loses entries keeps its kind.
LEMMA StretchKept ==
  ASSUME NEW times, NEW n \in Nat, NEW h \in Nat, h <= n, NEW r \in Nat, NEW s \in Nat, r <= s,
         Stretch(times, n, r)
  PROVE  Stretch(times, h, s)
<1>1. 0..h - 1 \subseteq 0..n - 1 /\ 1..h - 1 \subseteq 1..n - 1
  OBVIOUS
<1>2. CASE Read(times, n, r)
  <2>1. ASSUME NEW i \in 0..h - 1 PROVE times[i] \in Start..s
    <3>1. times[i] \in Start..r
      BY <1>1, <1>2 DEF Read
    <3> QED BY <3>1, Constants
  <2> QED BY <1>1, <1>2, <2>1 DEF Stretch, Read
<1>3. CASE \E u \in Uninitialized : Same(times, n, u)
  BY <1>1, <1>3 DEF Stretch, Same
<1> QED BY <1>2, <1>3 DEF Stretch

\* A sample that is far from the older ones stands alone.
LEMMA StretchBegins ==
  ASSUME FarFromClock, NEW r \in Start..MaxTime, NEW t \in {r} \cup Uninitialized,
         NEW old, NEW new, NEW n \in Nat, NEW h \in Nat \ {0}, h <= n + 1,
         new[0] = t, \A i \in 1..h - 1 : new[i] = old[i - 1],
         Age(t, new[h - 1]) <= MaxSampleAge, Stretch(old, n, r)
  PROVE  Stretch(new, h, r)
<1>1. r \in Nat /\ t \in Nat /\ Start \in Nat
  BY Constants
<1>2. ASSUME NEW i \in 0..h - 1, i # 0
      PROVE  i \in 1..h - 1 /\ i - 1 \in 0..n - 1 /\ new[i] = old[i - 1]
  BY <1>2
<1>3. ASSUME h = 1 PROVE Stretch(new, h, r)
  <2>1. CASE t = r
    BY <1>1, <1>3, <2>1 DEF Stretch, Read
  <2>2. CASE t \in Uninitialized
    BY <1>3, <2>2 DEF Stretch, Same
  <2> QED BY <2>1, <2>2
<1>4. ASSUME NEW u \in Nat, Age(t, u) > MaxSampleAge, new[h - 1] = u
      PROVE  FALSE
  <2>1. Age(t, u) \in Nat
    <3>1. t \in Int /\ u \in Int
      BY <1>1
    <3> QED BY <3>1, AgeIsNat
  <2> QED BY <1>4, <2>1, Constants
<1>5. ASSUME h # 1 PROVE new[h - 1] = old[h - 1 - 1] /\ h - 1 - 1 \in 0..n - 1
  <2>1. h - 1 \in 0..h - 1 /\ h - 1 # 0
    BY <1>5
  <2> QED BY <1>2, <2>1
<1>6. CASE Read(old, n, r) /\ t = r
  <2>1. ASSUME NEW i \in 0..h - 1 PROVE new[i] \in Start..r
    <3>1. CASE i = 0
      BY <1>1, <1>6, <3>1
    <3>2. CASE i # 0
      BY <1>2, <1>6, <3>2 DEF Read
    <3> QED BY <3>1, <3>2
  <2>2. ASSUME NEW i \in 1..h - 1 PROVE new[i] <= new[i - 1]
    <3>1. i \in 0..h - 1 /\ i # 0
      OBVIOUS
    <3>2. new[i] = old[i - 1] /\ i - 1 \in 0..n - 1
      BY <1>2, <3>1
    <3>3. CASE i = 1
      <4>1. old[0] \in Start..r
        BY <1>6, <3>2, <3>3 DEF Read
      <4> QED BY <1>1, <1>6, <3>2, <3>3, <4>1
    <3>4. CASE i # 1
      <4>1. i - 1 \in 0..h - 1 /\ i - 1 # 0 /\ i - 1 \in 1..n - 1
        BY <3>2, <3>4
      <4>2. new[i - 1] = old[i - 1 - 1]
        BY <1>2, <4>1
      <4>3. old[i - 1] <= old[i - 1 - 1]
        BY <1>6, <4>1 DEF Read
      <4> QED BY <3>2, <4>2, <4>3
    <3> QED BY <3>3, <3>4
  <2> QED BY <2>1, <2>2 DEF Stretch, Read
<1>7. CASE Read(old, n, r) /\ t \in Uninitialized
  <2>1. h = 1
    <3> SUFFICES ASSUME h # 1 PROVE FALSE
      OBVIOUS
    <3>1. PICK u \in Nat : u = new[h - 1] /\ u \in Start..MaxTime
      <4>1. new[h - 1] \in Start..r
        BY <1>5, <1>7 DEF Read
      <4> QED BY <1>1, <4>1, Constants
    <3>2. Age(t, u) > MaxSampleAge
      BY <1>7, <3>1 DEF FarFromClock
    <3> QED BY <1>4, <3>1, <3>2
  <2> QED BY <1>3, <2>1
<1>8. ASSUME NEW u \in Uninitialized, Same(old, n, u)
      PROVE  Stretch(new, h, r)
  <2>1. CASE t = u
    <3>1. ASSUME NEW i \in 0..h - 1 PROVE new[i] = u
      <4>1. CASE i = 0
        BY <2>1, <4>1
      <4>2. CASE i # 0
        BY <1>2, <1>8, <4>2 DEF Same
      <4> QED BY <4>1, <4>2
    <3> QED BY <3>1 DEF Stretch, Same
  <2>2. CASE t # u
    <3>1. h = 1
      <4> SUFFICES ASSUME h # 1 PROVE FALSE
        OBVIOUS
      <4>1. new[h - 1] = u
        BY <1>5, <1>8 DEF Same
      <4>2. Age(t, u) > MaxSampleAge
        BY <2>2 DEF FarFromClock
      <4> QED BY <1>4, <4>1, <4>2, Constants
    <3> QED BY <1>3, <3>1
  <2> QED BY <2>1, <2>2
<1> QED BY <1>6, <1>7, <1>8 DEF Stretch

LEMMA ReceivedGrows == ASSUME Base, Next, build = "vsync" PROVE received' >= received
<1>1. received \in Nat /\ now \in Nat
  BY Constants DEF Base, Types
<1>2. ~NewFramebuffer
  BY DEF NewFramebuffer
<1>3. CASE PollerLoadsFrames
  BY <1>1, <1>3 DEF PollerLoadsFrames, Base, Control, Awake
<1>4. CASE SnapshotAgain
  BY <1>1, <1>4 DEF SnapshotAgain, Base, Types, Control, Awake
<1> QED BY <1>1, <1>2, <1>3, <1>4, TimeMoves

LEMMA VsyncOrderStep ==
  ASSUME FarFromClock, Base, VsyncOrder, [Next]_vars
  PROVE  VsyncOrder'
<1>1. CASE UNCHANGED vars
  BY <1>1 DEF VsyncOrder, Young, vars, histogram, poller
<1>2. CASE Next
  <2> SUFFICES ASSUME build' = "vsync"
               PROVE  Stretch(arrivals', histogramSize', received') /\ Young'
    BY DEF VsyncOrder
  <2>1. build = "vsync" /\ Stretch(arrivals, histogramSize, received) /\ Young
    BY <1>2, TimeMoves DEF VsyncOrder
  <2>2. ~NewFramebuffer
    BY <2>1 DEF NewFramebuffer
  <2>3. Histogram /\ histogramSize \in Nat /\ received \in Nat /\ Shrunk(now) \in 0..histogramSize
    <3>1. Histogram /\ received \in Nat
      BY Constants DEF Base, Types
    <3> QED BY <3>1, ShrunkIsSize, Constants DEF Histogram
  <2>4. CASE ~PollerSends \/ (arrivals' = arrivals /\ histogramSize' = Shrunk(now))
    <3>1. arrivals' = arrivals /\ (histogramSize' = histogramSize \/ histogramSize' = Shrunk(now))
      BY <1>2, <2>2, <2>4, HistogramMoves
    <3>2. Young'
      BY <2>1, <3>1, YoungKept
    <3>3. histogramSize' \in Nat /\ histogramSize' <= histogramSize
      BY <2>3, <3>1
    <3>4. received' \in Nat /\ received <= received'
      <4>1. Base'
        BY BaseStep
      <4>2. received' \in Nat
        BY <4>1, Constants DEF Base, Types
      <4> QED BY <1>2, <2>1, <2>3, <4>2, ReceivedGrows
    <3> QED BY <2>1, <2>3, <3>1, <3>2, <3>3, <3>4, StretchKept
  <2>5. CASE PollerSends /\ ~(arrivals' = arrivals /\ histogramSize' = Shrunk(now))
    <3>1. PICK t \in {received} \cup Uninitialized : AddHistogramSample(t, Shrunk(now))
      BY <2>5 DEF PollerSends
    <3>2. received \in Start..MaxTime /\ received' = received
      BY <2>5, Constants DEF PollerSends, Base, Types, Control
    <3>3. t \in Times
      BY <3>1, <3>2, Constants DEF Times
    <3>4. Shrunk(now) \in 0..HistogramSize
      BY <2>3, Constants DEF Histogram
    <3>5. /\ arrivals' \in [0..HistogramSize - 1 -> Times] /\ arrivals'[0] = t
          /\ \A i \in 1..HistogramSize - 1 : arrivals'[i] = arrivals[i - 1]
          /\ histogramSize' \in 1..HistogramSize /\ histogramSize' <= Shrunk(now) + 1
          /\ Age(t, arrivals'[histogramSize' - 1]) <= MaxSampleAge
      BY <2>3, <3>1, <3>3, <3>4, SampleAdded
    <3>6. Young'
      BY <3>5 DEF Young
    <3>7. histogramSize' \in Nat \ {0} /\ histogramSize' <= histogramSize + 1
      BY <2>3, <3>5, Constants
    <3>8. \A i \in 1..histogramSize' - 1 : arrivals'[i] = arrivals[i - 1]
      <4>1. PICK h \in Nat, m \in Nat : h = histogramSize' /\ m = HistogramSize /\ h <= m
        BY <3>5, <3>7, Constants
      <4>2. 1..h - 1 \subseteq 1..m - 1
        <5>1. h <= m
          BY <4>1
        <5> QED BY <5>1
      <4> QED BY <3>5, <4>1, <4>2
    <3>9. Stretch(arrivals', histogramSize', received)
      BY <2>1, <2>3, <3>1, <3>2, <3>5, <3>7, <3>8, StretchBegins
    <3> QED BY <3>2, <3>6, <3>9
  <2> QED BY <2>4, <2>5
<1> QED BY <1>1, <1>2

\* With vsync too, the histogram is in order and young, although an update that sends only the
\* other field enters an old time or whatever the stack held: if that is no time of late.
THEOREM HistogramIsSound == ASSUME FarFromClock PROVE Spec => []HistogramSound
<1>1. Init => VsyncOrder
  BY InitVsyncOrder
<1>2. Base /\ VsyncOrder /\ [Next]_vars => VsyncOrder'
  BY VsyncOrderStep
<1>3. Base /\ VsyncOrder /\ (build = "polled" => HistogramSound) => HistogramSound
  <2> SUFFICES ASSUME Base, VsyncOrder, build # "polled" PROVE HistogramSound
    OBVIOUS
  <2>1. Stretch(arrivals, histogramSize, received) /\ Young
    BY Constants DEF Base, Types, VsyncOrder
  <2>2. CASE Read(arrivals, histogramSize, received)
    BY <2>1, <2>2 DEF Read, Young, HistogramSound
  <2>3. CASE \E u \in Uninitialized : Same(arrivals, histogramSize, u)
    <3>1. PICK u \in Uninitialized : Same(arrivals, histogramSize, u)
      BY <2>3
    <3>2. ASSUME NEW i \in 1..histogramSize - 1 PROVE arrivals[i] <= arrivals[i - 1]
      <4>1. i \in 0..histogramSize - 1 /\ i - 1 \in 0..histogramSize - 1
        BY DEF Base, Types, Histogram
      <4>2. arrivals[i] = u /\ arrivals[i - 1] = u /\ u \in Nat
        BY <3>1, <4>1, Constants DEF Same
      <4> QED BY <4>2
    <3> QED BY <2>1, <3>2 DEF Young, HistogramSound
  <2> QED BY <2>1, <2>2, <2>3 DEF Stretch
<1> QED BY <1>1, <1>2, <1>3, BaseInvariant, PolledHistogramSound, PTL DEF Spec

-----------------------------------------------------------------------------
(* An idle screen *)

Idle == lastFramePollTime - arrivals[0] > IdleAge

\* A screen that was idle at the last poll is predicted as idle, whoever cuts the histogram short.
Resting ==
  build = "polled" =>
    /\ pPc = "estimate" => ~Idle
    /\ pPc = "snapshot" /\ Idle => pWake >= lastFramePollTime + IdleInterval

LEMMA RestingStep == ASSUME Base, PolledOrder, Resting, [Next]_vars PROVE Resting'
<1>1. CASE UNCHANGED vars
  BY <1>1 DEF Resting, Idle, vars, histogram, poller
<1>2. CASE Next
  <2> SUFFICES ASSUME build' = "polled"
               PROVE  /\ pPc' = "estimate" => ~Idle'
                      /\ pPc' = "snapshot" /\ Idle' => pWake' >= lastFramePollTime' + IdleInterval
    BY DEF Resting
  <2>1. build = "polled" /\ ClockOrder
    BY <1>2, TimeMoves DEF PolledOrder
  <2>2. /\ now \in Nat /\ now < TimeModulus /\ arrivals[0] \in Nat /\ lastFramePollTime \in Nat
        /\ histogramSize >= 1 /\ histogramSize \in Nat /\ arrivals[0] <= now
    BY <2>1, Constants DEF Base, Types, Histogram, Times, ClockOrder
  <2>3. CASE Predict
    <3>1. mostRecentFrame(now) = arrivals[0] /\ Age(now, arrivals[0]) = now - arrivals[0]
      BY <2>2, AgeOfEarlier DEF mostRecentFrame
    <3>2. arrivals' = arrivals /\ lastFramePollTime' = lastFramePollTime /\ lastFramePollTime <= now
      BY <2>3 DEF Predict, Base, Control, Awake
    <3>3. IF now - arrivals[0] > IdleAge
            THEN pWake' = Greatest(now, IdlePoll) /\ pPc' = "snapshot"
            ELSE pPc' = "estimate"
      BY <2>3, <3>1 DEF Predict
    <3> QED BY <2>2, <3>2, <3>3, Constants DEF Idle, Greatest, IdlePoll
  <2>4. CASE Estimate
    BY <2>1, <2>4 DEF Estimate, Resting, Idle, Awake
  <2>5. CASE Tick \/ RenderFrame \/ VsyncCallback \/ MainWait \/ MainTakesFrames \/ MainEstimates
    BY <2>1, <2>5 DEF Tick, RenderFrame, VsyncCallback, MainWait, MainTakesFrames, MainEstimates,
                      Resting, Idle, poller, histogram
  <2>6. CASE SleepUntilTarget \/ Snapshot \/ NewFramebuffer \/ SameFramebuffer
    BY <2>6 DEF SleepUntilTarget, Snapshot, NewFramebuffer, SameFramebuffer
  <2>7. CASE PollerWait \/ PollerLoadsFrames \/ PollerTakesFrames \/ SnapshotAgain
             \/ StopLooking \/ PollerSends
    BY <2>1, <2>7 DEF PollerWait, PollerLoadsFrames, PollerTakesFrames, SnapshotAgain, StopLooking,
                      PollerSends, Awake, Base, Control, PolledPcs
  <2> QED BY <1>2, <2>3, <2>4, <2>5, <2>6, <2>7, Zenon DEF Next
<1> QED BY <1>1, <1>2

\* However the eager factor, the prediction and the two idle modes follow on each other, no
\* screen that has been idle for five seconds is polled sooner than after the idle interval.
THEOREM IdleScreenRests == Spec => RestsWhenIdle
<1>1. Init => Resting
  BY DEF Init, Resting
<1>2. Base /\ PolledOrder /\ Resting /\ [Next]_vars => Resting'
  BY RestingStep
<1>3. Base /\ Resting
        => [(build = "polled" /\ Snapshot /\ lastFramePollTime - arrivals[0] > IdleAge)
              => lastFramePollTime' - lastFramePollTime >= IdleInterval]_vars
  <2> SUFFICES ASSUME Base, Resting, build = "polled", Snapshot, Idle
               PROVE  lastFramePollTime' - lastFramePollTime >= IdleInterval
    BY DEF Idle
  <2>1. pWake >= lastFramePollTime + IdleInterval /\ now >= pWake /\ lastFramePollTime' = now
    BY DEF Resting, Snapshot, Awake
  <2> QED BY <2>1, Constants DEF Base, Types
<1> QED BY <1>1, <1>2, <1>3, BaseInvariant, PolledOrderInvariant, PTL DEF Spec, RestsWhenIdle

-----------------------------------------------------------------------------
(* The main thread and the histogram *)

\* How old the last frame is at most when main, which never waits for the SPI thread for longer
\* than d, has so many interlaced updates left.
Slack(d, k) == 1 + (MaxInterlaced + 1 - k) * d

LEMMA SlackGrows ==
  ASSUME NEW d \in Nat, NEW k \in 1..MaxInterlaced
  PROVE  /\ Slack(d, k) \in Nat /\ Slack(d, k) >= 1 + d
         /\ Slack(d, k) + d <= 1 + (MaxInterlaced + 1) * d
         /\ k # 1 => Slack(d, k - 1) = Slack(d, k) + d
<1>1. PICK m \in Nat : m = MaxInterlaced - k /\ MaxInterlaced = m + k
  <2>1. MaxInterlaced \in Nat /\ k \in Nat /\ k <= MaxInterlaced /\ MaxInterlaced - k \in Nat
    BY Constants
  <2> QED BY <2>1
<1>2. k \in Nat \ {0}
  BY Constants
<1>3. m * d \in Nat /\ k * d \in Nat /\ k * d >= d
  <2>1. (k - 1) * d \in Nat /\ (k - 1) * d = k * d - d
    BY <1>2
  <2> QED BY <1>2, <2>1
<1>4. Slack(d, k) = 1 + m * d + d
  <2>1. MaxInterlaced + 1 - k = m + 1
    BY <1>1, <1>2
  <2>2. (m + 1) * d = m * d + d
    OBVIOUS
  <2> QED BY <2>1, <2>2, <1>3 DEF Slack
<1>5. Slack(d, k - 1) = 1 + m * d + 2 * d
  <2>1. MaxInterlaced + 1 - (k - 1) = m + 2
    BY <1>1, <1>2
  <2>2. (m + 2) * d = m * d + 2 * d
    OBVIOUS
  <2> QED BY <2>1, <2>2, <1>3 DEF Slack
<1>6. (MaxInterlaced + 1) * d = m * d + k * d + d
  <2>1. MaxInterlaced + 1 = m + k + 1
    BY <1>1, <1>2
  <2>2. (m + k + 1) * d = m * d + k * d + d
    BY <1>2
  <2> QED BY <2>1, <2>2
<1> QED BY <1>3, <1>4, <1>5, <1>6

\* The last frame is recent wherever main is on its way to EstimateFrameRateInterval: either it
\* has just been counted, or few interlaced updates and their waits have followed it.
Recent(d) ==
  build = "polled" =>
    /\ mPc # "load" /\ numNewGpuFrames > 0 => now <= arrivals[0] + 1
    /\ mPc = "wait" /\ numNewGpuFrames = 0 /\ interlacedUpdate > 0
         => now <= arrivals[0] + Slack(d, interlacedUpdate)
    /\ mPc = "load" => mWake <= now + d
    /\ mPc = "load" /\ numNewGpuFrames > 0 => mWake <= arrivals[0] + 1 + d
    /\ mPc = "load" /\ numNewGpuFrames = 0
         => interlacedUpdate > 0 /\ mWake <= arrivals[0] + Slack(d, interlacedUpdate) + d
    /\ mPc = "estimate" /\ taken > 0 => now <= arrivals[0] + 1 + d
    /\ mPc = "estimate" /\ taken = 0
         => interlacedUpdate > 0 /\ now <= arrivals[0] + Slack(d, interlacedUpdate) + d

LEMMA RecentStep ==
  ASSUME NEW d \in Nat, \A t \in Throttles : t <= d,
         Base, PolledOrder, Recent(d), [Next]_vars
  PROVE  Recent(d)'
<1>1. CASE UNCHANGED vars
  BY <1>1 DEF Recent, vars, histogram, mainThread, frames
<1>2. CASE Next
  <2> SUFFICES ASSUME build' = "polled"
               PROVE  Recent(d)'
    BY DEF Recent
  <2>1. build = "polled" /\ ClockOrder
    BY <1>2, TimeMoves DEF PolledOrder
  <2>2. /\ now \in Nat /\ arrivals[0] \in Nat /\ lastFramePollTime \in Nat /\ mWake \in Nat
        /\ numNewGpuFrames \in Nat /\ taken \in Nat /\ interlacedUpdate \in 0..MaxInterlaced
        /\ arrivals[0] <= now /\ mPc \in {"wait", "load", "estimate"}
    BY <2>1, Constants DEF Base, Types, Histogram, Times, ClockOrder, Control
  <2>3. interlacedUpdate > 0 =>
          /\ Slack(d, interlacedUpdate) \in Nat /\ Slack(d, interlacedUpdate) >= 1 + d
          /\ interlacedUpdate # 1
               => Slack(d, interlacedUpdate - 1) = Slack(d, interlacedUpdate) + d
    BY <2>2, SlackGrows, Constants
  <2>4. CASE Tick
    BY <2>1, <2>2, <2>3, <2>4
       DEF Tick, MainRests, SomeFrame, Recent, Base, OnTime, histogram, mainThread, frames
  <2>5. CASE NewFramebuffer
    <3>1. arrivals'[0] = lastFramePollTime
      BY <2>5, SampleIsTime, SampleAdded DEF Base, Types, Histogram
    <3>2. now <= lastFramePollTime + 1
      BY <2>5 DEF NewFramebuffer, Awake, Base, Control, OnTime
    <3>3. /\ now' = now /\ mPc' = mPc /\ mWake' = mWake /\ taken' = taken
          /\ interlacedUpdate' = interlacedUpdate /\ numNewGpuFrames' = numNewGpuFrames + 1
      BY <2>5 DEF NewFramebuffer, mainThread, frames
    <3> QED BY <2>1, <2>2, <2>3, <3>1, <3>2, <3>3 DEF Recent
  <2>6. CASE MainWait
    <3>1. PICK t \in Throttles : mWake' = now + t
      BY <2>6 DEF MainWait
    <3>2. t \in Nat /\ t <= d
      BY Constants
    <3>3. /\ now' = now /\ mPc = "wait" /\ mPc' = "load" /\ arrivals' = arrivals
          /\ interlacedUpdate' = interlacedUpdate /\ numNewGpuFrames' = numNewGpuFrames
          /\ (numNewGpuFrames > 0 \/ interlacedUpdate > 0)
      BY <2>6 DEF MainWait, SomeFrame, frames, histogram
    <3> QED BY <2>1, <2>2, <2>3, <3>1, <3>2, <3>3 DEF Recent
  <2>7. CASE MainTakesFrames
    <3>1. /\ now' = now /\ mPc = "load" /\ mPc' = "estimate" /\ arrivals' = arrivals
          /\ interlacedUpdate' = interlacedUpdate /\ numNewGpuFrames' = 0
          /\ taken' = numNewGpuFrames /\ now <= mWake
      BY <2>7 DEF MainTakesFrames, histogram, Base, OnTime
    <3> QED BY <2>1, <2>2, <2>3, <3>1 DEF Recent
  <2>8. CASE MainEstimates
    <3>1. /\ now' = now /\ mPc = "estimate" /\ mPc' = "wait" /\ arrivals' = arrivals
          /\ interlacedUpdate' \in Interlaced /\ numNewGpuFrames' = numNewGpuFrames
      BY <2>8 DEF MainEstimates
    <3>2. interlacedUpdate' \in 0..MaxInterlaced
      BY <2>2, <3>1, Constants DEF Interlaced, Greatest
    <3>3. interlacedUpdate' > 0 =>
            Slack(d, interlacedUpdate') \in Nat /\ Slack(d, interlacedUpdate') >= 1 + d
      BY <3>2, SlackGrows, Constants
    <3>4. taken = 0 /\ interlacedUpdate' > 0
            => interlacedUpdate' = interlacedUpdate - 1 /\ interlacedUpdate # 1
      BY <2>2, <3>1 DEF Interlaced, Greatest
    <3>5. CASE numNewGpuFrames > 0
      BY <2>1, <2>2, <3>1, <3>5 DEF Recent
    <3>6. CASE numNewGpuFrames = 0 /\ interlacedUpdate' = 0
      BY <2>1, <2>2, <3>1, <3>6 DEF Recent
    <3>7. CASE numNewGpuFrames = 0 /\ interlacedUpdate' > 0 /\ taken > 0
      BY <2>1, <2>2, <3>1, <3>3, <3>7 DEF Recent
    <3>8. CASE numNewGpuFrames = 0 /\ interlacedUpdate' > 0 /\ taken = 0
      <4>1. now <= arrivals[0] + Slack(d, interlacedUpdate) + d /\ interlacedUpdate > 0
        BY <2>1, <3>1, <3>8 DEF Recent
      <4>2. Slack(d, interlacedUpdate') = Slack(d, interlacedUpdate) + d
        BY <2>3, <3>4, <3>8, <4>1
      <4>3. now' <= arrivals'[0] + Slack(d, interlacedUpdate')
        BY <2>2, <2>3, <3>1, <4>1, <4>2
      <4> QED BY <3>1, <3>8, <4>3 DEF Recent
    <3> QED BY <2>2, <3>2, <3>5, <3>6, <3>7, <3>8
  <2>9. CASE RenderFrame \/ SleepUntilTarget \/ Predict \/ Estimate \/ Snapshot \/ SameFramebuffer
    BY <2>1, <2>9 DEF RenderFrame, SleepUntilTarget, Predict, Estimate, Snapshot, SameFramebuffer,
                      histogram, mainThread, frames, Recent
  <2>10. ~VsyncCallback /\ ~PollerWait /\ ~PollerLoadsFrames /\ ~PollerTakesFrames
         /\ ~SnapshotAgain /\ ~StopLooking /\ ~PollerSends
    BY <2>1 DEF VsyncCallback, PollerWait, PollerLoadsFrames, PollerTakesFrames, SnapshotAgain,
                StopLooking, PollerSends, Awake, Base, Control, PolledPcs
  <2> QED BY <1>2, <2>4, <2>5, <2>6, <2>7, <2>8, <2>9, <2>10, Zenon DEF Next
<1> QED BY <1>1, <1>2

\* The main thread estimates the frame rate too, and yet never takes the histogram away from the
\* thread that polls: if it waits for the SPI thread for so short a time that a frame and the
\* interlaced updates after it are done before the screen counts as deeply idle.
THEOREM MainLeavesTheHistogram ==
  ASSUME NEW d \in Nat, \A t \in Throttles : t <= d, 1 + (MaxInterlaced + 1) * d <= DeepIdleAge
  PROVE  Spec => MainLeavesHistogram
<1>1. Init => Recent(d)
  BY DEF Init, Recent
<1>2. Base /\ PolledOrder /\ Recent(d) /\ [Next]_vars => Recent(d)'
  BY RecentStep
<1>3. Base /\ PolledOrder /\ Recent(d) => [MainEstimates => UNCHANGED histogramSize]_vars
  <2> SUFFICES ASSUME Base, PolledOrder, Recent(d), MainEstimates
               PROVE  histogramSize' = histogramSize
    OBVIOUS
  <2>1. build = "polled" /\ ClockOrder /\ mPc = "estimate"
    BY Constants DEF Base, Types, Control, PolledOrder, MainEstimates
  <2>2. /\ now \in Nat /\ now < TimeModulus /\ arrivals[0] \in Nat /\ taken \in Nat
        /\ interlacedUpdate \in 0..MaxInterlaced /\ arrivals[0] <= now
    BY <2>1, Constants DEF Base, Types, Histogram, Times, ClockOrder
  <2>3. d <= (MaxInterlaced + 1) * d /\ (MaxInterlaced + 1) * d \in Nat
    <3>1. MaxInterlaced * d \in Nat /\ (MaxInterlaced + 1) * d = MaxInterlaced * d + d
      BY Constants
    <3> QED BY <3>1
  <2>4. now <= arrivals[0] + (1 + (MaxInterlaced + 1) * d)
    <3>1. CASE taken > 0
      BY <2>1, <2>2, <2>3, <3>1 DEF Recent
    <3>2. CASE taken = 0
      <4>1. interlacedUpdate > 0 /\ now <= arrivals[0] + Slack(d, interlacedUpdate) + d
        BY <2>1, <3>2 DEF Recent
      <4>2. interlacedUpdate \in 1..MaxInterlaced
        BY <2>2, <4>1, Constants
      <4>3. /\ Slack(d, interlacedUpdate) \in Nat
            /\ Slack(d, interlacedUpdate) + d <= 1 + (MaxInterlaced + 1) * d
        BY <4>2, SlackGrows
      <4> QED BY <2>2, <2>3, <4>1, <4>3
    <3> QED BY <2>2, <3>1, <3>2
  <2>5. Age(now, arrivals[0]) = now - arrivals[0]
    BY <2>2, AgeOfEarlier
  <2>6. ~(Age(now, arrivals[0]) > DeepIdleAge)
    BY <2>2, <2>3, <2>4, <2>5, Constants
  <2>7. Histogram
    BY DEF Base, Types
  <2> QED BY <2>6, <2>7, ShrunkIsSize DEF MainEstimates
<1> QED BY <1>1, <1>2, <1>3, BaseInvariant, PolledOrderInvariant, PTL DEF Spec, MainLeavesHistogram

-----------------------------------------------------------------------------
(* The time of the next poll *)

\* Without vsync each poll of a screen has its time from the one before.
PolledSchedule ==
  /\ received = lastFramePollTime => arrivals[0] = received
  /\ lastFramePollTime # 0
       => received = lastFramePollTime \/ received + FrameInterval <= lastFramePollTime
  /\ pPc = "target" /\ lastFramePollTime # 0 => now = lastFramePollTime + 1 /\ pWake = now
  /\ pPc \in {"predict", "snapshot"} => pWake >= received + FrameInterval
  /\ pPc = "predict" /\ lastFramePollTime # 0 =>
       /\ received = lastFramePollTime => pWake = lastFramePollTime + FrameInterval
       /\ received # lastFramePollTime => pWake = lastFramePollTime + 1
  /\ pPc = "estimate" => timeNow >= received + FrameInterval
  /\ pPc = "estimate" /\ lastFramePollTime # 0 =>
       /\ received = lastFramePollTime => timeNow = lastFramePollTime + FrameInterval
       /\ received # lastFramePollTime => timeNow = lastFramePollTime + 1
  /\ pPc = "snapshot" /\ lastFramePollTime # 0
       => pWake <= lastFramePollTime + Greatest(IdleInterval, FrameInterval + MaxDelay)

PolledOnSchedule == ~misled /\ build = "polled" => PolledSchedule

LEMMA MisledGrows == ASSUME Next, ~misled' PROVE ~misled
BY Zenon DEF Next, Tick, RenderFrame, VsyncCallback, SleepUntilTarget, Predict, Estimate,
   Snapshot, NewFramebuffer, SameFramebuffer, MainWait, MainTakesFrames, MainEstimates,
   PollerWait, PollerLoadsFrames, PollerTakesFrames, SnapshotAgain, StopLooking, PollerSends

\* A prediction that is not misled takes the screen for active in both of its halves.
LEMMA NotMisled ==
  ASSUME Base, Estimate, ~misled'
  PROVE  histogramSize = 0 \/ Age(now, arrivals[0]) <= IdleAge
<1>1. ~(histogramSize > 0 /\ Age(now, arrivals[0]) > IdleAge)
  BY Zenon DEF Estimate
<1>2. histogramSize \in Nat
  BY DEF Base, Types, Histogram
<1>3. ASSUME histogramSize # 0 PROVE Age(now, arrivals[0]) \in Nat
  <2>1. now \in Int /\ arrivals[0] \in Int
    BY Constants DEF Base, Types, Histogram, Times
  <2> QED BY <2>1, AgeIsNat
<1> HIDE DEF Age
<1> QED BY <1>1, <1>2, <1>3, Constants

LEMMA PolledScheduleStep ==
  ASSUME Base, PolledOrder, PolledOnSchedule, [Next]_vars
  PROVE  PolledOnSchedule'
<1>1. CASE UNCHANGED vars
  BY <1>1 DEF PolledOnSchedule, PolledSchedule, vars, histogram, poller
<1>2. CASE Next
  <2> SUFFICES ASSUME build' = "polled", ~misled'
               PROVE  PolledSchedule'
    BY DEF PolledOnSchedule
  <2>1. build = "polled" /\ ClockOrder /\ PolledSchedule
    BY <1>2, TimeMoves, MisledGrows DEF PolledOrder, PolledOnSchedule
  <2>2. /\ now \in Nat /\ now < TimeModulus /\ arrivals[0] \in Nat /\ lastFramePollTime \in Nat
        /\ pWake \in Nat /\ received \in Nat /\ received # 0 /\ histogramSize \in Nat
        /\ arrivals[0] <= now /\ histogramSize >= 1
    BY <2>1, Constants DEF Base, Types, Histogram, Times, ClockOrder
  <2>3. CASE Tick
    BY <2>1, <2>2, <2>3
       DEF Tick, PollerRests, histogram, poller, PolledSchedule, Base, OnTime
  <2>4. CASE SleepUntilTarget
    <3>1. /\ pPc = "target" /\ pPc' = "predict" /\ pWake' = Greatest(now, received + FrameInterval)
          /\ now' = now /\ received' = received /\ lastFramePollTime' = lastFramePollTime
          /\ arrivals' = arrivals
      BY <2>4 DEF SleepUntilTarget, Awake, histogram
    <3> QED BY <2>1, <2>2, <3>1, Constants DEF PolledSchedule, Greatest
  <2>5. CASE Predict
    <3>1. mostRecentFrame(now) = arrivals[0] /\ Age(now, arrivals[0]) \in Nat
      BY <2>2, AgeOfEarlier DEF mostRecentFrame
    <3>2. /\ pPc = "predict" /\ now' = now /\ received' = received /\ arrivals' = arrivals
          /\ lastFramePollTime' = lastFramePollTime /\ pWake = now
      BY <2>2, <2>5 DEF Predict, Awake, Base, OnTime
    <3>3. CASE Age(now, arrivals[0]) > IdleAge
      <4>1. pWake' = Greatest(now, lastFramePollTime + IdleInterval) /\ pPc' = "snapshot"
        BY <2>5, <3>1, <3>3 DEF Predict, IdlePoll
      <4>2. received' + FrameInterval <= pWake'
        BY <2>1, <2>2, <3>2, <4>1, Constants DEF PolledSchedule, Greatest
      <4>3. lastFramePollTime # 0
              => pWake' <= lastFramePollTime + Greatest(IdleInterval, FrameInterval + MaxDelay)
        BY <2>1, <2>2, <3>2, <4>1, Constants DEF PolledSchedule, Greatest
      <4> QED BY <2>1, <2>2, <3>2, <4>1, <4>2, <4>3, Constants DEF PolledSchedule
    <3>4. CASE ~(Age(now, arrivals[0]) > IdleAge)
      <4>1. timeNow' = now /\ pPc' = "estimate"
        BY <2>5, <3>1, <3>4 DEF Predict
      <4> HIDE DEF Age
      <4> QED BY <2>1, <2>2, <3>2, <4>1, Constants DEF PolledSchedule
    <3> QED BY <3>3, <3>4
  <2>6. CASE Estimate
    <3> DEFINE interval == EstimateFrameRateInterval(now)
               next == NextArrival(interval)
    <3>1. /\ pPc = "estimate" /\ pPc' = "snapshot" /\ pWake' = Greatest(now, next)
          /\ now' = now /\ received' = received /\ arrivals' = arrivals
          /\ lastFramePollTime' = lastFramePollTime
      BY <2>6 DEF Estimate, Awake
    <3>2. /\ mostRecentFrame(timeNow) = arrivals[0] /\ timeNow \in Nat
          /\ timeNow <= now /\ now <= timeNow + MaxDelay /\ timeNow >= received + FrameInterval
      BY <2>1, <2>2, <3>1 DEF Base, Types, OnTime, mostRecentFrame, PolledSchedule
    <3>3. interval \in Nat \ {0} /\ FrameInterval <= interval /\ interval <= IdleInterval
      <4>1. Histogram /\ eager \in Nat
        BY DEF Base, Types
      <4>2. histogramSize = 0 \/ Age(now, arrivals[0]) <= IdleAge
        BY <2>6, NotMisled
      <4> HIDE DEF Age
      <4> QED BY <2>2, <4>1, <4>2, EstimateIsInterval
    <3> HIDE DEF interval
    <3>4. /\ next \in Int /\ next < timeNow + interval
          /\ arrivals[0] < timeNow /\ timeNow <= arrivals[0] + interval
               => next = arrivals[0] + interval
      BY <2>2, <3>2, <3>3, NextArrivalIsSoon
    <3> HIDE DEF next
    <3>5. ASSUME lastFramePollTime # 0
          PROVE  /\ next <= lastFramePollTime + IdleInterval
                 /\ now <= lastFramePollTime + FrameInterval + MaxDelay
      <4>1. CASE received = lastFramePollTime
        <5>1. arrivals[0] = lastFramePollTime /\ timeNow = lastFramePollTime + FrameInterval
          BY <2>1, <3>1, <3>5, <4>1 DEF PolledSchedule
        <5>2. next = arrivals[0] + interval
          BY <2>2, <3>3, <3>4, <5>1, Constants
        <5> QED BY <2>2, <3>2, <3>3, <5>1, <5>2, Constants
      <4>2. CASE received # lastFramePollTime
        <5>1. timeNow = lastFramePollTime + 1
          BY <2>1, <3>1, <3>5, <4>2 DEF PolledSchedule
        <5> QED BY <2>2, <3>2, <3>3, <3>4, <5>1, Constants
      <4> QED BY <4>1, <4>2
    <3>6. /\ pWake' \in Int /\ pWake' >= now
          /\ lastFramePollTime # 0
               => pWake' <= lastFramePollTime + Greatest(IdleInterval, FrameInterval + MaxDelay)
      BY <2>2, <3>1, <3>4, <3>5, Constants DEF Greatest
    <3> QED BY <2>1, <2>2, <3>1, <3>2, <3>6, Constants DEF PolledSchedule
  <2>7. CASE Snapshot
    <3>1. /\ pPc = "snapshot" /\ pPc' = "compare" /\ lastFramePollTime' = now /\ pWake <= now
          /\ now' = now /\ received' = received /\ arrivals' = arrivals
      BY <2>7 DEF Snapshot, Awake, histogram
    <3> QED BY <2>1, <2>2, <3>1, Constants DEF PolledSchedule
  <2>8. CASE NewFramebuffer
    <3>1. arrivals'[0] = lastFramePollTime
      BY <2>8, SampleIsTime, SampleAdded DEF Base, Types, Histogram
    <3>2. /\ pPc' = "target" /\ now' = now /\ received' = lastFramePollTime /\ pWake' = pWake
          /\ lastFramePollTime' = lastFramePollTime /\ now = pWake
          /\ pWake = lastFramePollTime + 1
      BY <2>2, <2>8 DEF NewFramebuffer, Awake, Base, Control, OnTime
    <3> QED BY <3>1, <3>2 DEF PolledSchedule
  <2>9. CASE SameFramebuffer
    <3>1. /\ pPc' = "target" /\ now' = now /\ received' = received /\ pWake' = pWake
          /\ lastFramePollTime' = lastFramePollTime /\ now = pWake /\ arrivals' = arrivals
          /\ pWake = lastFramePollTime + 1
      BY <2>2, <2>9 DEF SameFramebuffer, Awake, Base, Control, OnTime, histogram
    <3> QED BY <2>1, <3>1 DEF PolledSchedule
  <2>10. CASE RenderFrame \/ MainWait \/ MainTakesFrames \/ MainEstimates
    BY <2>1, <2>10 DEF RenderFrame, MainWait, MainTakesFrames, MainEstimates, histogram, poller,
                       PolledSchedule
  <2>11. ~VsyncCallback /\ ~PollerWait /\ ~PollerLoadsFrames /\ ~PollerTakesFrames
         /\ ~SnapshotAgain /\ ~StopLooking /\ ~PollerSends
    BY <2>1 DEF VsyncCallback, PollerWait, PollerLoadsFrames, PollerTakesFrames, SnapshotAgain,
                StopLooking, PollerSends, Awake, Base, Control, PolledPcs
  <2> QED BY <1>2, <2>3, <2>4, <2>5, <2>6, <2>7, <2>8, <2>9, <2>10, <2>11, Zenon DEF Next
<1> QED BY <1>1, <1>2

\* Without vsync, and until a prediction has been misled, the screen is polled every 100 ms at
\* least, or as soon as the thread goes on that has lost the processor in the middle of a
\* prediction: for any histogram, any eager factor and any time it may lose.
THEOREM PolledEveryIdleInterval == Spec => [](build = "polled" => PolledInTime)
<1>1. Init => PolledOnSchedule
  BY Constants DEF Init, PolledOnSchedule, PolledSchedule
<1>2. Base /\ PolledOrder /\ PolledOnSchedule /\ [Next]_vars => PolledOnSchedule'
  BY PolledScheduleStep
<1>3. Base /\ PolledOnSchedule => (build = "polled" => PolledInTime)
  <2> DEFINE longest == Greatest(IdleInterval, FrameInterval + MaxDelay)
  <2> SUFFICES ASSUME Base, PolledOnSchedule, ~misled, build = "polled", lastFramePollTime # 0
               PROVE  now - lastFramePollTime <= longest
    BY Zenon DEF PolledInTime, PolledAlways
  <2>0. longest \in Nat /\ IdleInterval <= longest /\ FrameInterval + MaxDelay <= longest
    BY Constants DEF Greatest
  <2>1. PolledSchedule /\ now \in Nat /\ lastFramePollTime \in Nat /\ pWake \in Nat
        /\ pPc \in PolledPcs
    BY Constants DEF PolledOnSchedule, Base, Types, Control
  <2>2. CASE pPc = "estimate"
    <3>1. timeNow \in Nat /\ now <= timeNow + MaxDelay
      BY <2>2 DEF Base, Types, OnTime
    <3>2. timeNow <= lastFramePollTime + FrameInterval
      BY <2>1, <2>2, <3>1, Constants DEF PolledSchedule
    <3> HIDE DEF longest
    <3> QED BY <2>0, <2>1, <3>1, <3>2, Constants
  <2>3. CASE pPc # "estimate"
    <3>1. now <= pWake
      BY <2>1, <2>3 DEF Base, OnTime, PolledPcs
    <3>2. CASE pPc = "predict"
      <4>1. pWake <= lastFramePollTime + FrameInterval
        BY <2>1, <3>2, Constants DEF PolledSchedule
      <4> HIDE DEF longest
      <4> QED BY <2>0, <2>1, <3>1, <4>1, Constants
    <3>3. CASE pPc = "snapshot"
      <4>1. pWake <= lastFramePollTime + longest
        BY <2>1, <3>3 DEF PolledSchedule
      <4> HIDE DEF longest
      <4> QED BY <2>0, <2>1, <3>1, <4>1
    <3>4. CASE pPc \in {"target", "compare"}
      <4>1. now <= lastFramePollTime + 1
        BY <2>1, <3>1, <3>4 DEF PolledSchedule, Base, Control
      <4> HIDE DEF longest
      <4> QED BY <2>0, <2>1, <4>1, Constants
    <3> QED BY <2>1, <2>3, <3>2, <3>3, <3>4 DEF PolledPcs
  <2> QED BY <2>2, <2>3
<1> QED BY <1>1, <1>2, <1>3, BaseInvariant, PolledOrderInvariant, PTL DEF Spec

\* With vsync VsyncCallback counts a frame every FrameInterval.
Multiples == {k * VsyncInterval : k \in Nat}

Counter ==
  build = "vsync" =>
    frameSkipCounter \in Multiples /\ frameSkipCounter <= FrameInterval - VsyncInterval

\* A multiple that is less than another is less by the whole.
LEMMA MultiplesApart ==
  ASSUME NEW v \in Nat \ {0}, NEW k \in Nat, NEW m \in Nat, k * v < m * v
  PROVE  k * v \in Nat /\ m * v \in Nat /\ k * v <= m * v - v
<1>1. k * v \in Nat /\ m * v \in Nat
  OBVIOUS
<1>2. k < m
  <2> SUFFICES ASSUME m <= k PROVE FALSE
    OBVIOUS
  <2>1. (k - m) * v >= 0 /\ (k - m) * v = k * v - m * v
    OBVIOUS
  <2> QED BY <1>1, <2>1
<1>3. (m - k - 1) * v >= 0 /\ (m - k - 1) * v = m * v - k * v - v
  BY <1>2
<1> QED BY <1>1, <1>3

LEMMA FrameIsMultiple == FrameInterval \in Multiples /\ VsyncInterval <= FrameInterval
<1>1. PICK f \in Nat \ {0}, v \in Nat \ {0} : f = FrameInterval /\ v = VsyncInterval /\ f % v = 0
  BY Constants, TimingAssumption DEF TimingAssumption
<1>2. f % v = 0
  BY <1>1
<1> DEFINE q == f \div v
           r == f % v
<1>3. f = v * q + r /\ r \in 0 .. v - 1 /\ q \in Nat
  OBVIOUS
<1>4. r = 0
  BY <1>2
<1> HIDE DEF q, r
<1>5. PICK m \in Nat : f = m * v
  <2>1. q * v = v * q
    BY <1>3
  <2>2. f = q * v
    BY <1>3, <1>4, <2>1
  <2> QED BY <1>3, <2>2
<1>6. m # 0
  BY <1>5
<1>7. (m - 1) * v \in Nat /\ (m - 1) * v = m * v - v
  BY <1>6
<1>8. v <= f
  BY <1>5, <1>7
<1> QED BY <1>1, <1>5, <1>8 DEF Multiples

LEMMA CounterStep ==
  ASSUME Base, Counter, [Next]_vars
  PROVE  Counter'
<1>1. CASE VsyncCallback
  <2>1. build = "vsync" /\ frameSkipCounter \in Multiples
        /\ frameSkipCounter <= FrameInterval - VsyncInterval
    BY <1>1 DEF VsyncCallback, Counter
  <2>2. PICK v \in Nat \ {0}, m \in Nat : v = VsyncInterval /\ m * v = FrameInterval
    BY FrameIsMultiple, Constants DEF Multiples
  <2>3. PICK k \in Nat : k * v = frameSkipCounter
    BY <2>1, <2>2 DEF Multiples
  <2>4. k * v \in Nat /\ m * v \in Nat /\ k * v <= m * v - v
    BY <2>1, <2>2, <2>3
  <2>5. (k + 1) * v = k * v + v
    OBVIOUS
  <2>6. CASE frameSkipCounter + VsyncInterval < FrameInterval
    <3>1. frameSkipCounter' = (k + 1) * v
      BY <1>1, <2>2, <2>3, <2>4, <2>5, <2>6 DEF VsyncCallback
    <3>2. (k + 1) * v < m * v
      BY <2>2, <2>3, <2>4, <2>5, <2>6
    <3>3. (k + 1) * v <= m * v - v
      BY <3>2, MultiplesApart
    <3>4. frameSkipCounter' \in Multiples
      BY <2>2, <3>1 DEF Multiples
    <3> QED BY <2>2, <3>1, <3>3, <3>4 DEF Counter
  <2>7. CASE ~(frameSkipCounter + VsyncInterval < FrameInterval)
    <3>1. frameSkipCounter' = 0
      <4>1. frameSkipCounter' = (frameSkipCounter + VsyncInterval) - FrameInterval
        BY <1>1, <2>7 DEF VsyncCallback
      <4>2. k * v + v = m * v
        BY <2>2, <2>3, <2>4, <2>7
      <4> QED BY <2>2, <2>3, <2>4, <4>1, <4>2
    <3>2. 0 \in Multiples
      <4>1. 0 = 0 * v
        OBVIOUS
      <4> QED BY <2>2, <4>1 DEF Multiples
    <3> QED BY <3>1, <3>2, FrameIsMultiple, Constants DEF Counter
  <2> QED BY <2>6, <2>7
<1>2. CASE ~VsyncCallback
  <2>1. build' = build /\ frameSkipCounter' = frameSkipCounter
    BY <1>2, Zenon DEF Next, vars, vsync, Tick, RenderFrame, SleepUntilTarget, Predict, Estimate,
       Snapshot, NewFramebuffer, SameFramebuffer, MainWait, MainTakesFrames, MainEstimates,
       PollerWait, PollerLoadsFrames, PollerTakesFrames, SnapshotAgain, StopLooking, PollerSends
  <2> QED BY <2>1 DEF Counter
<1> QED BY <1>1, <1>2

\* When the next frame will be counted, and until when main has it in the queue.
NextCounted == nextVsync + FrameInterval - (VsyncInterval + frameSkipCounter)
Latest == lastFramePollTime + 1 + FrameInterval

\* A sleep is as long as that of an idle screen, or as its prediction has taken.
LongestSleep == Greatest(IdleInterval, MaxDelay)

LEMMA LongestSleepIs ==
  LongestSleep \in Nat /\ IdleInterval <= LongestSleep /\ MaxDelay <= LongestSleep
BY Constants DEF LongestSleep, Greatest

VsyncSchedule ==
  /\ pPc = "predict" => pWake <= now
  /\ lastFramePollTime # 0 =>
       /\ pPc \in {"wait", "load", "send"} /\ numNewGpuFrames = 0 => NextCounted <= Latest
       /\ pPc \in {"wait", "send"} /\ numNewGpuFrames > 0 => now <= Latest
       /\ pPc = "load" => pWake <= Latest + MaxThrottle
       /\ pPc = "predict" => now <= Latest + MaxThrottle
       /\ pPc = "estimate" => timeNow <= Latest + MaxThrottle
       /\ pPc = "snapshot" => pWake <= Latest + MaxThrottle + LongestSleep

VsyncOnSchedule == ~misled /\ build = "vsync" => VsyncSchedule

LEMMA VsyncScheduleStep ==
  ASSUME Base, Counter, VsyncOnSchedule, [Next]_vars
  PROVE  VsyncOnSchedule'
<1>1. CASE UNCHANGED vars
  BY <1>1 DEF VsyncOnSchedule, VsyncSchedule, NextCounted, Latest, vars, histogram, poller, vsync
<1>2. CASE Next
  <2> SUFFICES ASSUME build' = "vsync", ~misled'
               PROVE  VsyncSchedule'
    BY DEF VsyncOnSchedule
  <2>1. build = "vsync" /\ VsyncSchedule
    BY <1>2, TimeMoves, MisledGrows DEF VsyncOnSchedule
  <2>2. /\ now \in Nat /\ lastFramePollTime \in Nat /\ pWake \in Nat /\ histogramSize \in Nat
        /\ nextVsync \in Nat /\ frameSkipCounter \in Nat /\ numNewGpuFrames \in Nat
        /\ VsyncInterval \in Nat /\ FrameInterval \in Nat /\ IdleInterval \in Nat
        /\ MaxThrottle \in Nat /\ LongestSleep \in Nat /\ IdleInterval <= LongestSleep
        /\ frameSkipCounter <= FrameInterval - VsyncInterval
        /\ now <= nextVsync /\ nextVsync <= now + VsyncInterval
    <3>1. frameSkipCounter \in Nat /\ frameSkipCounter <= FrameInterval - VsyncInterval
      <4>1. PICK k \in Nat : frameSkipCounter = k * VsyncInterval
        BY <2>1 DEF Counter, Multiples
      <4> QED BY <2>1, <4>1, Constants DEF Counter
    <3> QED BY <2>1, <3>1, Constants, LongestSleepIs DEF Base, Types, Histogram, OnTime
  <2>3. now <= NextCounted /\ NextCounted \in Nat /\ NextCounted <= now + FrameInterval
    BY <2>2 DEF NextCounted
  <2>4. Latest = lastFramePollTime + 1 + FrameInterval /\ Latest \in Nat
    BY <2>2 DEF Latest
  <2>5. CASE Tick
    <3>1. /\ now' = now + 1 /\ pPc' = pPc /\ pWake' = pWake /\ numNewGpuFrames' = numNewGpuFrames
          /\ lastFramePollTime' = lastFramePollTime /\ NextCounted' = NextCounted
          /\ Latest' = Latest /\ timeNow' = timeNow
          /\ pWake > now \/ (pPc = "wait" /\ numNewGpuFrames = 0) \/ pPc = "estimate"
      BY <2>2, <2>5 DEF Tick, PollerRests, SomeFrame, poller, vsync, NextCounted, Latest
    <3> QED BY <2>1, <2>2, <2>3, <2>4, <3>1 DEF VsyncSchedule, Base, OnTime
  <2>6. CASE VsyncCallback
    <3>1. /\ now' = now /\ pPc' = pPc /\ pWake' = pWake
          /\ lastFramePollTime' = lastFramePollTime /\ Latest' = Latest /\ timeNow' = timeNow
      BY <2>6 DEF VsyncCallback, poller, Latest
    <3>2. \/ numNewGpuFrames' = numNewGpuFrames /\ NextCounted' = NextCounted
          \/ numNewGpuFrames' = numNewGpuFrames + 1
      BY <2>2, <2>6 DEF VsyncCallback, NextCounted
    <3> QED BY <2>1, <2>2, <2>3, <2>4, <3>1, <3>2 DEF VsyncSchedule
  <2>7. CASE PollerWait
    <3>1. PICK d \in Throttles : pWake' = now + d
      BY <2>7 DEF PollerWait
    <3>2. d \in Nat /\ d <= MaxThrottle
      BY Constants
    <3>3. /\ pPc = "wait" /\ pPc' = "load" /\ now' = now /\ numNewGpuFrames' = numNewGpuFrames
          /\ lastFramePollTime' = lastFramePollTime /\ NextCounted' = NextCounted
          /\ Latest' = Latest
      BY <2>7 DEF PollerWait, vsync, NextCounted, Latest
    <3> QED BY <2>1, <2>2, <2>3, <2>4, <3>1, <3>2, <3>3 DEF VsyncSchedule
  <2>8. CASE PollerLoadsFrames
    <3>1. /\ pPc = "load" /\ now' = now /\ numNewGpuFrames' = numNewGpuFrames /\ now = pWake
          /\ lastFramePollTime' = lastFramePollTime /\ NextCounted' = NextCounted
          /\ Latest' = Latest /\ pWake' = pWake
          /\ pPc' = IF numNewGpuFrames > 0 THEN "predict" ELSE "send"
      BY <2>2, <2>8 DEF PollerLoadsFrames, Awake, Base, OnTime, vsync, NextCounted, Latest
    <3> QED BY <2>1, <2>2, <2>3, <2>4, <3>1 DEF VsyncSchedule
  <2>9. CASE Predict
    <3>1. /\ pPc = "predict" /\ now' = now /\ arrivals' = arrivals /\ histogramSize' = Shrunk(now)
          /\ lastFramePollTime' = lastFramePollTime /\ Latest' = Latest
          /\ IF Age(now, mostRecentFrame(now)) > IdleAge
               THEN pWake' = Greatest(now, IdlePoll) /\ pPc' = "snapshot"
               ELSE pPc' = "estimate" /\ timeNow' = now
      BY <2>9 DEF Predict, Awake, Latest
    <3>2. CASE Age(now, mostRecentFrame(now)) > IdleAge
      BY <2>1, <2>2, <2>4, <3>1, <3>2 DEF VsyncSchedule, Greatest, IdlePoll
    <3>3. CASE ~(Age(now, mostRecentFrame(now)) > IdleAge)
      <4>1. pPc' = "estimate" /\ timeNow' = now
        BY <3>1, <3>3
      <4> HIDE DEF Age
      <4> QED BY <2>1, <2>2, <2>4, <3>1, <4>1 DEF VsyncSchedule
    <3> QED BY <3>2, <3>3
  <2>10. CASE Estimate
    <3> DEFINE interval == EstimateFrameRateInterval(now)
               next == NextArrival(interval)
    <3>1. /\ pPc = "estimate" /\ pPc' = "snapshot" /\ pWake' = Greatest(now, next)
          /\ lastFramePollTime' = lastFramePollTime /\ Latest' = Latest /\ now' = now
      BY <2>10 DEF Estimate, Awake, Latest
    <3>2. timeNow \in Nat /\ now <= timeNow + MaxDelay /\ mostRecentFrame(timeNow) \in Nat
      BY <2>2, <3>1, Constants DEF Base, Types, Histogram, Times, OnTime, mostRecentFrame
    <3>3. interval \in Nat \ {0} /\ interval <= IdleInterval
      <4>1. Histogram /\ eager \in Nat
        BY DEF Base, Types
      <4>2. histogramSize = 0 \/ Age(now, arrivals[0]) <= IdleAge
        BY <2>10, NotMisled
      <4> HIDE DEF Age
      <4> QED BY <2>2, <4>1, <4>2, EstimateIsInterval
    <3> HIDE DEF interval
    <3>4. next \in Int /\ next < timeNow + interval
      BY <2>2, <3>2, <3>3, NextArrivalIsSoon
    <3> HIDE DEF next
    <3>5. pWake' <= timeNow + LongestSleep
      BY <2>2, <3>1, <3>2, <3>3, <3>4, LongestSleepIs, Constants DEF Greatest
    <3>6. lastFramePollTime # 0 => timeNow <= Latest + MaxThrottle
      BY <2>1, <3>1 DEF VsyncSchedule
    <3>7. lastFramePollTime # 0 => pWake' <= Latest + MaxThrottle + LongestSleep
      <4>1. pWake' \in Int
        BY <2>2, <3>1, <3>4 DEF Greatest
      <4> QED BY <2>2, <2>4, <3>2, <3>5, <3>6, <4>1
    <3> QED BY <2>1, <2>2, <2>4, <3>1, <3>7 DEF VsyncSchedule
  <2>11. CASE Snapshot \/ PollerTakesFrames \/ SnapshotAgain
    BY <2>11 DEF Snapshot, PollerTakesFrames, SnapshotAgain, Awake, VsyncSchedule
  <2>12. CASE StopLooking
    <3>1. /\ pPc' = "send" /\ now' = now /\ numNewGpuFrames' = 0 /\ NextCounted' = NextCounted
          /\ lastFramePollTime' = lastFramePollTime /\ Latest' = Latest
          /\ now <= lastFramePollTime + 1
      BY <2>12 DEF StopLooking, Awake, Base, Control, OnTime, vsync, NextCounted, Latest
    <3> QED BY <2>2, <2>3, <2>4, <3>1 DEF VsyncSchedule
  <2>13. CASE PollerSends
    <3>1. /\ pPc = "send" /\ pPc' = "wait" /\ now' = now /\ numNewGpuFrames' = numNewGpuFrames
          /\ NextCounted' = NextCounted
          /\ lastFramePollTime' = lastFramePollTime /\ Latest' = Latest
      BY <2>13 DEF PollerSends, vsync, NextCounted, Latest
    <3> QED BY <2>1, <3>1 DEF VsyncSchedule
  <2>14. CASE RenderFrame
    BY <2>1, <2>14 DEF RenderFrame, histogram, poller, vsync, VsyncSchedule, NextCounted, Latest
  <2>15. ~SleepUntilTarget /\ ~NewFramebuffer /\ ~SameFramebuffer /\ ~MainWait
         /\ ~MainTakesFrames /\ ~MainEstimates
    BY <2>1 DEF SleepUntilTarget, NewFramebuffer, SameFramebuffer, MainWait, MainTakesFrames,
                MainEstimates, Base, Control
  <2> QED BY <1>2, <2>5, <2>6, <2>7, <2>8, <2>9, <2>10, <2>11, <2>12, <2>13, <2>14, <2>15, Zenon
          DEF Next
<1> QED BY <1>1, <1>2

LEMMA ScheduleInit == Init => Counter /\ VsyncOnSchedule
<1> SUFFICES ASSUME Init PROVE Counter /\ VsyncOnSchedule
  OBVIOUS
<1>1. 0 \in Multiples
  <2>1. 0 = 0 * VsyncInterval
    BY Constants
  <2> QED BY <2>1 DEF Multiples
<1>2. Counter
  BY <1>1, FrameIsMultiple, Constants DEF Init, Counter
<1> QED BY <1>2 DEF Init, VsyncOnSchedule, VsyncSchedule

\* With vsync too: the next frame is counted a frame after the last poll at the latest, even if
\* main sends interlaced updates meanwhile, and main polls as soon as it has waited for the SPI
\* thread and slept, until a prediction has been misled.
THEOREM ScreenPolledInTime == Spec => []PolledInTime
<1>1. Init => Counter /\ VsyncOnSchedule
  BY ScheduleInit
<1>2. Base /\ Counter /\ VsyncOnSchedule /\ [Next]_vars => (Counter /\ VsyncOnSchedule)'
  BY CounterStep, VsyncScheduleStep
<1>3. ASSUME Base, Counter, VsyncOnSchedule, ~misled, build = "vsync", lastFramePollTime # 0
      PROVE  now - lastFramePollTime <= LongestSleep + FrameInterval + MaxThrottle + 1
  <2>1. VsyncSchedule /\ pPc \in VsyncPcs
    BY <1>3 DEF VsyncOnSchedule, Base, Control
  <2>2. /\ now \in Nat /\ lastFramePollTime \in Nat /\ pWake \in Nat
        /\ frameSkipCounter \in Nat /\ frameSkipCounter <= FrameInterval - VsyncInterval
        /\ numNewGpuFrames \in Nat /\ nextVsync \in Nat /\ now <= nextVsync
        /\ FrameInterval \in Nat /\ VsyncInterval \in Nat
        /\ MaxThrottle \in Nat /\ LongestSleep \in Nat /\ MaxDelay <= LongestSleep
        /\ MaxDelay \in Nat
    <3>1. PICK k \in Nat : frameSkipCounter = k * VsyncInterval
      BY <1>3 DEF Counter, Multiples
    <3>2. frameSkipCounter \in Nat /\ frameSkipCounter <= FrameInterval - VsyncInterval
      BY <1>3, <3>1, Constants DEF Counter
    <3> QED BY <1>3, <3>2, Constants, LongestSleepIs DEF Base, Types, OnTime
  <2>3. now <= NextCounted /\ Latest = lastFramePollTime + 1 + FrameInterval /\ NextCounted \in Nat
    BY <2>2 DEF NextCounted, Latest
  <2>4. CASE pPc \in {"wait", "send"}
    BY <1>3, <2>1, <2>2, <2>3, <2>4 DEF VsyncSchedule
  <2>5. CASE pPc = "predict"
    BY <1>3, <2>1, <2>2, <2>3, <2>5 DEF VsyncSchedule
  <2>6. CASE pPc = "estimate"
    <3>1. timeNow \in Nat /\ now <= timeNow + MaxDelay
      BY <1>3, <2>6 DEF Base, Types, OnTime
    <3>2. timeNow <= Latest + MaxThrottle
      BY <1>3, <2>1, <2>6 DEF VsyncSchedule
    <3> QED BY <2>2, <2>3, <3>1, <3>2
  <2>7. CASE pPc \in {"load", "snapshot"}
    <3>1. now <= pWake
      BY <1>3, <2>7 DEF Base, OnTime
    <3> QED BY <1>3, <2>1, <2>2, <2>3, <2>7, <3>1 DEF VsyncSchedule
  <2>8. CASE pPc \in {"compare", "look"}
    BY <1>3, <2>2, <2>8 DEF Base, Control, OnTime
  <2> QED BY <2>1, <2>4, <2>5, <2>7, <2>8, <2>6 DEF VsyncPcs
<1>4. Base /\ Counter /\ VsyncOnSchedule /\ (build = "polled" => PolledInTime) => PolledInTime
  <2>1. Base => build \in {"polled", "vsync"}
    BY Constants DEF Base, Types
  <2>2. "polled" # "vsync"
    OBVIOUS
  <2> QED BY <1>3, <2>1, <2>2 DEF PolledInTime, PolledAlways, LongestSleep
<1> QED BY <1>1, <1>2, <1>4, BaseInvariant, PolledEveryIdleInterval, PTL DEF Spec

-----------------------------------------------------------------------------
(* The times of skipped frames *)

\* The array holds the frames of SkipAge, of two of the longest sleeps and of the longest wait
\* for the SPI thread: FRAME_HISTORY_MAX_SIZE, 240, are four seconds at 60 Hz.
SkipsFit == SkipAge + 2 * LongestSleep + MaxThrottle + 2 <= HistoryMaxSize * FrameInterval

\* How long n frames last.
Lasts(n) == n * FrameInterval

\* From one entry on, the frames that were skipped, and the waiting ones, were counted one
\* after the other; the oldest of a batch waited for it for as long as main may be away.
SpreadOut(times, waiting, last) ==
  \A n \in 1..Len(times) :
    Lasts(Len(times) - n + waiting) + times[n] <= last + LongestSleep + MaxThrottle + 1

LEMMA LastsGrows ==
  /\ Lasts(0) = 0 /\ Lasts(1) = FrameInterval
  /\ \A n \in Nat : Lasts(n) \in Nat /\ Lasts(n + 1) = Lasts(n) + FrameInterval
  /\ \A m \in Nat : \A n \in Nat : m <= n => Lasts(m) <= Lasts(n)
<1>1. PICK f \in Nat \ {0} : f = FrameInterval
  BY Constants
<1>2. \A n \in Nat : n * f \in Nat /\ (n + 1) * f = (n * f) + f
  BY <1>1
<1>3. ASSUME NEW m \in Nat, NEW n \in Nat, m <= n PROVE m * f <= n * f
  <2>1. (n - m) * f >= 0 /\ (n - m) * f = (n * f) - (m * f)
    BY <1>1, <1>3
  <2> QED BY <1>1, <2>1
<1> QED BY <1>1, <1>2, <1>3 DEF Lasts

LEMMA CurrentIsYoung ==
  ASSUME Types
  PROVE  /\ Current \in Seq(Start..now) /\ Len(Current) \in Nat /\ Len(Current) <= Len(skips)
         /\ \A n \in 1..Len(Current) :
              /\ n + (Len(skips) - Len(Current)) \in 1..Len(skips)
              /\ Current[n] = skips[n + (Len(skips) - Len(Current))]
         /\ Len(Current) > 0 => now - Current[1] < SkipAge
<1> DEFINE young == {n \in 1..Len(skips) : now - skips[n] < SkipAge}
<1>1. Current \in Seq(Start..now) /\ skips \in Seq(Start..now) /\ Len(skips) \in Nat
  BY SkipsAreTimes, LenProperties DEF Types
<1>2. CASE young = {}
  BY <1>1, <1>2 DEF Current
<1>3. CASE young # {}
  <2>1. young \subseteq Nat
    BY <1>1
  <2>2. PICK l \in young : l = Lowest(young)
    BY <1>3, <2>1, LowestIsLeast
  <2>3. PICK k \in Nat : k = Len(skips)
    BY <1>1
  <2>4. l \in 1..k /\ now - skips[l] < SkipAge
    BY <2>2, <2>3
  <2>5. Current = SubSeq(skips, l, k)
    BY <1>3, <2>2, <2>3 DEF Current
  <2>6. \A n \in l..k : skips[n] \in Start..now
    <3>1. ASSUME NEW n \in l..k PROVE skips[n] \in Start..now
      <4>1. n \in 1..Len(skips)
        BY <2>3, <2>4
      <4> QED BY <1>1, <4>1, ElementOfSeq
    <3> QED BY <3>1
  <2>7. /\ Len(Current) = k - l + 1
        /\ \A n \in 1..k - l + 1 : Current[n] = skips[l + n - 1]
    <3>1. l \in Int /\ k \in Int /\ l <= k + 1
      BY <2>4
    <3> QED BY <2>5, <2>6, <3>1, SubSeqProperties
  <2>8. ASSUME NEW n \in 1..Len(Current)
        PROVE  /\ n + (Len(skips) - Len(Current)) \in 1..Len(skips)
               /\ Current[n] = skips[n + (Len(skips) - Len(Current))]
    <3>1. n \in 1..k - l + 1 /\ n + (k - (k - l + 1)) = l + n - 1
      BY <2>4, <2>7
    <3> QED BY <2>3, <2>4, <2>7, <3>1
  <2>9. Current[1] = skips[l]
    <3>1. 1 \in 1..k - l + 1 /\ l + 1 - 1 = l
      BY <2>4
    <3> QED BY <2>7, <3>1
  <2>10. Len(Current) \in Nat /\ Len(Current) <= Len(skips)
    BY <2>3, <2>4, <2>7
  <2> QED BY <1>1, <2>4, <2>8, <2>9, <2>10
<1> QED BY <1>2, <1>3

LEMMA SkippedIs ==
  ASSUME Types, NEW s \in Seq(Start..now), NEW k \in Nat
  PROVE  /\ Skipped(s, k) \in Seq(Start..now) /\ Len(s) \in Nat
         /\ Len(Skipped(s, k)) = Len(s) + (IF k > 0 THEN k - 1 ELSE 0)
         /\ \A n \in 1..Len(s) : Skipped(s, k)[n] = s[n]
         /\ \A n \in Len(s) + 1..Len(Skipped(s, k)) : Skipped(s, k)[n] = now
<1>1. PICK g \in Nat : g = Greatest(0, k - 1) /\ g = IF k > 0 THEN k - 1 ELSE 0
  BY DEF Greatest
<1> DEFINE added == [n \in 1..g |-> now]
<1>2. now \in Start..now
  BY Constants DEF Types
<1>3. added \in Seq(Start..now) /\ Len(added) = g
  <2>1. added \in [1..g -> Start..now]
    BY <1>2
  <2>2. added \in Seq(Start..now)
    BY <2>1, FunctionIsSeq
  <2> QED BY <2>2
<1>4. \A n \in 1..g : added[n] = now
  OBVIOUS
<1>5. Skipped(s, k) = s \o added
  BY <1>1 DEF Skipped
<1> HIDE DEF added
<1>6. /\ s \o added \in Seq(Start..now)
      /\ Len(s \o added) = Len(s) + Len(added)
      /\ \A n \in 1..Len(s) + Len(added) :
           (s \o added)[n] = IF n <= Len(s) THEN s[n] ELSE added[n - Len(s)]
  BY <1>3, ConcatProperties
<1>7. PICK m \in Nat : m = Len(s)
  BY LenProperties
<1>8. ASSUME NEW n \in m + 1..m + g PROVE (s \o added)[n] = now
  <2>1. n \in 1..m + g /\ ~(n <= m) /\ n - m \in 1..g
    BY <1>8
  <2> QED BY <1>3, <1>4, <1>6, <1>7, <2>1
<1>9. ASSUME NEW n \in 1..m PROVE (s \o added)[n] = s[n]
  <2>1. n \in 1..m + g /\ n <= m
    BY <1>9
  <2> QED BY <1>3, <1>6, <1>7, <2>1
<1> QED BY <1>1, <1>3, <1>5, <1>6, <1>7, <1>8, <1>9

\* Expiring leaves the distances, and so does a frame that is counted.
LEMMA SpreadCurrent ==
  ASSUME Types, NEW waiting \in Nat, NEW last \in Int, SpreadOut(skips, waiting, last)
  PROVE  SpreadOut(Current, waiting, last)
<1> SUFFICES ASSUME NEW n \in 1..Len(Current)
             PROVE  Lasts(Len(Current) - n + waiting) + Current[n]
                      <= last + LongestSleep + MaxThrottle + 1
  BY DEF SpreadOut
<1>1. PICK c \in Nat, k \in Nat : c = Len(Current) /\ k = Len(skips)
  BY CurrentIsYoung, LenProperties DEF Types
<1>2. PICK m \in 1..k : m = n + (k - c) /\ Current[n] = skips[m]
  BY <1>1, CurrentIsYoung
<1>3. Lasts(k - m + waiting) + skips[m] <= last + LongestSleep + MaxThrottle + 1
  BY <1>1, <1>2 DEF SpreadOut
<1>4. k - m + waiting = c - n + waiting
  BY <1>1, <1>2
<1> QED BY <1>1, <1>2, <1>3, <1>4

LEMMA SpreadCounted ==
  ASSUME Types, NEW waiting \in Nat, NEW last \in Int, NEW next \in Int,
         last + FrameInterval <= next, SpreadOut(skips, waiting, last)
  PROVE  SpreadOut(skips, waiting + 1, next)
<1> SUFFICES ASSUME NEW n \in 1..Len(skips)
             PROVE  Lasts(Len(skips) - n + (waiting + 1)) + skips[n]
                      <= next + LongestSleep + MaxThrottle + 1
  BY DEF SpreadOut
<1>1. Len(skips) \in Nat /\ skips[n] \in Int
  BY LenProperties, ElementOfSeq, Constants DEF Types
<1>2. PICK k \in Nat : k = Len(skips) - n + waiting
  BY <1>1
<1>3. Len(skips) - n + (waiting + 1) = k + 1
  BY <1>1, <1>2
<1>4. Lasts(k) \in Nat /\ Lasts(k + 1) = Lasts(k) + FrameInterval
  BY LastsGrows
<1>5. Lasts(k) + skips[n] <= last + LongestSleep + MaxThrottle + 1
  BY <1>2 DEF SpreadOut
<1>6. PICK a \in Nat, b \in Int, f \in Nat, i \in Nat, r \in Nat :
        /\ a = Lasts(k) /\ b = skips[n] /\ f = FrameInterval /\ i = LongestSleep
        /\ r = MaxThrottle
  BY <1>1, <1>4, Constants, LongestSleepIs
<1>7. (a + f) + b <= next + i + r + 1
  <2>1. a + b <= last + i + r + 1
    BY <1>5, <1>6
  <2>2. last + f <= next
    BY <1>6
  <2> QED BY <2>1, <2>2
<1> QED BY <1>3, <1>4, <1>6, <1>7

LEMMA Sums ==
  /\ \A x, y, f, i, r \in Nat : \A u, last \in Int :
       y <= x /\ ((x + f) + f) + u <= last + i + (r + f) + 1 => y + u <= last + i + r + 1
  /\ \A x, y, i, g, r \in Nat : \A t, v, last \in Int :
       /\ x + v <= last + i + r + 1 /\ last <= t + i + 1 /\ t - v < g
       /\ y <= x
       => y < g + (2 * i) + r + 2
OBVIOUS

\* Main takes the frames that wait, and enters all but one of them with the same time: as
\* long as it took them soon enough, there is room.
LEMMA TakenFit ==
  ASSUME Types, SkipsFit, NEW s \in Seq(Start..now), NEW k \in Nat, NEW j \in Nat,
         NEW last \in Int, NEW t \in Int, t <= now, last <= t + LongestSleep + 1,
         Len(s) > 0 => t - s[1] < SkipAge,
         SpreadOut(s, k + j, last),
         k > 0 => Lasts(k + j) + now <= last + LongestSleep + MaxThrottle + FrameInterval + 1
  PROVE  /\ SpreadOut(Skipped(s, k), j, last)
         /\ Len(Skipped(s, k)) <= HistoryMaxSize
         /\ Len(Skipped(s, k)) > 0 => t - Skipped(s, k)[1] < SkipAge
<1>0. PICK f \in Nat \ {0}, i \in Nat, h \in Nat, g \in Nat \ {0}, r \in Nat :
        /\ f = FrameInterval /\ i = LongestSleep /\ h = HistoryMaxSize /\ g = SkipAge
        /\ r = MaxThrottle
  <2>1. HistoryMaxSize \in Nat
    BY TimingAssumption DEF TimingAssumption
  <2>2. SkipAge \in Nat \ {0}
    BY Constants
  <2> QED BY <2>1, <2>2, Constants, LongestSleepIs
<1>1. PICK m \in Nat, w \in Seq(Start..now), c \in Nat :
        /\ m = Len(s) /\ w = Skipped(s, k) /\ c = Len(w)
        /\ c = m + (IF k > 0 THEN k - 1 ELSE 0)
  BY SkippedIs, LenProperties
<1>2. /\ \A n \in 1..m : w[n] = s[n]
      /\ \A n \in m + 1..c : w[n] = now
  BY <1>1, SkippedIs, SMTT(30)
<1>3. now \in Int
  BY Constants DEF Types
<1>4. \A n \in 1..m : s[n] \in Int
  <2>1. ASSUME NEW n \in 1..m PROVE s[n] \in Int
    <3>1. s[n] \in Start..now
      BY <1>1, ElementOfSeq
    <3> QED BY <3>1
  <2> QED BY <2>1
<1>5. ASSUME NEW n \in 1..c PROVE Lasts(c - n + j) + w[n] <= last + i + r + 1
  <2>1. CASE n <= m
    <3>1. n \in 1..m /\ w[n] = s[n] /\ s[n] \in Int
      BY <1>2, <1>4, <2>1
    <3>2. PICK a \in Nat : a = m - n + (k + j)
      BY <3>1
    <3>3. PICK b \in Nat : b = c - n + j /\ b <= a
      <4>1. c <= m + k
        BY <1>1
      <4>2. c - n + j \in Nat
        OBVIOUS
      <4> QED BY <3>1, <3>2, <4>1, <4>2
    <3>4. Lasts(a) + s[n] <= last + i + r + 1
      BY <1>0, <1>1, <3>1, <3>2 DEF SpreadOut
    <3>5. PICK x \in Nat, y \in Nat : x = Lasts(a) /\ y = Lasts(b) /\ y <= x
      <4>1. Lasts(a) \in Nat /\ Lasts(b) \in Nat
        BY LastsGrows
      <4>2. Lasts(b) <= Lasts(a)
        BY <3>3, LastsGrows
      <4> QED BY <4>1, <4>2
    <3>6. y + s[n] <= last + i + r + 1
      <4>1. PICK u \in Int : u = s[n]
        BY <3>1
      <4>2. x + u <= last + i + r + 1 /\ y <= x
        BY <3>4, <3>5, <4>1
      <4>3. y + u <= last + i + r + 1
        BY <4>2
      <4> QED BY <4>1, <4>3
    <3> QED BY <3>1, <3>3, <3>5, <3>6
  <2>2. CASE ~(n <= m)
    <3>1. w[n] = now
      BY <1>2, <2>2
    <3>2. k >= 2 /\ n >= m + 1 /\ c = m + k - 1
      BY <1>1, <2>2
    <3>3. PICK b \in Nat : b = c - n + j
      OBVIOUS
    <3>4. PICK a \in Nat : a = (k + j) - 2 /\ b <= a
      BY <3>2, <3>3
    <3>5. PICK x \in Nat, y \in Nat : x = Lasts(a) /\ y = Lasts(b) /\ y <= x
      <4>1. Lasts(a) \in Nat /\ Lasts(b) \in Nat
        BY LastsGrows
      <4>2. Lasts(b) <= Lasts(a)
        BY <3>4, LastsGrows
      <4> QED BY <4>1, <4>2
    <3>6. Lasts(k + j) = (x + f) + f
      <4>1. Lasts(a + 1) = x + f /\ Lasts((a + 1) + 1) = Lasts(a + 1) + f
        BY <1>0, <3>5, LastsGrows
      <4>2. (a + 1) + 1 = k + j
        BY <3>4
      <4> QED BY <4>1, <4>2
    <3>7. ((x + f) + f) + now <= last + i + (r + f) + 1
      BY <1>0, <3>2, <3>6
    <3>8. y + now <= last + i + r + 1
      <4>1. PICK u \in Int : u = now
        BY <1>3
      <4>2. ((x + f) + f) + u <= last + i + (r + f) + 1
        BY <3>7, <4>1
      <4>3. y + u <= last + i + r + 1
        BY <3>5, <4>2, Sums
      <4> QED BY <4>1, <4>3
    <3> QED BY <3>1, <3>3, <3>5, <3>8
  <2> QED BY <2>1, <2>2
<1>6. ASSUME c > 0 PROVE w[1] \in Int /\ t - w[1] < g
  <2>1. CASE m > 0
    <3>1. 1 \in 1..m
      BY <2>1
    <3> QED BY <1>0, <1>1, <1>2, <1>4, <2>1, <3>1
  <2>2. CASE ~(m > 0)
    <3>1. w[1] = now
      BY <1>2, <1>6, <2>2
    <3> QED BY <1>0, <1>3, <3>1
  <2> QED BY <2>1, <2>2
<1>7. c <= h
  <2> SUFFICES ASSUME h < c PROVE FALSE
    OBVIOUS
  <2>1. PICK a \in Nat : a = c - 1 + j /\ h <= a
    OBVIOUS
  <2>2. 1 \in 1..c
    OBVIOUS
  <2>3. Lasts(a) + w[1] <= last + i + r + 1
    BY <1>5, <2>1, <2>2
  <2>4. PICK x \in Nat, y \in Nat : x = Lasts(a) /\ y = Lasts(h) /\ y <= x
    <3>1. Lasts(a) \in Nat /\ Lasts(h) \in Nat
      BY LastsGrows
    <3>2. Lasts(h) <= Lasts(a)
      BY <2>1, LastsGrows
    <3> QED BY <3>1, <3>2
  <2>5. g + (2 * i) + r + 2 <= y
    <3>1. y = h * f
      BY <1>0, <2>4 DEF Lasts
    <3>2. g + (2 * i) + r + 2 <= h * f
      BY <1>0 DEF SkipsFit
    <3> QED BY <3>1, <3>2, Zenon
  <2>6. PICK v \in Int : v = w[1] /\ t - v < g
    BY <1>6
  <2>7. x + v <= last + i + r + 1
    BY <2>3, <2>4, <2>6
  <2>8. last <= t + i + 1
    <3>1. last <= t + LongestSleep + 1
      OBVIOUS
    <3>2. LongestSleep = i
      BY <1>0
    <3> QED BY <3>1, <3>2, Zenon
  <2>9. y < g + (2 * i) + r + 2
    BY <2>4, <2>6, <2>7, <2>8, Sums
  <2>10. y \in Int /\ g + (2 * i) + r + 2 \in Int
    OBVIOUS
  <2> QED
    <3>1. PICK e \in Int : e = g + (2 * i) + r + 2
      BY <2>10
    <3>2. e <= y /\ y < e
      BY <2>5, <2>9, <3>1
    <3> QED BY <2>10, <3>2
<1>8. SpreadOut(w, j, last)
  BY <1>0, <1>1, <1>5 DEF SpreadOut
<1> QED BY <1>0, <1>1, <1>6, <1>7, <1>8

\* Without vsync frames are counted a FrameInterval apart at least, and main takes them as soon
\* as it has waited for the SPI thread.
PolledHistory ==
  /\ pPc \in {"predict", "snapshot"} => received + FrameInterval <= pWake
  /\ pPc = "estimate" => received + FrameInterval <= now
  /\ pPc = "compare" => received + FrameInterval <= lastFramePollTime
  /\ mPc = "load" =>
       /\ mWake <= now + MaxThrottle
       /\ numNewGpuFrames > 0 =>
            Lasts(numNewGpuFrames) + mWake <= received + MaxThrottle + FrameInterval + 1
  /\ mPc # "load" /\ numNewGpuFrames > 0 => numNewGpuFrames = 1 /\ now <= received + 1
  /\ SpreadOut(skips, numNewGpuFrames, received)
  /\ SkipsFitAlways

\* What PolledHistory says of the thread that polls, and of main.
LEMMA PolledHistoryStep ==
  ASSUME Base, SkipsFit, build = "polled", PolledHistory, [Next]_vars
  PROVE  PolledHistory'
<1>1. CASE UNCHANGED vars
  BY <1>1 DEF PolledHistory, SpreadOut, SkipsFitAlways, vars, poller, mainThread, frames
<1>2. CASE Next
  <2>1. /\ now \in Nat /\ pWake \in Nat /\ mWake \in Nat /\ received \in Nat
        /\ lastFramePollTime \in Nat /\ numNewGpuFrames \in Nat /\ received <= now
        /\ pPc \in PolledPcs /\ mPc \in {"wait", "load", "estimate"}
        /\ FrameInterval \in Nat \ {0} /\ LongestSleep \in Nat /\ MaxThrottle \in Nat
    BY Constants, LongestSleepIs DEF Base, Types, Control, PolledPcs
  <2>2. CASE Tick
    <3>1. /\ now' = now + 1 /\ UNCHANGED <<pPc, mPc, pWake, mWake, received, lastFramePollTime,
                                          numNewGpuFrames, skips>>
          /\ mWake > now \/ (mPc = "wait" /\ numNewGpuFrames = 0)
      BY <2>1, <2>2 DEF Tick, MainRests, SomeFrame, poller, mainThread, frames
    <3>2. mPc # "load" => mWake <= now
      BY DEF Base, OnTime
    <3>3. SpreadOut(skips, numNewGpuFrames, received)' /\ SkipsFitAlways'
      BY <3>1 DEF PolledHistory, SpreadOut, SkipsFitAlways
    <3> QED BY <2>1, <3>1, <3>2, <3>3 DEF PolledHistory
  <2>3. CASE RenderFrame \/ SameFramebuffer \/ Snapshot \/ SleepUntilTarget \/ Predict \/ Estimate
    <3>1. /\ now' = now /\ UNCHANGED <<mPc, mWake, received, numNewGpuFrames, skips>>
      BY <2>3 DEF RenderFrame, SameFramebuffer, Snapshot, SleepUntilTarget, Predict, Estimate,
                  poller, mainThread, frames
    <3>2. SpreadOut(skips, numNewGpuFrames, received)' /\ SkipsFitAlways'
      BY <3>1 DEF PolledHistory, SpreadOut, SkipsFitAlways
    <3>3. /\ pPc' \in {"predict", "snapshot"} => received + FrameInterval <= pWake'
          /\ pPc' = "estimate" => received + FrameInterval <= now
          /\ pPc' = "compare" => received + FrameInterval <= lastFramePollTime'
      <4>1. CASE RenderFrame
        BY <4>1 DEF RenderFrame, poller, PolledHistory
      <4>2. CASE SameFramebuffer
        BY <4>2 DEF SameFramebuffer
      <4>3. CASE Snapshot
        <5>1. pPc = "snapshot" /\ pPc' = "compare" /\ lastFramePollTime' = now /\ pWake <= now
          BY <2>1, <4>3 DEF Snapshot, Awake
        <5> QED BY <2>1, <5>1 DEF PolledHistory
      <4>4. CASE SleepUntilTarget
        <5>1. pPc' = "predict" /\ pWake' = Greatest(now, received + FrameInterval)
          BY <4>4 DEF SleepUntilTarget
        <5> QED BY <2>1, <5>1 DEF Greatest
      <4>5. CASE Predict
        <5>1. /\ pPc = "predict" /\ pWake <= now
              /\ \/ pPc' = "snapshot" /\ pWake' = Greatest(now, IdlePoll)
                 \/ pPc' = "estimate"
          BY <2>1, <4>5 DEF Predict, Awake
        <5>2. IdlePoll \in Int
          BY <2>1, Constants DEF IdlePoll
        <5> QED BY <2>1, <5>1, <5>2 DEF PolledHistory, Greatest
      <4>6. CASE Estimate
        <5>1. pPc = "estimate" /\ pPc' = "snapshot"
          BY <4>6 DEF Estimate, Awake
        <5>2. now <= pWake'
          <6>1. PICK e : pWake' = Greatest(now, e)
            BY <4>6 DEF Estimate
          <6>2. pWake' \in Nat
            BY <4>6, EstimateBase DEF Base, Types
          <6> QED BY <2>1, <6>1, <6>2 DEF Greatest
        <5>3. pWake' \in Nat
          BY <4>6, EstimateBase DEF Base, Types
        <5> QED BY <2>1, <5>1, <5>2, <5>3 DEF PolledHistory
      <4> QED BY <2>3, <4>1, <4>2, <4>3, <4>4, <4>5, <4>6
    <3> QED BY <3>1, <3>2, <3>3 DEF PolledHistory
  <2>4. CASE NewFramebuffer
    <3>1. /\ pPc = "compare" /\ pPc' = "target" /\ now = lastFramePollTime + 1
          /\ received' = lastFramePollTime /\ numNewGpuFrames' = numNewGpuFrames + 1
          /\ now' = now /\ UNCHANGED <<mPc, mWake, skips>>
      BY <2>1, <2>4 DEF NewFramebuffer, Awake, Base, Control, OnTime, mainThread, frames
    <3>2. received + FrameInterval <= received'
      BY <3>1 DEF PolledHistory
    <3>3. SpreadOut(skips, numNewGpuFrames + 1, received')
      BY <2>1, <3>1, <3>2, SpreadCounted DEF PolledHistory, Base
    <3>4. SpreadOut(skips, numNewGpuFrames, received)' /\ SkipsFitAlways'
      BY <3>1, <3>3 DEF PolledHistory, SpreadOut, SkipsFitAlways
    <3>5. mPc = "load"
            => Lasts(numNewGpuFrames + 1) + mWake <= received' + MaxThrottle + FrameInterval + 1
      <4> SUFFICES ASSUME mPc = "load"
                   PROVE  Lasts(numNewGpuFrames + 1) + mWake
                            <= received' + MaxThrottle + FrameInterval + 1
        OBVIOUS
      <4>1. CASE numNewGpuFrames = 0
        <5>1. Lasts(numNewGpuFrames + 1) = FrameInterval
          BY <4>1, LastsGrows
        <5> QED BY <2>1, <3>1, <5>1 DEF PolledHistory
      <4>2. CASE numNewGpuFrames > 0
        <5>1. PICK x \in Nat : x = Lasts(numNewGpuFrames)
                               /\ Lasts(numNewGpuFrames + 1) = x + FrameInterval
          BY <2>1, LastsGrows
        <5>2. x + mWake <= received + MaxThrottle + FrameInterval + 1
          BY <4>2, <5>1 DEF PolledHistory
        <5> QED BY <2>1, <3>1, <3>2, <5>1, <5>2
      <4> QED BY <2>1, <4>1, <4>2
    <3>6. mPc # "load" => numNewGpuFrames = 0
      <4> SUFFICES ASSUME mPc # "load", numNewGpuFrames > 0 PROVE FALSE
        BY <2>1
      <4>1. now <= received + 1
        BY DEF PolledHistory
      <4> QED BY <2>1, <3>1, <3>2, <4>1
    <3> QED BY <2>1, <3>1, <3>4, <3>5, <3>6 DEF PolledHistory
  <2>5. CASE MainWait
    <3>1. PICK d \in Throttles : mWake' = now + d
      BY <2>5 DEF MainWait
    <3>2. d \in Nat /\ d <= MaxThrottle
      BY Constants
    <3>3. /\ mPc = "wait" /\ mPc' = "load" /\ now' = now
          /\ UNCHANGED <<pPc, pWake, received, lastFramePollTime, numNewGpuFrames, skips>>
      BY <2>5 DEF MainWait, poller, frames
    <3>4. SpreadOut(skips, numNewGpuFrames, received)' /\ SkipsFitAlways'
      BY <3>3 DEF PolledHistory, SpreadOut, SkipsFitAlways
    <3>5. numNewGpuFrames > 0 =>
            /\ Lasts(numNewGpuFrames) = FrameInterval
            /\ now <= received + 1
      BY <3>3, LastsGrows DEF PolledHistory
    <3>6. numNewGpuFrames > 0 =>
            Lasts(numNewGpuFrames) + mWake' <= received + MaxThrottle + FrameInterval + 1
      BY <2>1, <3>1, <3>2, <3>5
    <3> QED BY <2>1, <3>1, <3>2, <3>3, <3>4, <3>6 DEF PolledHistory
  <2>6. CASE MainTakesFrames
    <3>1. /\ mPc = "load" /\ mPc' = "estimate" /\ now' = now /\ mWake = now
          /\ skips' = Skipped(Current, numNewGpuFrames) /\ numNewGpuFrames' = 0
          /\ UNCHANGED <<pPc, pWake, received, lastFramePollTime>>
      BY <2>1, <2>6 DEF MainTakesFrames, Base, OnTime, poller
    <3>2. PICK k \in Nat : k = numNewGpuFrames /\ k + 0 = numNewGpuFrames
      BY <2>1
    <3>3. SpreadOut(Current, k + 0, received)
      BY <2>1, <3>2, SpreadCurrent DEF PolledHistory, Base
    <3>4. k > 0 => Lasts(k + 0) + now <= received + LongestSleep + MaxThrottle + FrameInterval + 1
      <4>1. Lasts(k + 0) \in Nat
        <5>1. k + 0 \in Nat
          OBVIOUS
        <5>2. \A n \in Nat : Lasts(n) \in Nat
          BY LastsGrows
        <5> QED BY <5>1, <5>2, Zenon
      <4>2. k > 0 => Lasts(k + 0) + now <= received + MaxThrottle + FrameInterval + 1
        BY <3>1, <3>2 DEF PolledHistory
      <4> QED BY <2>1, <4>1, <4>2
    <3>5. /\ SpreadOut(Skipped(Current, k), 0, received)
          /\ Len(Skipped(Current, k)) <= HistoryMaxSize
      <4>1. received <= now + LongestSleep + 1 /\ received \in Int /\ now \in Int /\ now <= now
        BY <2>1
      <4>2. Current \in Seq(Start..now) /\ (Len(Current) > 0 => now - Current[1] < SkipAge)
        BY CurrentIsYoung DEF Base
      <4> QED BY <3>3, <3>4, <4>1, <4>2, TakenFit DEF Base
    <3>6. SpreadOut(skips, numNewGpuFrames, received)' /\ SkipsFitAlways'
      BY <3>1, <3>2, <3>5 DEF SpreadOut, SkipsFitAlways
    <3> QED BY <3>1, <3>6 DEF PolledHistory
  <2>7. CASE MainEstimates
    <3>1. /\ mPc = "estimate" /\ mPc' = "wait" /\ now' = now
          /\ UNCHANGED <<pPc, pWake, mWake, received, lastFramePollTime, numNewGpuFrames, skips>>
      BY <2>7 DEF MainEstimates, poller
    <3>2. SpreadOut(skips, numNewGpuFrames, received)' /\ SkipsFitAlways'
      BY <3>1 DEF PolledHistory, SpreadOut, SkipsFitAlways
    <3> QED BY <3>1, <3>2 DEF PolledHistory
  <2>8. ~VsyncCallback /\ ~PollerWait /\ ~PollerLoadsFrames /\ ~PollerTakesFrames
         /\ ~SnapshotAgain /\ ~StopLooking /\ ~PollerSends
    BY <2>1 DEF VsyncCallback, PollerWait, PollerLoadsFrames, PollerTakesFrames, SnapshotAgain,
                StopLooking, PollerSends, Awake, PolledPcs
  <2> QED BY <1>2, <2>2, <2>3, <2>4, <2>5, <2>6, <2>7, <2>8, Zenon DEF Next
<1> QED BY <1>1, <1>2

\* With vsync a frame is counted every FrameInterval; main takes what was counted when it has
\* waited for the SPI thread, slept and looked for the frame.
LastCounted == NextCounted - FrameInterval

\* When it loaded numNewGpuFrames.
Loaded == giveUp - FrameInterval \div 2

Polls == {"predict", "estimate", "snapshot", "compare"}

VsyncDelays ==
  /\ pPc \in {"wait", "send"} /\ numNewGpuFrames > 0 => numNewGpuFrames = 1 /\ now <= LastCounted
  /\ pPc = "load" =>
       /\ pWake <= now + MaxThrottle
       /\ numNewGpuFrames > 0 =>
            Lasts(numNewGpuFrames) + pWake <= LastCounted + MaxThrottle + FrameInterval
  /\ pPc \in Polls =>
       taken > 0 /\ Lasts(numNewGpuFrames) + Loaded <= LastCounted + MaxThrottle + FrameInterval
  /\ pPc = "look" => Lasts(numNewGpuFrames) + Loaded <= LastCounted + MaxThrottle
  /\ pPc \in {"predict", "estimate"} => pWake <= now
  /\ pPc = "predict" => now = Loaded
  /\ pPc = "estimate" => timeNow = Loaded
  /\ pPc = "snapshot" => pWake <= Loaded + LongestSleep
  /\ pPc \in {"compare", "look"} => pWake <= Loaded + LongestSleep + 1
  /\ pPc \in Polls \cup {"look"} => Loaded <= now

VsyncHistory ==
  /\ VsyncDelays
  /\ pPc \in Polls \cup {"look"} => (Len(skips) > 0 => Loaded - skips[1] < SkipAge)
  /\ SpreadOut(skips, numNewGpuFrames, LastCounted)
  /\ SkipsFitAlways

LEMMA VsyncFacts ==
  ASSUME Base, Counter, build = "vsync"
  PROVE  /\ now \in Nat /\ pWake \in Nat /\ lastFramePollTime \in Nat /\ numNewGpuFrames \in Nat
         /\ taken \in Nat /\ giveUp \in Nat /\ Loaded \in Int /\ NextCounted \in Int
         /\ LastCounted \in Int /\ LastCounted <= now /\ pPc \in VsyncPcs
         /\ FrameInterval \in Nat \ {0} /\ LongestSleep \in Nat /\ FrameInterval < LongestSleep
         /\ MaxThrottle \in Nat
         /\ FrameInterval \div 2 \in Nat /\ FrameInterval \div 2 < FrameInterval
<1>1. frameSkipCounter \in Nat /\ frameSkipCounter <= FrameInterval - VsyncInterval
  <2>1. PICK k \in Nat : frameSkipCounter = k * VsyncInterval
    BY DEF Counter, Multiples
  <2> QED BY <2>1, Constants DEF Counter
<1>2. FrameInterval \div 2 \in Nat /\ FrameInterval \div 2 < FrameInterval
  BY Constants
<1>3. nextVsync \in Nat /\ nextVsync <= now + VsyncInterval /\ now \in Nat
  BY Constants DEF Base, Types, OnTime
<1>4. NextCounted \in Int /\ LastCounted \in Int /\ LastCounted <= now
  BY <1>1, <1>3, Constants DEF NextCounted, LastCounted
<1>5. Loaded \in Int
  BY <1>2 DEF Loaded, Base, Types
<1>6. /\ pWake \in Nat /\ lastFramePollTime \in Nat /\ numNewGpuFrames \in Nat
      /\ taken \in Nat /\ giveUp \in Nat /\ pPc \in VsyncPcs
  BY Constants DEF Base, Types, Control
<1> QED BY <1>2, <1>3, <1>4, <1>5, <1>6, Constants, LongestSleepIs

\* VsyncCallback counts a frame now, and the one before it a FrameInterval ago; or none.
LEMMA VsyncCounts ==
  ASSUME Base, Counter, VsyncCallback
  PROVE  \/ numNewGpuFrames' = numNewGpuFrames /\ LastCounted' = LastCounted
         \/ /\ numNewGpuFrames' = numNewGpuFrames + 1
            /\ LastCounted' = now /\ LastCounted = now - FrameInterval
<1>1. PICK c \in Nat, v \in Nat \ {0}, f \in Nat \ {0}, t \in Nat :
        /\ c = frameSkipCounter /\ v = VsyncInterval /\ f = FrameInterval /\ t = now
        /\ c <= f - v
  <2>1. build = "vsync"
    BY DEF VsyncCallback
  <2>2. PICK k \in Nat : frameSkipCounter = k * VsyncInterval
    BY <2>1 DEF Counter, Multiples
  <2> QED BY <2>1, <2>2, Constants DEF Counter, Base, Types
<1>2. /\ nextVsync = t /\ nextVsync' = t + v
      /\ IF c + v < f THEN frameSkipCounter' = c + v /\ numNewGpuFrames' = numNewGpuFrames
         ELSE frameSkipCounter' = (c + v) - f /\ numNewGpuFrames' = numNewGpuFrames + 1
  BY <1>1 DEF VsyncCallback
<1>3. LastCounted = (t + f - (v + c)) - f
  BY <1>1, <1>2 DEF LastCounted, NextCounted
<1>4. LastCounted' = ((t + v) + f - (v + frameSkipCounter')) - f
  BY <1>1, <1>2 DEF LastCounted, NextCounted
<1>5. CASE c + v < f
  BY <1>1, <1>2, <1>3, <1>4, <1>5
<1>6. CASE ~(c + v < f)
  <2>1. c + v = f
    BY <1>1, <1>6
  <2>2. LastCounted = t - f
    BY <1>3, <2>1
  <2>3. frameSkipCounter' = 0
    BY <1>2, <1>6, <2>1
  <2>4. LastCounted' = t
    BY <1>4, <2>3
  <2> QED BY <1>1, <1>2, <1>6, <2>2, <2>4
<1> QED BY <1>5, <1>6

LEMMA SpreadSame ==
  ASSUME SpreadOut(skips, numNewGpuFrames, LastCounted), SkipsFitAlways,
         skips' = skips, numNewGpuFrames' = numNewGpuFrames, LastCounted' = LastCounted
  PROVE  SpreadOut(skips, numNewGpuFrames, LastCounted)' /\ SkipsFitAlways'
BY DEF SpreadOut, SkipsFitAlways

\* A step that leaves alone what was counted and what waits.
LEMMA VsyncDelaysKept ==
  ASSUME Base, Counter, build = "vsync", VsyncDelays, Loaded' = Loaded, now' = now,
         LastCounted' = LastCounted, numNewGpuFrames' = numNewGpuFrames, taken' = taken,
         pPc' = pPc, pWake' = pWake, timeNow' = timeNow
  PROVE  VsyncDelays'
BY DEF VsyncDelays, Polls

LEMMA VsyncHistoryCallback ==
  ASSUME Base, Counter, build = "vsync", VsyncHistory, VsyncCallback
  PROVE  VsyncHistory'
<1>1. /\ now' = now /\ nextVsync = now /\ VsyncInterval > 0
      /\ UNCHANGED <<pPc, pWake, timeNow, taken, giveUp, skips, lastFramePollTime>>
  BY Constants DEF VsyncCallback, poller, frames
<1>2. Loaded' = Loaded
  BY <1>1 DEF Loaded
<1>3. pPc' \in Polls \cup {"look"} => (Len(skips') > 0 => Loaded' - skips'[1] < SkipAge)
  BY <1>1, <1>2 DEF VsyncHistory
<1>4. CASE numNewGpuFrames' = numNewGpuFrames /\ LastCounted' = LastCounted
  <2>1. SpreadOut(skips, numNewGpuFrames, LastCounted)' /\ SkipsFitAlways'
    BY <1>1, <1>4, SpreadSame DEF VsyncHistory
  <2>2. VsyncDelays'
    BY <1>1, <1>2, <1>4, VsyncDelaysKept DEF VsyncHistory
  <2> QED BY <1>3, <2>1, <2>2 DEF VsyncHistory
<1>5. CASE /\ numNewGpuFrames' = numNewGpuFrames + 1
           /\ LastCounted' = now /\ LastCounted = now - FrameInterval
  <2>1. SpreadOut(skips, numNewGpuFrames, LastCounted)' /\ SkipsFitAlways'
    <3>1. LastCounted + FrameInterval <= now /\ LastCounted \in Int /\ now \in Int
      BY <1>5, VsyncFacts
    <3>2. SpreadOut(skips, numNewGpuFrames + 1, now)
      BY <3>1, VsyncFacts, SpreadCounted DEF VsyncHistory, Base
    <3> QED BY <1>1, <1>5, <3>2 DEF VsyncHistory, SpreadOut, SkipsFitAlways
  <2>2. PICK x \in Nat, n \in Nat, f \in Nat \ {0}, t \in Nat, w \in Nat, i \in Nat, l \in Int,
             r \in Nat :
          /\ r = MaxThrottle
          /\ n = numNewGpuFrames /\ n + 1 = numNewGpuFrames' /\ f = FrameInterval /\ t = now
          /\ t = LastCounted' /\ t - f = LastCounted /\ w = pWake /\ i = LongestSleep
          /\ x = Lasts(n) /\ x + f = Lasts(n + 1) /\ l = Loaded
    BY <1>5, VsyncFacts, LastsGrows
  <2>3. n = 0 => x = 0
    BY <2>2, LastsGrows
  <2>4. pPc \in {"wait", "send"} => n = 0
    <3> SUFFICES ASSUME pPc \in {"wait", "send"}, n > 0 PROVE FALSE
      BY <2>2
    <3>1. t <= t - f
      BY <2>2 DEF VsyncHistory, VsyncDelays
    <3> QED BY <3>1
  <2>5. pPc = "load" => w <= t + r /\ (n > 0 => x + w <= (t - f) + r + f)
    BY <2>2 DEF VsyncHistory, VsyncDelays
  <2>6. pPc = "load" => (x + f) + w <= t + r + f
    BY <2>3, <2>5
  <2>7. /\ pPc \in Polls => taken > 0 /\ x + l <= (t - f) + r + f
        /\ pPc = "look" => x + l <= (t - f) + r
    BY <2>2 DEF VsyncHistory, VsyncDelays
  <2>8. /\ pPc \in Polls => taken > 0 /\ (x + f) + l <= t + r + f
        /\ pPc = "look" => (x + f) + l <= t + r
    BY <2>7
  <2>9. VsyncDelays'
    <3>1. /\ pPc' = pPc /\ pWake' = w /\ now' = t /\ LastCounted' = t /\ Loaded' = l
          /\ numNewGpuFrames' = n + 1 /\ Lasts(n + 1) = x + f /\ taken' = taken
      BY <1>1, <1>2, <2>2
    <3>2. /\ pPc \in {"predict", "estimate"} => w <= t
          /\ pPc = "predict" => t = l
          /\ pPc = "estimate" => timeNow = l
          /\ pPc = "snapshot" => w <= l + LongestSleep
          /\ pPc \in {"compare", "look"} => w <= l + LongestSleep + 1
          /\ pPc \in Polls \cup {"look"} => l <= t
      BY <2>2 DEF VsyncHistory, VsyncDelays
    <3>3. pPc' \in {"wait", "send"} => numNewGpuFrames' = 1 /\ now' <= LastCounted'
      BY <2>4, <3>1
    <3>4. pPc' = "load" =>
            /\ pWake' <= now' + MaxThrottle
            /\ Lasts(numNewGpuFrames') + pWake' <= LastCounted' + MaxThrottle + FrameInterval
      BY <2>2, <2>5, <2>6, <3>1
    <3>5. /\ pPc' \in Polls =>
               taken' > 0
               /\ Lasts(numNewGpuFrames') + Loaded' <= LastCounted' + MaxThrottle + FrameInterval
          /\ pPc' = "look" => Lasts(numNewGpuFrames') + Loaded' <= LastCounted' + MaxThrottle
      BY <2>2, <2>8, <3>1
    <3>6. /\ pPc' \in {"predict", "estimate"} => pWake' <= now'
          /\ pPc' = "predict" => now' = Loaded'
          /\ pPc' = "estimate" => timeNow' = Loaded'
          /\ pPc' = "snapshot" => pWake' <= Loaded' + LongestSleep
          /\ pPc' \in {"compare", "look"} => pWake' <= Loaded' + LongestSleep + 1
          /\ pPc' \in Polls \cup {"look"} => Loaded' <= now'
      BY <1>1, <3>1, <3>2
    <3> QED BY <3>3, <3>4, <3>5, <3>6, Zenon DEF VsyncDelays
  <2> QED BY <1>3, <2>1, <2>9 DEF VsyncHistory
<1> QED BY <1>4, <1>5, VsyncCounts

\* Neither idle mode lets it sleep for longer than that, nor does a prediction that is not
\* misled; which counts from its first reading of the timer.
LEMMA SleepIsShort ==
  ASSUME Base, Counter, ~misled', build = "vsync",
         NEW t \in Nat, (Predict /\ t = now) \/ (Estimate /\ t = timeNow)
  PROVE  pPc' = "snapshot" => pWake' <= t + LongestSleep
<1>2. now \in Nat /\ lastFramePollTime \in Nat /\ histogramSize \in Nat /\ IdleInterval \in Nat
      /\ LongestSleep \in Nat /\ IdleInterval <= LongestSleep /\ MaxDelay <= LongestSleep
      /\ MaxDelay \in Nat
  BY VsyncFacts, LongestSleepIs, Constants DEF Base, Types, Histogram
<1>3. CASE Predict /\ t = now
  <2>1. lastFramePollTime <= now
    BY <1>3 DEF Predict, Awake, Base, Control
  <2>2. pPc' = "snapshot" => pWake' = Greatest(now, lastFramePollTime + IdleInterval)
    BY <1>3 DEF Predict, IdlePoll
  <2> QED BY <1>2, <1>3, <2>1, <2>2 DEF Greatest
<1>4. CASE Estimate /\ t = timeNow
  <2> DEFINE interval == EstimateFrameRateInterval(now)
             next == NextArrival(interval)
  <2>1. pPc = "estimate" /\ pWake' = Greatest(now, next)
    BY <1>4 DEF Estimate, Awake
  <2>2. now <= t + MaxDelay /\ mostRecentFrame(timeNow) \in Nat
    BY <1>2, <1>4, <2>1, Constants DEF Base, Types, Histogram, Times, OnTime, mostRecentFrame
  <2>3. interval \in Nat \ {0} /\ interval <= IdleInterval
    <3>1. Histogram /\ eager \in Nat
      BY DEF Base, Types
    <3>2. histogramSize = 0 \/ Age(now, arrivals[0]) <= IdleAge
      BY <1>4, NotMisled
    <3> HIDE DEF Age
    <3> QED BY <1>2, <3>1, <3>2, EstimateIsInterval
  <2> HIDE DEF interval
  <2>4. next \in Int /\ next < t + interval
    BY <1>2, <1>4, <2>2, <2>3, NextArrivalIsSoon
  <2> HIDE DEF next
  <2> QED BY <1>2, <2>1, <2>2, <2>3, <2>4 DEF Greatest
<1> QED BY <1>3, <1>4

\* The steps that take no frames.
LEMMA VsyncHistoryWaits ==
  ASSUME Base, Counter, ~misled', build = "vsync", VsyncHistory,
         Tick \/ RenderFrame \/ Predict \/ Estimate \/ Snapshot \/ SnapshotAgain \/ PollerWait
           \/ PollerSends
  PROVE  VsyncHistory'
<1>0. UNCHANGED <<numNewGpuFrames, giveUp, nextVsync, frameSkipCounter, skips>>
  BY DEF Tick, RenderFrame, Predict, Estimate, Snapshot, SnapshotAgain, PollerWait, PollerSends,
         poller, frames, vsync
<1>1. Loaded' = Loaded /\ LastCounted' = LastCounted
  BY <1>0 DEF Loaded, LastCounted, NextCounted
<1>2. SpreadOut(skips, numNewGpuFrames, LastCounted)' /\ SkipsFitAlways'
  BY <1>0, <1>1, SpreadSame DEF VsyncHistory
<1>3. PICK t \in Nat, w \in Nat, n \in Nat, f \in Nat \ {0}, i \in Nat, l \in Int, c \in Int,
           r \in Nat :
        /\ r = MaxThrottle
        /\ t = now /\ w = pWake /\ n = numNewGpuFrames /\ f = FrameInterval /\ i = LongestSleep
        /\ l = Loaded /\ c = LastCounted /\ f < i
        /\ n = numNewGpuFrames' /\ l = Loaded' /\ c = LastCounted'
  BY <1>0, <1>1, VsyncFacts
<1>4. /\ pPc \in {"wait", "send"} /\ n > 0 => n = 1 /\ t <= c
      /\ pPc = "load" => w <= t + r /\ (n > 0 => Lasts(n) + w <= c + r + f)
      /\ pPc \in Polls => taken > 0 /\ Lasts(n) + l <= c + r + f
      /\ pPc = "look" => Lasts(n) + l <= c + r
      /\ pPc \in {"predict", "estimate"} => w <= t
      /\ pPc = "predict" => t = l
      /\ pPc = "estimate" => timeNow = l
      /\ pPc = "snapshot" => w <= l + i
      /\ pPc \in {"compare", "look"} => w <= l + i + 1
      /\ pPc \in Polls \cup {"look"} => l <= t
  BY <1>3 DEF VsyncHistory, VsyncDelays
<1>5. pPc \in Polls \cup {"look"} => (Len(skips) > 0 => Loaded - skips[1] < SkipAge)
  BY DEF VsyncHistory
<1>6. CASE Tick
  <2>1. /\ now' = t + 1 /\ pPc' = pPc /\ pWake' = w /\ taken' = taken /\ timeNow' = timeNow
        /\ w > t \/ (pPc = "wait" /\ n = 0) \/ pPc = "estimate"
    BY <1>3, <1>6 DEF Tick, PollerRests, SomeFrame, poller, frames
  <2>2. pPc = "send" => w <= t
    BY <1>3 DEF Base, OnTime
  <2>3. /\ pPc \in {"wait", "send"} => n = 0
        /\ pPc = "load" => w <= (t + 1) + r
        /\ pPc # "predict" /\ (pPc = "estimate" => w <= t + 1)
        /\ pPc \in Polls \cup {"look"} => l <= t + 1
    <3>1. pPc \in {"wait", "send"} => n = 0
      BY <1>3, <1>4, <2>1, <2>2 DEF Base, OnTime
    <3>2. pPc = "load" => w <= (t + 1) + r
      BY <1>4
    <3>3. pPc # "predict" /\ (pPc = "estimate" => w <= t + 1)
      BY <1>4, <2>1
    <3>4. pPc \in Polls \cup {"look"} => l <= t + 1
      BY <1>4
    <3> QED BY <3>1, <3>2, <3>3, <3>4
  <2>4. VsyncDelays'
    <3>1. pPc' \in {"wait", "send"} => ~(numNewGpuFrames' > 0)
      BY <1>3, <2>1, <2>3
    <3>2. pPc' = "load" =>
            /\ pWake' <= now' + MaxThrottle
            /\ numNewGpuFrames' > 0 =>
                 Lasts(numNewGpuFrames') + pWake' <= LastCounted' + MaxThrottle + FrameInterval
      BY <1>3, <1>4, <2>1, <2>3
    <3>3. /\ pPc' \in Polls =>
               taken' > 0
               /\ Lasts(numNewGpuFrames') + Loaded' <= LastCounted' + MaxThrottle + FrameInterval
          /\ pPc' = "look" => Lasts(numNewGpuFrames') + Loaded' <= LastCounted' + MaxThrottle
      BY <1>3, <1>4, <2>1
    <3>4. /\ pPc' \in {"predict", "estimate"} => pWake' <= now'
          /\ pPc' # "predict"
          /\ pPc' = "estimate" => timeNow' = Loaded'
          /\ pPc' = "snapshot" => pWake' <= Loaded' + LongestSleep
          /\ pPc' \in {"compare", "look"} => pWake' <= Loaded' + LongestSleep + 1
          /\ pPc' \in Polls \cup {"look"} => Loaded' <= now'
      BY <1>3, <1>4, <2>1, <2>3
    <3> QED BY <3>1, <3>2, <3>3, <3>4, Zenon DEF VsyncDelays
  <2> QED BY <1>0, <1>1, <1>2, <1>5, <2>1, <2>4 DEF VsyncHistory
<1>7. CASE RenderFrame
  <2>1. /\ now' = now /\ pPc' = pPc /\ pWake' = pWake /\ taken' = taken /\ timeNow' = timeNow
    BY <1>7 DEF RenderFrame, poller, frames
  <2>2. VsyncDelays'
    BY <1>0, <1>1, <2>1, VsyncDelaysKept DEF VsyncHistory
  <2> QED BY <1>0, <1>1, <1>2, <1>5, <2>1, <2>2 DEF VsyncHistory
<1>8. CASE Predict \/ Estimate
  <2>1. /\ now' = t /\ pPc \in {"predict", "estimate"} /\ pPc' \in {"estimate", "snapshot"}
        /\ taken' = taken /\ (pPc' = "estimate" => pWake' = w /\ pPc = "predict" /\ timeNow' = t)
    BY <1>3, <1>8 DEF Predict, Estimate, Awake, frames
  <2>2. pPc' = "snapshot" => pWake' <= l + i
    <3>1. CASE Predict
      <4>1. t = l /\ now \in Nat
        BY <1>3, <1>4, <3>1 DEF Predict, Awake
      <4>2. pPc' = "snapshot" => pWake' <= now + LongestSleep
        BY <3>1, <4>1, SleepIsShort
      <4> QED BY <1>3, <4>1, <4>2
    <3>2. CASE Estimate
      <4>1. timeNow = l /\ timeNow \in Nat
        BY <1>4, <3>2 DEF Estimate, Awake, Base, Types
      <4>2. pPc' = "snapshot" => pWake' <= timeNow + LongestSleep
        BY <3>2, <4>1, SleepIsShort
      <4> QED BY <1>3, <4>1, <4>2
    <3> QED BY <1>8, <3>1, <3>2
  <2>3. w <= t /\ l <= t /\ taken > 0 /\ Lasts(n) + l <= c + r + f
        /\ (pPc = "predict" => t = l)
    BY <1>4, <2>1 DEF Polls
  <2>4. VsyncDelays'
    BY <1>3, <2>1, <2>2, <2>3 DEF VsyncDelays, Polls
  <2> QED BY <1>0, <1>1, <1>2, <1>5, <2>1, <2>4 DEF VsyncHistory, Polls
<1>9. CASE Snapshot
  <2>1. /\ now' = t /\ pPc = "snapshot" /\ pPc' = "compare" /\ taken' = taken
        /\ pWake' = t + 1 /\ t <= w
    BY <1>3, <1>9 DEF Snapshot, Awake, frames, Base, OnTime
  <2>2. t <= l + i /\ t + 1 <= l + i + 1 /\ l <= t
    BY <1>4, <2>1 DEF Polls
  <2>3. VsyncDelays'
    BY <1>3, <1>4, <2>1, <2>2 DEF VsyncDelays, Polls
  <2> QED BY <1>0, <1>1, <1>2, <1>5, <2>1, <2>3 DEF VsyncHistory, Polls
<1>10. CASE SnapshotAgain
  <2>1. /\ now' = t /\ pPc = "look" /\ pPc' = "look" /\ taken' = taken
        /\ pWake' = t + 2 /\ t < giveUp
    BY <1>3, <1>10 DEF SnapshotAgain, Awake, frames
  <2>2. t + 2 <= l + i + 1
    <3>1. PICK h \in Nat, g \in Nat : h = FrameInterval \div 2 /\ h < f /\ g = giveUp /\ l = g - h
      BY <1>3, VsyncFacts DEF Loaded
    <3> QED BY <1>3, <2>1, <3>1
  <2>3. VsyncDelays'
    BY <1>3, <1>4, <2>1, <2>2 DEF VsyncDelays, Polls
  <2> QED BY <1>0, <1>1, <1>2, <1>5, <2>1, <2>3 DEF VsyncHistory, Polls
<1>11. CASE PollerWait
  <2>1. PICK d \in Throttles : pWake' = t + d
    BY <1>3, <1>11 DEF PollerWait
  <2>2. d \in Nat /\ d <= r
    BY <1>3, Constants
  <2>3. now' = t /\ pPc = "wait" /\ pPc' = "load" /\ taken' = taken
    BY <1>3, <1>11 DEF PollerWait, frames
  <2>4. n > 0 => Lasts(n) = f /\ t <= c
    BY <1>3, <1>4, <2>3, LastsGrows
  <2>5. t + d <= t + r /\ (n > 0 => Lasts(n) + (t + d) <= c + r + f)
    BY <2>2, <2>4
  <2>6. VsyncDelays'
    BY <1>3, <2>1, <2>3, <2>5 DEF VsyncDelays, Polls
  <2> QED BY <1>0, <1>1, <1>2, <2>3, <2>6 DEF VsyncHistory, Polls
<1>12. CASE PollerSends
  <2>1. now' = t /\ pPc = "send" /\ pPc' = "wait"
    BY <1>3, <1>12 DEF PollerSends
  <2>2. VsyncDelays'
    BY <1>3, <1>4, <2>1 DEF VsyncDelays, Polls
  <2> QED BY <1>0, <1>1, <1>2, <2>1, <2>2 DEF VsyncHistory, Polls
<1> QED BY <1>6, <1>7, <1>8, <1>9, <1>10, <1>11, <1>12

\* The steps of main that take frames, or expire the times of those it skipped.
LEMMA VsyncHistoryTakes ==
  ASSUME Base, SkipsFit, Counter, build = "vsync", VsyncHistory,
         PollerLoadsFrames \/ PollerTakesFrames \/ StopLooking
  PROVE  VsyncHistory'
<1>0. now' = now /\ pWake' = pWake /\ UNCHANGED <<nextVsync, frameSkipCounter>>
  BY DEF PollerLoadsFrames, PollerTakesFrames, StopLooking, vsync
<1>1. LastCounted' = LastCounted
  BY <1>0 DEF LastCounted, NextCounted
<1>2. PICK t \in Nat, w \in Nat, n \in Nat, f \in Nat \ {0}, i \in Nat, l \in Int, c \in Int,
           h \in Nat, r \in Nat :
        /\ r = MaxThrottle
        /\ t = now /\ w = pWake /\ n = numNewGpuFrames /\ f = FrameInterval /\ i = LongestSleep
        /\ l = Loaded /\ c = LastCounted /\ f < i /\ c <= t
        /\ t = now' /\ w = pWake' /\ c = LastCounted' /\ h = FrameInterval \div 2
  BY <1>0, <1>1, VsyncFacts
<1>3. CASE PollerLoadsFrames
  <2>1. /\ pPc = "load" /\ taken' = n /\ skips' = Current /\ numNewGpuFrames' = n /\ t = w
        /\ IF n > 0 THEN giveUp' = t + h /\ pPc' = "predict" ELSE pPc' = "send"
    BY <1>2, <1>3 DEF PollerLoadsFrames, Awake, Base, OnTime
  <2>2. SpreadOut(Current, n, c)
    BY <1>2, SpreadCurrent DEF VsyncHistory, Base
  <2>3. Len(Current) <= Len(skips) /\ Len(Current) \in Nat /\ Len(skips) \in Nat
        /\ (Len(Current) > 0 => t - Current[1] < SkipAge)
    BY <1>2, CurrentIsYoung, LenProperties DEF Base, Types
  <2>4. SkipsFitAlways' /\ SpreadOut(skips, numNewGpuFrames, LastCounted)'
    <3>1. HistoryMaxSize \in Nat
      BY TimingAssumption DEF TimingAssumption
    <3>2. Len(Current) <= HistoryMaxSize
      BY <2>3, <3>1 DEF VsyncHistory, SkipsFitAlways
    <3>3. SkipsFitAlways'
      BY <2>1, <3>2 DEF SkipsFitAlways
    <3>4. SpreadOut(skips, numNewGpuFrames, LastCounted)'
      BY <1>2, <2>1, <2>2 DEF SpreadOut
    <3> QED BY <3>3, <3>4
  <2>5. CASE n > 0
    <3>1. Loaded' = t
      <4>1. Loaded' = (t + h) - h
        BY <1>2, <2>1, <2>5, Zenon DEF Loaded
      <4> QED BY <4>1
    <3>2. Lasts(n) + t <= c + r + f
      BY <1>2, <2>1, <2>5 DEF VsyncHistory, VsyncDelays
    <3>3. VsyncDelays'
      BY <1>2, <2>1, <2>5, <3>1, <3>2 DEF VsyncDelays, Polls
    <3> QED BY <2>1, <2>3, <2>4, <3>1, <3>3 DEF VsyncHistory
  <2>6. CASE ~(n > 0)
    <3>1. VsyncDelays'
      BY <1>2, <2>1, <2>6 DEF VsyncDelays, Polls
    <3> QED BY <2>1, <2>4, <2>6, <3>1 DEF VsyncHistory, Polls
  <2> QED BY <2>5, <2>6
<1>4. ASSUME pPc \in {"compare", "look"}
      PROVE  /\ l \in Int /\ l <= now /\ c \in Int /\ c <= l + LongestSleep + 1
             /\ skips \in Seq(Start..now) /\ (Len(skips) > 0 => l - skips[1] < SkipAge)
             /\ SpreadOut(skips, n, c)
             /\ Lasts(n) + now <= c + LongestSleep + MaxThrottle + FrameInterval + 1
  <2>1. w <= l + i + 1 /\ l <= t /\ t <= w
    BY <1>2, <1>4 DEF VsyncHistory, VsyncDelays, Polls, Base, OnTime
  <2>2. Lasts(n) + l <= c + r + f
    <3>1. PICK x \in Nat : x = Lasts(n)
      BY LastsGrows
    <3>2. x + l <= c + r + f \/ x + l <= c + r
      BY <1>2, <1>4, <3>1 DEF VsyncHistory, VsyncDelays, Polls
    <3>3. x + l <= c + r + f
      BY <3>2
    <3> QED BY <3>1, <3>3
  <2>3. c <= l + i + 1
    BY <1>2, <2>1
  <2>4. Lasts(n) + t <= c + i + r + f + 1
    <3>1. PICK x \in Nat : x = Lasts(n)
      BY LastsGrows
    <3> QED BY <2>1, <2>2, <3>1
  <2>5. skips \in Seq(Start..now) /\ SpreadOut(skips, n, c)
        /\ (Len(skips) > 0 => l - skips[1] < SkipAge)
    BY <1>2, <1>4 DEF VsyncHistory, Polls, Base, Types
  <2> QED BY <1>2, <2>1, <2>3, <2>4, <2>5
<1>5. CASE PollerTakesFrames
  <2>1. /\ pPc = "compare" /\ pPc' = "look" /\ skips' = Skipped(skips, taken)
        /\ numNewGpuFrames' = n - taken /\ taken' = taken /\ giveUp' = giveUp
    BY <1>2, <1>5 DEF PollerTakesFrames, Awake
  <2>2. PICK k \in Nat \ {0}, j \in Nat : k = taken /\ j = n - k /\ k + j = n
    <3>1. taken \in Nat /\ taken <= n /\ taken > 0
      BY <1>2, <2>1, VsyncFacts DEF VsyncHistory, VsyncDelays, Polls, Base, Control
    <3> QED BY <3>1
  <2>3. Loaded' = l
    BY <1>2, <2>1 DEF Loaded
  <2>4. /\ SpreadOut(Skipped(skips, k), j, c)
        /\ Len(Skipped(skips, k)) <= HistoryMaxSize
        /\ Len(Skipped(skips, k)) > 0 => l - Skipped(skips, k)[1] < SkipAge
    <3>1. k > 0 => Lasts(k + j) + now <= c + LongestSleep + MaxThrottle + FrameInterval + 1
      BY <1>4, <2>1, <2>2
    <3>2. SpreadOut(skips, k + j, c)
      BY <1>4, <2>1, <2>2
    <3> QED BY <1>4, <2>1, <3>1, <3>2, TakenFit DEF Base
  <2>5. SkipsFitAlways' /\ SpreadOut(skips, numNewGpuFrames, LastCounted)'
    BY <1>2, <2>1, <2>2, <2>4 DEF SkipsFitAlways, SpreadOut
  <2>6. Lasts(j) + l <= c + r
    <3>1. Lasts(n) + l <= c + r + f
      BY <1>2, <2>1 DEF VsyncHistory, VsyncDelays, Polls
    <3>2. PICK x \in Nat, y \in Nat : x = Lasts(n) /\ y = Lasts(j) /\ y + f <= x
      <4>1. j + 1 \in Nat /\ j + 1 <= n
        BY <2>2
      <4>2. Lasts(j + 1) = Lasts(j) + f /\ Lasts(j + 1) <= Lasts(n) /\ Lasts(j) \in Nat
            /\ Lasts(n) \in Nat
        BY <1>2, <4>1, LastsGrows
      <4> QED BY <4>2
    <3> QED BY <3>1, <3>2
  <2>7. VsyncDelays'
    <3>1. w <= l + i + 1 /\ l <= t
      BY <1>2, <2>1 DEF VsyncHistory, VsyncDelays, Polls
    <3> QED BY <1>2, <2>1, <2>2, <2>3, <2>6, <3>1 DEF VsyncDelays, Polls
  <2> QED BY <2>1, <2>2, <2>3, <2>4, <2>5, <2>7 DEF VsyncHistory
<1>6. CASE StopLooking
  <2>1. /\ pPc = "look" /\ pPc' = "send" /\ skips' = Skipped(skips, n) /\ numNewGpuFrames' = 0
    BY <1>2, <1>6 DEF StopLooking, Awake
  <2>2. n + 0 = n
    OBVIOUS
  <2>3. /\ SpreadOut(Skipped(skips, n), 0, c)
        /\ Len(Skipped(skips, n)) <= HistoryMaxSize
    <3>1. n > 0 => Lasts(n + 0) + now <= c + LongestSleep + MaxThrottle + FrameInterval + 1
      BY <1>4, <2>1, <2>2
    <3>2. SpreadOut(skips, n + 0, c)
      BY <1>4, <2>1, <2>2
    <3> QED BY <1>4, <2>1, <3>1, <3>2, TakenFit DEF Base
  <2>4. SkipsFitAlways' /\ SpreadOut(skips, numNewGpuFrames, LastCounted)'
    BY <1>2, <2>1, <2>3 DEF SkipsFitAlways, SpreadOut
  <2>5. VsyncDelays'
    BY <2>1 DEF VsyncDelays, Polls
  <2> QED BY <2>1, <2>4, <2>5 DEF VsyncHistory, Polls
<1> QED BY <1>3, <1>5, <1>6

LEMMA VsyncHistoryStep ==
  ASSUME Base, SkipsFit, Counter, ~misled', build = "vsync", VsyncHistory,
         [Next]_vars
  PROVE  VsyncHistory'
<1>1. CASE UNCHANGED vars
  <2>1. /\ UNCHANGED <<now, pPc, pWake, timeNow, taken, giveUp, skips, numNewGpuFrames, nextVsync,
                      frameSkipCounter>>
    BY <1>1 DEF vars, poller, frames, vsync
  <2>2. Loaded' = Loaded /\ LastCounted' = LastCounted
    BY <2>1 DEF Loaded, LastCounted, NextCounted
  <2>3. VsyncDelays' /\ SpreadOut(skips, numNewGpuFrames, LastCounted)' /\ SkipsFitAlways'
    BY <2>1, <2>2, VsyncDelaysKept, SpreadSame DEF VsyncHistory
  <2> QED BY <2>1, <2>2, <2>3 DEF VsyncHistory
<1>2. CASE Next
  <2>1. CASE Tick \/ RenderFrame \/ Predict \/ Estimate \/ Snapshot \/ SnapshotAgain \/ PollerWait
               \/ PollerSends
    BY <2>1, VsyncHistoryWaits
  <2>2. CASE PollerLoadsFrames \/ PollerTakesFrames \/ StopLooking
    BY <2>2, VsyncHistoryTakes
  <2>3. CASE VsyncCallback
    BY <2>3, VsyncHistoryCallback
  <2>4. ~SleepUntilTarget /\ ~NewFramebuffer /\ ~SameFramebuffer /\ ~MainWait
        /\ ~MainTakesFrames /\ ~MainEstimates
    BY DEF SleepUntilTarget, NewFramebuffer, SameFramebuffer, MainWait, MainTakesFrames,
           MainEstimates, Base, Control
  <2> QED BY <1>2, <2>1, <2>2, <2>3, <2>4, Zenon DEF Next
<1> QED BY <1>1, <1>2

\* The times of skipped frames fit into their array, though nothing but the pace of main
\* bounds their number: frames are counted a FrameInterval apart, and main is never away for
\* longer than it may sleep and wait.  Without vsync that is always so, with it until a
\* prediction has been misled.
THEOREM SkippedFramesFit ==
  ASSUME SkipsFit
  PROVE  Spec => [](SkipHistoryInBounds /\ (build = "polled" => SkipsFitAlways))
<1> DEFINE Paced == /\ build = "polled" => PolledHistory
                    /\ build = "vsync" /\ ~misled => VsyncHistory
<1>1. Init => Counter /\ Paced
  <2> SUFFICES ASSUME Init PROVE Counter /\ Paced
    OBVIOUS
  <2>1. Counter
    BY ScheduleInit
  <2>2. SpreadOut(skips, numNewGpuFrames, received) /\ SkipsFitAlways
        /\ SpreadOut(skips, numNewGpuFrames, LastCounted)
    <3>1. skips = <<>> /\ Len(skips) = 0 /\ HistoryMaxSize \in Nat
      BY TimingAssumption DEF Init, TimingAssumption
    <3> QED BY <3>1 DEF SpreadOut, SkipsFitAlways
  <2>3. build = "polled" => PolledHistory
    BY <2>2 DEF Init, PolledHistory
  <2>4. build = "vsync" => VsyncHistory
    BY <2>2 DEF Init, VsyncHistory, VsyncDelays, Polls
  <2> QED BY <2>1, <2>3, <2>4
<1>2. Base /\ Counter /\ Paced /\ [Next]_vars => (Counter /\ Paced)'
  <2> SUFFICES ASSUME Base, Counter, Paced, [Next]_vars PROVE Counter' /\ Paced'
    OBVIOUS
  <2>1. Counter'
    BY CounterStep
  <2>2. build' = build /\ (~misled' => ~misled)
    BY TimeMoves, MisledGrows DEF vars
  <2>3. build = "polled" => PolledHistory'
    BY PolledHistoryStep
  <2>4. build = "vsync" /\ ~misled' => VsyncHistory'
    BY <2>2, VsyncHistoryStep
  <2> QED BY <2>1, <2>2, <2>3, <2>4
<1>3. Base /\ Paced => SkipHistoryInBounds /\ (build = "polled" => SkipsFitAlways)
  <2>1. Base => build \in {"polled", "vsync"}
    BY Constants DEF Base, Types
  <2> QED BY <2>1 DEF PolledHistory, VsyncHistory, SkipHistoryInBounds
<1> QED BY <1>1, <1>2, <1>3, BaseInvariant, PTL DEF Spec
=============================================================================
