----------------------------- MODULE FrameTiming -----------------------------
(***************************************************************************)
(* When the screen is polled for a new frame.  The thread that polls keeps *)
(* a histogram of the times at which frames arrived, predicts the next one *)
(* from it and sleeps until then; a screen that rests is polled less       *)
(* often.  Without USE_GPU_VSYNC that thread is gpu_polling_thread, which  *)
(* counts new frames for the main thread; with USE_GPU_VSYNC it is the     *)
(* main thread itself, which VsyncCallback wakes.  Both builds save        *)
(* battery in all three ways of config.h, and keep the times of the frames *)
(* the main thread has skipped for the statistics overlay.                 *)
(*                                                                         *)
(* Time goes on in units (Tick) while every thread sleeps, waits or takes  *)
(* a snapshot; what they do in between takes less than a unit, and so do   *)
(* minimumSleepTime and earlyFramePrediction.  But a thread may be         *)
(* preempted, and a prediction reads the timer twice: time may pass        *)
(* between the two readings.  Counting and taking frames without a lock is *)
(* the subject of FrameDelivery.  A local variable is set back when it     *)
(* goes out of scope.                                                      *)
(***************************************************************************)
EXTENDS Integers, Sequences, FiniteSets

CONSTANTS
  Builds,           \* subset of {"polled", "vsync"}
  Start, MaxTime,   \* tick() at InitGPU, and a bound on it
  VsyncInterval,    \* between two vertical blanks
  FrameInterval,    \* 1000000/TARGET_FRAME_RATE, a multiple of VsyncInterval
  IdleInterval,     \* 100 ms
  DeepInterval,     \* 500 ms
  IdleAge,          \* 5 s
  DeepIdleAge,      \* 60 s
  MaxSampleAge,     \* HISTOGRAM_MAX_SAMPLE_AGE, 10 s
  SkipAge,          \* 1 s
  HistogramSize,    \* HISTOGRAM_SIZE
  HistoryMaxSize,   \* FRAME_HISTORY_MAX_SIZE
  Throttles,        \* how long main may wait for the SPI thread,
  MaxThrottle,      \* and a bound on it
  MaxInterlaced,    \* bound: interlaced updates in a row that one frame and a full queue cause
  TimeModulus,      \* 2^64: times are unsigned
  Uninitialized,    \* what a variable may hold that nobody has written, but for its old value
  MaxDelay          \* bound: time between the two readings of the timer in a prediction

ASSUME TimingAssumption ==
  /\ Builds \subseteq {"polled", "vsync"}
  /\ {VsyncInterval, FrameInterval, HistogramSize} \subseteq Nat \ {0}
  /\ Throttles \subseteq 0..MaxThrottle
  /\ {MaxThrottle, MaxDelay, HistoryMaxSize, MaxInterlaced} \subseteq Nat
  /\ {Start, MaxTime, IdleInterval, DeepInterval, SkipAge, IdleAge} \subseteq Nat
  /\ {MaxSampleAge, DeepIdleAge} \subseteq Nat
  /\ TimeModulus \in Nat /\ MaxTime + DeepIdleAge < TimeModulus
  /\ Uninitialized \subseteq 0..TimeModulus - 1
  /\ FrameInterval % VsyncInterval = 0
  /\ FrameInterval < IdleInterval /\ IdleInterval < DeepInterval /\ DeepInterval < SkipAge
  /\ SkipAge < IdleAge /\ IdleAge < MaxSampleAge /\ MaxSampleAge < DeepIdleAge
  /\ HistogramSize * FrameInterval < Start /\ Start < MaxTime

VARIABLES
  build, now,
  fresh,               \* the screen shows a frame no snapshot has
  numNewGpuFrames,
  \* the histogram, the most recent time first: arrivals[i] is GET_HISTOGRAM(i)
  arrivals, histogramSize,
  eager,               \* eagerFastTrackToSnapshottingFramesEarlierFactor
  lastFramePollTime,
  \* the thread that polls
  pPc, pWake,          \* it sleeps until pWake
  timeNow,             \* PredictNextFrameArrivalTime's reading of the timer
  received,            \* lastNewFrameReceivedTime, or frameObtainedTime with vsync
  giveUp, got,         \* with vsync: until when to look for a new frame, and whether there is one
  \* the main thread, if it does not poll
  mPc, mWake,
  \* of the main thread in both builds
  taken,               \* numNewFrames
  skips,               \* frameSkipTimeHistory, of frameSkipTimeHistorySize entries
  interlacedUpdate,    \* as the number of interlaced updates that may still follow
  \* VsyncCallback
  nextVsync, frameSkipCounter,
  \* history, no variable of the code: whether a prediction has taken an active screen at its
  \* first reading of the timer, and an idle one at its second
  misled

histogram == <<arrivals, histogramSize>>
poller == <<pPc, pWake, timeNow, received, giveUp, got>>
mainThread == <<mPc, mWake>>
frames == <<taken, skips, interlacedUpdate>>
vsync == <<nextVsync, frameSkipCounter>>
vars == <<build, now, fresh, numNewGpuFrames, histogram, eager, lastFramePollTime,
          poller, mainThread, frames, vsync, misled>>

Least(a, b) == IF a <= b THEN a ELSE b
Greatest(a, b) == IF a >= b THEN a ELSE b
Lowest(S) == CHOOSE n \in S : \A m \in S : n <= m

-----------------------------------------------------------------------------
(* The histogram *)

\* t - s, unsigned.
Age(t, s) == (t - s) % TimeModulus

\* As it would be if only one old entry were dropped.
KeptOne(times, size) ==
  IF Age(times[0], times[size - 1]) > MaxSampleAge THEN size - 1 ELSE size

\* "Expire too old entries": how many are left of the first size ones.
Kept(times, size) ==
  LET old == {n \in 1..size : \A i \in n..size : Age(times[0], times[i - 1]) > MaxSampleAge}
  IN  IF old = {} THEN size ELSE Lowest(old) - 1

\* With size of the entries before it.
AddHistogramSample(t, size) ==
  LET times == [i \in 0..HistogramSize - 1 |-> IF i = 0 THEN t ELSE arrivals[i - 1]]
  IN  /\ arrivals' = times
      /\ histogramSize' = Kept(times, Least(size + 1, HistogramSize))

mostRecentFrame(t) == IF histogramSize > 0 THEN arrivals[0] ELSE t

\* The 40% percentile of the intervals between frames, earlier ones the more eager: the
\* lowest interval that more of them than that do not exceed.
Percentile ==
  LET n == histogramSize - 1
      interval(i) == Least(IdleInterval, Age(arrivals[i - 1], arrivals[i]))
      NotAbove(v) == {i \in 1..n : interval(i) <= v}
      percentile == Greatest((n * 2) \div 5 - eager, 0)
  IN  Lowest({v \in {interval(i) : i \in 1..n} : Cardinality(NotAbove(v)) > percentile})

\* EstimateFrameRateInterval at time t; what it does to histogramSize is Shrunk.
EstimateFrameRateInterval(t) ==
  IF histogramSize = 0 THEN FrameInterval
  ELSE IF Age(t, arrivals[0]) > DeepIdleAge THEN DeepInterval
  ELSE IF Age(t, arrivals[0]) > IdleAge THEN lastFramePollTime + IdleInterval
  ELSE IF histogramSize < 2 THEN IdleInterval
  ELSE LET interval == Least(Percentile, Age(arrivals[0], arrivals[1])) - eager
       IN  Greatest(Least(interval, IdleInterval), FrameInterval)

\* As it would be if a deep sleep emptied the histogram.
ShrunkToNone(t) ==
  IF histogramSize > 0 /\ Age(t, arrivals[0]) > DeepIdleAge THEN 0 ELSE histogramSize

Shrunk(t) ==
  IF histogramSize > 0 /\ Age(t, arrivals[0]) > DeepIdleAge THEN 1 ELSE histogramSize

\* "Assume that frames are arriving at times mostRecentFrame + k * interval"; one that was
\* due less than a third of the interval ago is taken for just missed.
NextArrival(interval) ==
  LET latest == mostRecentFrame(timeNow)
      k == (timeNow - latest + interval - 1) \div interval
      next == latest + k * interval
      previousMissed == next - interval
  IN  IF timeNow - previousMissed < interval \div 3 /\ previousMissed > latest
        THEN timeNow ELSE next

\* "Record some fake samples to frame rate histogram to fast track it to warm state":
\* without vsync.
Init ==
  /\ build \in Builds
  /\ now = Start
  /\ fresh = FALSE /\ numNewGpuFrames = 0
  /\ arrivals = [i \in 0..HistogramSize - 1 |->
                   IF build = "polled" THEN Start - FrameInterval * (i + 1) ELSE 0]
  /\ histogramSize = IF build = "polled" THEN Kept(arrivals, HistogramSize) ELSE 0
  /\ eager = 0 /\ lastFramePollTime = 0
  /\ pPc = IF build = "polled" THEN "target" ELSE "wait"
  /\ pWake = Start /\ timeNow = Start /\ received = Start
  /\ giveUp = Start /\ got = FALSE
  /\ mPc = "wait" /\ mWake = Start
  /\ taken = 0 /\ skips = <<>> /\ interlacedUpdate = 0
  /\ nextVsync = Start + VsyncInterval /\ frameSkipCounter = 0
  /\ misled = FALSE

-----------------------------------------------------------------------------
(* Time, and the GPU *)

SomeFrame == numNewGpuFrames > 0 \/ interlacedUpdate > 0

PollerRests ==
  \/ pWake > now
  \/ pPc = "wait" /\ ~SomeFrame
  \/ pPc = "estimate" /\ now < timeNow + MaxDelay

MainRests == build = "vsync" \/ mWake > now \/ (mPc = "wait" /\ ~SomeFrame)

Tick ==
  /\ now < MaxTime
  /\ PollerRests /\ MainRests
  /\ build = "vsync" => nextVsync > now
  /\ now' = now + 1
  /\ UNCHANGED <<build, fresh, numNewGpuFrames, histogram, eager, lastFramePollTime,
                 poller, mainThread, frames, vsync, misled>>

\* An application renders.
RenderFrame ==
  /\ ~fresh /\ fresh' = TRUE
  /\ UNCHANGED <<build, now, numNewGpuFrames, histogram, eager, lastFramePollTime,
                 poller, mainThread, frames, vsync, misled>>

\* Every second or third blank is processed if TARGET_FRAME_RATE is 30 or 20: the counter
\* goes up by the rate, here by VsyncInterval, until it has a whole frame.
VsyncCallback ==
  /\ build = "vsync" /\ now = nextVsync
  /\ nextVsync' = now + VsyncInterval
  /\ LET counter == frameSkipCounter + VsyncInterval
     IN  IF counter < FrameInterval
           THEN frameSkipCounter' = counter /\ UNCHANGED numNewGpuFrames
           ELSE /\ frameSkipCounter' = counter - FrameInterval
                /\ numNewGpuFrames' = numNewGpuFrames + 1
  /\ UNCHANGED <<build, now, fresh, histogram, eager, lastFramePollTime, poller, mainThread,
                 frames, misled>>

-----------------------------------------------------------------------------
(* The thread that polls, in both builds *)

Awake(pc) == pPc = pc /\ now >= pWake

\* As it would be if the idle screen were polled so long after its last frame.
IdlePollFromFrame == mostRecentFrame(now) + IdleInterval

\* As it would be if the interval began with the prediction.
IdlePollFromNow == now + IdleInterval

IdlePoll == lastFramePollTime + IdleInterval

\* PredictNextFrameArrivalTime up to its call of EstimateFrameRateInterval.
Predict ==
  /\ Awake("predict")
  /\ histogramSize' = Shrunk(now)
  /\ IF Age(now, mostRecentFrame(now)) > IdleAge
       THEN pWake' = Greatest(now, IdlePoll) /\ pPc' = "snapshot" /\ UNCHANGED timeNow
       ELSE timeNow' = now /\ pPc' = "estimate" /\ UNCHANGED pWake
  /\ UNCHANGED <<build, now, fresh, numNewGpuFrames, arrivals, eager, lastFramePollTime,
                 received, giveUp, got, mainThread, frames, vsync, misled>>

\* What EstimateFrameRateInterval says of a screen that has become idle between the readings
\* is no interval, but the time of the next poll: the sleep is as long as the machine has been
\* up (usleep takes it modulo 2^32, 71 minutes).
Estimate ==
  /\ Awake("estimate")
  /\ histogramSize' = Shrunk(now)
  /\ pWake' = Greatest(now, NextArrival(EstimateFrameRateInterval(now)))
  /\ timeNow' = Start
  /\ misled' = (misled \/ (histogramSize > 0 /\ Age(now, arrivals[0]) > IdleAge))
  /\ pPc' = "snapshot"
  /\ UNCHANGED <<build, now, fresh, numNewGpuFrames, arrivals, eager, lastFramePollTime,
                 received, giveUp, got, mainThread, frames, vsync>>

\* SnapshotFramebuffer, which takes a unit of time.
Snapshot ==
  /\ Awake("snapshot")
  /\ lastFramePollTime' = now
  /\ pWake' = now + 1
  /\ pPc' = "compare"
  /\ UNCHANGED <<build, now, fresh, numNewGpuFrames, histogram, eager, timeNow, received,
                 giveUp, got, mainThread, frames, vsync, misled>>

-----------------------------------------------------------------------------
(* gpu_polling_thread *)

SleepUntilTarget ==
  /\ build = "polled" /\ Awake("target")
  /\ pWake' = Greatest(now, received + FrameInterval)
  /\ pPc' = "predict"
  /\ UNCHANGED <<build, now, fresh, numNewGpuFrames, histogram, eager, lastFramePollTime,
                 timeNow, received, giveUp, got, mainThread, frames, vsync, misled>>

\* t0 is when the snapshot began.
NewFramebuffer ==
  /\ build = "polled" /\ Awake("compare") /\ fresh
  /\ fresh' = FALSE
  /\ received' = lastFramePollTime
  /\ AddHistogramSample(lastFramePollTime, histogramSize)
  /\ eager' = eager + 1
  /\ numNewGpuFrames' = numNewGpuFrames + 1
  /\ pPc' = "target"
  /\ UNCHANGED <<build, now, lastFramePollTime, pWake, timeNow, giveUp, got, mainThread,
                 frames, vsync, misled>>

SameFramebuffer ==
  /\ build = "polled" /\ Awake("compare") /\ ~fresh
  /\ eager' = eager \div 2
  /\ pPc' = "target"
  /\ UNCHANGED <<build, now, fresh, numNewGpuFrames, histogram, lastFramePollTime, pWake,
                 timeNow, received, giveUp, got, mainThread, frames, vsync, misled>>

-----------------------------------------------------------------------------
(* The main thread *)

\* As it would be without the loop that expires them.
Unexpired == skips

Current ==
  LET young == {n \in 1..Len(skips) : now - skips[n] < SkipAge}
  IN  IF young = {} THEN <<>> ELSE SubSeq(skips, Lowest(young), Len(skips))

Skipped(times, count) == times \o [n \in 1..Greatest(0, count - 1) |-> now]

Interlaced == IF taken > 0 THEN 0..MaxInterlaced ELSE {0, Greatest(0, interlacedUpdate - 1)}

\* As it would be if a wait that returns were taken for a new frame.
MainReturnsFromWait ==
  /\ build = "polled" /\ mPc = "wait" /\ now >= mWake
  /\ \E d \in Throttles : mWake' = now + d
  /\ mPc' = "load"
  /\ UNCHANGED <<build, now, fresh, numNewGpuFrames, histogram, eager, lastFramePollTime,
                 poller, frames, vsync, misled>>

\* It waits for a frame, or has the other field to send, and then until the SPI thread has
\* done the older of two frames.
MainWait ==
  /\ build = "polled" /\ mPc = "wait" /\ SomeFrame
  /\ \E d \in Throttles : mWake' = now + d
  /\ mPc' = "load"
  /\ UNCHANGED <<build, now, fresh, numNewGpuFrames, histogram, eager, lastFramePollTime,
                 poller, frames, vsync, misled>>

\* It takes all frames that were counted; those but the last are skipped.
MainTakesFrames ==
  /\ mPc = "load" /\ now >= mWake
  /\ taken' = numNewGpuFrames
  /\ skips' = Skipped(Current, numNewGpuFrames)
  /\ numNewGpuFrames' = 0
  /\ mPc' = "estimate"
  /\ UNCHANGED <<build, now, fresh, histogram, eager, lastFramePollTime, poller, mWake,
                 interlacedUpdate, vsync, misled>>

\* It too calls EstimateFrameRateInterval, to choose an interlaced update: of a new frame,
\* or because the queue is still full.
MainEstimates ==
  /\ mPc = "estimate"
  /\ histogramSize' = Shrunk(now)
  /\ interlacedUpdate' \in Interlaced
  /\ taken' = 0
  /\ mPc' = "wait"
  /\ UNCHANGED <<build, now, fresh, numNewGpuFrames, arrivals, eager, lastFramePollTime, poller,
                 mWake, skips, vsync, misled>>

\* With vsync main waits in the same way, ...
PollerWait ==
  /\ build = "vsync" /\ pPc = "wait" /\ SomeFrame
  /\ \E d \in Throttles : pWake' = now + d
  /\ pPc' = "load"
  /\ UNCHANGED <<build, now, fresh, numNewGpuFrames, histogram, eager, lastFramePollTime,
                 timeNow, received, giveUp, got, mainThread, frames, vsync, misled>>

\* ... without a frame it has only the other field to send, ...
PollerLoadsFrames ==
  /\ Awake("load")
  /\ taken' = numNewGpuFrames
  /\ skips' = Current
  /\ IF taken' > 0
       THEN /\ received' = now
            /\ giveUp' = now + FrameInterval \div 2
            /\ pPc' = "predict"
       ELSE pPc' = "send" /\ UNCHANGED <<received, giveUp>>
  /\ UNCHANGED <<build, now, fresh, numNewGpuFrames, histogram, eager, lastFramePollTime,
                 pWake, timeNow, got, mainThread, interlacedUpdate, vsync, misled>>

\* ... takes the frames when it has slept and snapshot the screen, ...
PollerTakesFrames ==
  /\ build = "vsync" /\ Awake("compare")
  /\ skips' = Skipped(skips, taken)
  /\ numNewGpuFrames' = numNewGpuFrames - taken
  /\ pPc' = "look"
  /\ UNCHANGED <<build, now, fresh, histogram, eager, lastFramePollTime, pWake, timeNow,
                 received, giveUp, got, mainThread, taken, interlacedUpdate, vsync, misled>>

\* ... looks in vain and snapshots the screen again after 2 ms, ...
SnapshotAgain ==
  /\ Awake("look") /\ ~fresh /\ now < giveUp
  /\ received' = now + 1
  /\ lastFramePollTime' = now + 1
  /\ pWake' = now + 2
  /\ UNCHANGED <<build, now, fresh, numNewGpuFrames, histogram, eager, pPc, timeNow, giveUp,
                 got, mainThread, frames, vsync, misled>>

\* ... or finds a new frame, or gives up and takes what was counted meanwhile, ...
StopLooking ==
  /\ Awake("look") /\ (fresh \/ now >= giveUp)
  /\ got' = fresh /\ fresh' = FALSE
  /\ skips' = Skipped(skips, numNewGpuFrames)
  /\ numNewGpuFrames' = 0
  /\ giveUp' = Start
  /\ pPc' = "send"
  /\ UNCHANGED <<build, now, histogram, eager, lastFramePollTime, pWake, timeNow, received,
                 mainThread, taken, interlacedUpdate, vsync, misled>>

\* ... and maintains the histogram, if there is anything to send.  That may be the other
\* field alone: then frameObtainedTime has not been written in this round.
PollerSends ==
  /\ pPc = "send"
  /\ \E sends \in {got, got \/ interlacedUpdate > 0} :
       IF sends THEN \E t \in {received} \cup (IF taken > 0 THEN {} ELSE Uninitialized) :
                       AddHistogramSample(t, Shrunk(now))
       ELSE histogramSize' = Shrunk(now) /\ UNCHANGED arrivals
  /\ interlacedUpdate' \in Interlaced
  /\ got' = FALSE /\ taken' = 0
  /\ pPc' = "wait"
  /\ UNCHANGED <<build, now, fresh, numNewGpuFrames, eager, lastFramePollTime, pWake, timeNow,
                 received, giveUp, mainThread, skips, vsync, misled>>

Next ==
  \/ Tick \/ RenderFrame \/ VsyncCallback
  \/ SleepUntilTarget \/ Predict \/ Estimate \/ Snapshot \/ NewFramebuffer \/ SameFramebuffer
  \/ MainWait \/ MainTakesFrames \/ MainEstimates
  \/ PollerWait \/ PollerLoadsFrames \/ PollerTakesFrames
  \/ SnapshotAgain \/ StopLooking \/ PollerSends

Spec == Init /\ [][Next]_vars

-----------------------------------------------------------------------------
(* Properties *)

\* Types; the entries of the histogram that count are at least one and no more than there
\* are, so that the percentile is taken of intervals that exist.
TypeOK ==
  /\ build \in Builds /\ now \in Start..MaxTime /\ fresh \in BOOLEAN
  /\ numNewGpuFrames \in Nat /\ taken \in Nat
  /\ DOMAIN arrivals = 0..HistogramSize - 1
  /\ histogramSize \in (IF build = "polled" THEN 1 ELSE 0)..HistogramSize
  /\ eager \in Nat /\ lastFramePollTime \in {0} \cup Start..now + 1
  /\ {pWake, mWake, timeNow, received, giveUp} \subseteq Nat
  /\ interlacedUpdate \in 0..MaxInterlaced
  /\ \A n \in DOMAIN skips : skips[n] \in Start..now

\* "Returns Nth most recent entry in the frame times histogram", "a max age for histogram
\* entries of 10 seconds": whatever was dropped and added, the entries that count are in
\* order and of a single stretch of activity, so that no interval wraps below 0: also when
\* one of them is what was in an uninitialized variable.
HistogramSound ==
  /\ \A i \in 1..histogramSize - 1 : arrivals[i] <= arrivals[i - 1]
  /\ histogramSize > 0 => Age(arrivals[0], arrivals[histogramSize - 1]) <= MaxSampleAge

\* "assume interval of 100ms": the screen is polled that often at least, however the idle
\* modes, the prediction and the histogram follow on each other: or as soon as a thread that
\* was preempted goes on.  With vsync it also takes the next blank, the wait for the SPI thread
\* and the snapshot.
PolledAlways ==
  lastFramePollTime # 0 =>
    now - lastFramePollTime <=
      IF build = "polled" THEN Greatest(IdleInterval, FrameInterval + MaxDelay)
      ELSE Greatest(IdleInterval, MaxDelay) + FrameInterval + MaxThrottle + 1

\* What the code keeps of that promise: it holds until a thread is preempted between the two
\* readings of a prediction just as the screen becomes idle.
PolledInTime == ~misled => PolledAlways

\* "goes to low power mode, in which new frames will be polled first at 10fps, and ultimately
\* at only 2fps": the first half, which is all that the code keeps: a screen without a new frame
\* for five seconds is polled no more often than that.  PolledAlways says that it is not polled
\* less often either: also after a minute, as Predict does not come to DeepInterval.
RestsWhenIdle ==
  [][(build = "polled" /\ Snapshot /\ lastFramePollTime - arrivals[0] > IdleAge)
       => lastFramePollTime' - lastFramePollTime >= IdleInterval]_vars

\* frameSkipTimeHistory[FRAME_HISTORY_MAX_SIZE] is what main writes to as long as it has less
\* than FRAMERATE_HISTORY_LENGTH entries, a time in microseconds: only that main comes around
\* often enough to expire them bounds their number.
SkipsFitAlways == Len(skips) <= HistoryMaxSize

\* Which it does until a misled prediction has put it to sleep: with vsync the callback goes on
\* counting, and main then writes past the end of the array.
SkipHistoryInBounds == ~misled => SkipsFitAlways

\* "that dedicated thread maintains the frame histogram": EstimateFrameRateInterval sets
\* histogramSize to 1 on an idle screen, on the main thread too, but that thread never
\* comes there unless a frame has just arrived.
MainLeavesHistogram == [][MainEstimates => UNCHANGED histogramSize]_vars
=============================================================================
