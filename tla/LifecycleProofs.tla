-------------------------- MODULE LifecycleProofs --------------------------
(***************************************************************************)
(* TLAPS proofs about Lifecycle, for tasks, queues and frames of any size: *)
(* while the program runs the queue holds whole tasks, of no more than two *)
(* frames.                                                                 *)
(*                                                                         *)
(* The throttle compares distances modulo the ring to the end of a frame   *)
(* that is two frames old.  That this is right needs what main has         *)
(* submitted since, at each step of a frame (FramesBounded): the end of    *)
(* the last frame is the tail until main submits again, and that of the    *)
(* frame before lies at most a frame behind it.                            *)
(***************************************************************************)
EXTENDS Lifecycle, TLAPS

Frame == TasksPerFrame * TaskSize

Position == 0..Ring - 1
Behind(tail, pos) == (tail + Ring - pos) % Ring
Aligned(pos) == pos \in Position /\ pos % TaskSize = 0

-----------------------------------------------------------------------------
(* Positions in the ring *)

LEMMA RingSize ==
  /\ TaskSize \in Nat /\ TaskSize > 1 /\ TasksPerFrame \in Nat /\ Capacity \in Nat
  /\ Ring \in Nat /\ Ring = Capacity * TaskSize + TaskSize /\ Capacity * TaskSize \in Nat
  /\ Frame \in Nat /\ Frame + TaskSize <= Capacity * TaskSize
  /\ Ring % TaskSize = 0
<1>1. /\ TaskSize \in Nat /\ TaskSize > 1 /\ TasksPerFrame \in Nat /\ Capacity \in Nat
      /\ TasksPerFrame + 1 <= Capacity
  BY LifecycleAssumption DEF LifecycleAssumption
<1>2. Ring \in Nat /\ Ring = Capacity * TaskSize + TaskSize /\ Capacity * TaskSize \in Nat
  BY <1>1 DEF Ring
<1>3. Frame \in Nat /\ Frame + TaskSize <= Capacity * TaskSize
  <2>1. (Capacity - TasksPerFrame - 1) * TaskSize >= 0
    BY <1>1
  <2> QED BY <1>1, <2>1 DEF Frame
<1>4. Ring % TaskSize = 0
  BY <1>1 DEF Ring
<1> QED BY <1>1, <1>2, <1>3, <1>4

\* A number less than twice the divisor.
LEMMA ModTwice ==
  ASSUME NEW n \in Nat \ {0}, NEW a \in Nat, a < 2 * n
  PROVE  a % n = IF a < n THEN a ELSE a - n
<1> DEFINE q == a \div n
           r == a % n
<1>1. a = n * q + r /\ r \in 0..n - 1 /\ q \in Nat
  OBVIOUS
<1> HIDE DEF q, r
<1>2. q = 0 \/ q = 1
  <2> SUFFICES ASSUME q >= 2 PROVE FALSE
    BY <1>1
  <2>1. n * (q - 2) >= 0
    BY <1>1
  <2> QED BY <1>1, <2>1
<1>3. r = IF a < n THEN a ELSE a - n
  BY <1>1, <1>2
<1> QED BY <1>3 DEF r

LEMMA TimesGrows ==
  ASSUME NEW n \in Nat, NEW a \in Nat, NEW b \in Nat, a <= b
  PROVE  a * n \in Nat /\ a * n <= b * n
<1>1. PICK c \in Nat : b = a + c
  <2>1. b - a \in Nat /\ b = a + (b - a)
    OBVIOUS
  <2> QED BY <2>1
<1>2. b * n = a * n + c * n /\ c * n \in Nat /\ a * n \in Nat
  BY <1>1
<1> QED BY <1>2

\* How far behind the tail a position is.
LEMMA BehindIs ==
  ASSUME NEW tail \in Position, NEW pos \in Position
  PROVE  /\ Behind(tail, pos) \in Position
         /\ Behind(tail, pos) = IF pos <= tail THEN tail - pos ELSE tail + Ring - pos
<1> DEFINE a == tail + Ring - pos
<1>1. /\ Ring \in Nat \ {0} /\ a \in Nat /\ a < 2 * Ring /\ Behind(tail, pos) = a % Ring
      /\ tail \in Nat /\ pos \in Nat /\ pos < Ring /\ tail < Ring
      /\ (a < Ring <=> ~(pos <= tail)) /\ a - Ring = tail - pos
  BY RingSize DEF Position, Behind
<1>2. a % Ring = IF a < Ring THEN a ELSE a - Ring
  <2> HIDE DEF a
  <2> QED BY <1>1, ModTwice
<1>3. Behind(tail, pos) = IF pos <= tail THEN tail - pos ELSE tail + Ring - pos
  BY <1>1, <1>2
<1> QED BY <1>1, <1>3 DEF Position

\* One task further.
LEMMA AdvanceTask ==
  ASSUME NEW pos \in Position
  PROVE  /\ Advance(pos, TaskSize) \in Position
         /\ Advance(pos, TaskSize) = IF pos + TaskSize < Ring THEN pos + TaskSize
                                                              ELSE pos + TaskSize - Ring
<1> DEFINE a == pos + TaskSize
<1>1. /\ Ring \in Nat \ {0} /\ a \in Nat /\ a < 2 * Ring
      /\ pos \in Nat /\ TaskSize \in Nat /\ Advance(pos, TaskSize) = a % Ring
  BY RingSize DEF Position, Advance
<1>2. a % Ring = IF a < Ring THEN a ELSE a - Ring
  <2> HIDE DEF a
  <2> QED BY <1>1, ModTwice
<1>3. Advance(pos, TaskSize) \in Position
  <2> HIDE DEF a
  <2> QED BY <1>1, <1>2 DEF Position
<1> QED BY <1>1, <1>2, <1>3

\* Multiples of the size of a task.
Multiple(a) == a \in Int /\ a % TaskSize = 0

LEMMA Quotient ==
  ASSUME NEW n \in Nat \ {0}, NEW a \in Int, a % n = 0
  PROVE  \E k \in Int : a = n * k
<1> DEFINE q == a \div n
           r == a % n
<1>1. a = n * q + r /\ q \in Int
  OBVIOUS
<1>2. r = 0
  OBVIOUS
<1> HIDE DEF q, r
<1>3. a = n * q
  BY <1>1, <1>2
<1> QED BY <1>1, <1>3

LEMMA MultipleOf ==
  ASSUME NEW a \in Int
  PROVE  Multiple(a) <=> \E k \in Int : a = TaskSize * k
<1>1. TaskSize \in Nat \ {0}
  BY RingSize
<1>2. ASSUME Multiple(a) PROVE \E k \in Int : a = TaskSize * k
  BY <1>1, <1>2, Quotient DEF Multiple
<1>3. ASSUME NEW k \in Int, a = TaskSize * k PROVE Multiple(a)
  BY <1>1, <1>3 DEF Multiple
<1> QED BY <1>2, <1>3

LEMMA MultipleSum ==
  ASSUME NEW a, NEW b, Multiple(a), Multiple(b)
  PROVE  Multiple(a + b) /\ Multiple(a - b)
<1>1. a \in Int /\ b \in Int /\ TaskSize \in Int
  BY RingSize DEF Multiple
<1>2. PICK p \in Int : a = TaskSize * p
  BY <1>1, MultipleOf
<1>3. PICK q \in Int : b = TaskSize * q
  BY <1>1, MultipleOf
<1>4. a + b = TaskSize * (p + q) /\ a - b = TaskSize * (p - q)
      /\ p + q \in Int /\ p - q \in Int /\ a + b \in Int /\ a - b \in Int
  BY <1>1, <1>2, <1>3
<1> QED BY <1>4, MultipleOf

LEMMA SizesAreMultiples == Multiple(TaskSize) /\ Multiple(Ring)
<1>1. TaskSize \in Int /\ TaskSize = TaskSize * 1 /\ Ring \in Int /\ Ring % TaskSize = 0
  BY RingSize
<1>2. Multiple(TaskSize)
  BY <1>1, MultipleOf
<1> QED BY <1>1, <1>2 DEF Multiple

LEMMA AlignedIsMultiple ==
  ASSUME NEW pos
  PROVE  Aligned(pos) <=> pos \in Position /\ Multiple(pos)
BY DEF Aligned, Position, Multiple

LEMMA AdvanceAligned ==
  ASSUME NEW pos, Aligned(pos)
  PROVE  Aligned(Advance(pos, TaskSize))
<1>1. pos \in Position /\ Multiple(pos)
  BY AlignedIsMultiple
<1>2. Multiple(pos + TaskSize) /\ Multiple(pos + TaskSize - Ring)
  BY <1>1, SizesAreMultiples, MultipleSum
<1>3. Multiple(Advance(pos, TaskSize)) /\ Advance(pos, TaskSize) \in Position
  BY <1>1, <1>2, AdvanceTask
<1> QED BY <1>3, AlignedIsMultiple

\* Aligned positions that differ are a task apart.
LEMMA AlignedApart ==
  ASSUME NEW tail, NEW pos, Aligned(tail), Aligned(pos), pos # tail
  PROVE  Behind(tail, pos) >= TaskSize
<1>1. /\ tail \in Position /\ Multiple(tail) /\ pos \in Position /\ Multiple(pos)
      /\ TaskSize \in Nat \ {0}
  BY AlignedIsMultiple, RingSize
<1>2. Multiple(tail - pos) /\ Multiple(tail + Ring - pos)
  <2>1. Multiple(Ring - pos)
    BY <1>1, SizesAreMultiples, MultipleSum
  <2> QED BY <1>1, <2>1, MultipleSum
<1>3. Multiple(Behind(tail, pos))
  BY <1>1, <1>2, BehindIs
<1>4. Behind(tail, pos) \in Nat /\ Behind(tail, pos) > 0
  <2>1. Behind(tail, pos) = IF pos <= tail THEN tail - pos ELSE tail + Ring - pos
    BY <1>1, BehindIs
  <2>2. tail \in Nat /\ pos \in Nat /\ Ring \in Nat /\ pos < Ring
    BY <1>1, RingSize DEF Position
  <2> QED BY <2>1, <2>2
<1>5. PICK k \in Int : Behind(tail, pos) = TaskSize * k
  BY <1>3, <1>4, MultipleOf
<1>6. k >= 1
  BY <1>1, <1>4, <1>5
<1>7. TaskSize * (k - 1) >= 0
  BY <1>1, <1>6
<1> QED BY <1>1, <1>5, <1>7

\* A task submitted moves the tail away from a position, a task done moves the head to it.
LEMMA BehindMoves ==
  ASSUME NEW tail \in Position, NEW pos \in Position
  PROVE  /\ Behind(tail, tail) = 0
         /\ Behind(tail, pos) + TaskSize < Ring
              => Behind(Advance(tail, TaskSize), pos) = Behind(tail, pos) + TaskSize
         /\ Behind(tail, pos) >= TaskSize
              => Behind(tail, Advance(pos, TaskSize)) = Behind(tail, pos) - TaskSize
<1>1. /\ Ring \in Nat /\ TaskSize \in Nat /\ TaskSize > 1
      /\ tail \in Nat /\ tail < Ring /\ pos \in Nat /\ pos < Ring
  BY RingSize DEF Position
<1>2. Behind(tail, tail) = 0
  BY <1>1, BehindIs
<1>3. ASSUME Behind(tail, pos) + TaskSize < Ring
      PROVE  Behind(Advance(tail, TaskSize), pos) = Behind(tail, pos) + TaskSize
  <2> DEFINE next == Advance(tail, TaskSize)
  <2>1. /\ next \in Position
        /\ next = IF tail + TaskSize < Ring THEN tail + TaskSize ELSE tail + TaskSize - Ring
    BY AdvanceTask
  <2>2. Behind(next, pos) = IF pos <= next THEN next - pos ELSE next + Ring - pos
    BY <2>1, BehindIs
  <2>3. Behind(tail, pos) = IF pos <= tail THEN tail - pos ELSE tail + Ring - pos
    BY BehindIs
  <2> HIDE DEF next
  <2>4. Behind(next, pos) = Behind(tail, pos) + TaskSize
    BY <1>1, <1>3, <2>1, <2>2, <2>3
  <2> QED BY <2>4 DEF next
<1>4. ASSUME Behind(tail, pos) >= TaskSize
      PROVE  Behind(tail, Advance(pos, TaskSize)) = Behind(tail, pos) - TaskSize
  <2> DEFINE next == Advance(pos, TaskSize)
  <2>1. /\ next \in Position
        /\ next = IF pos + TaskSize < Ring THEN pos + TaskSize ELSE pos + TaskSize - Ring
    BY AdvanceTask
  <2>2. Behind(tail, next) = IF next <= tail THEN tail - next ELSE tail + Ring - next
    BY <2>1, BehindIs
  <2>3. Behind(tail, pos) = IF pos <= tail THEN tail - pos ELSE tail + Ring - pos
    BY BehindIs
  <2> HIDE DEF next
  <2>4. Behind(tail, next) = Behind(tail, pos) - TaskSize
    BY <1>1, <1>4, <2>1, <2>2, <2>3
  <2> QED BY <2>4 DEF next
<1> QED BY <1>2, <1>3, <1>4

-----------------------------------------------------------------------------
(* The inductive invariant *)

\* Once the handler moves head or tail, or main has left its loop, the program is quitting.
Quitting ==
  /\ hPc \notin {"none", "mark"} => ~programRunning
  /\ mPc \in {"joinGpu", "joinSpi", "clear", "quit"} => ~programRunning

\* The task the SPI thread runs is the one at the head.
QueueSound ==
  programRunning =>
    /\ Aligned(queueHead) /\ Aligned(queueTail)
    /\ sPc = "run" => sTask = queueHead /\ queueHead # queueTail

\* What is left of the frames, with what main has yet to submit of the one it is at.
FramesBounded ==
  programRunning =>
    /\ Pending(queueHead) <= 2 * Frame
    /\ mPc = "take" => Pending(queueHead) <= Frame
    /\ mPc \notin {"submit", "frameEnd"} =>
         curFrameEnd = queueTail /\ Pending(prevFrameEnd) <= Frame
    /\ mPc = "submit" =>
         /\ Pending(queueHead) + toSubmit * TaskSize <= 2 * Frame
         /\ Pending(curFrameEnd) + toSubmit * TaskSize <= Frame
         /\ toSubmit = 0 => curFrameEnd = queueTail /\ Pending(prevFrameEnd) <= Frame
    /\ mPc = "frameEnd" => Pending(curFrameEnd) <= Frame

IInv == TypeOK /\ Quitting /\ QueueSound /\ FramesBounded

LEMMA InitIInv == Init => IInv
<1> SUFFICES ASSUME Init PROVE IInv
  OBVIOUS
<1>1. 0 \in Position /\ Frame \in Nat /\ TaskSize \in Nat \ {0} /\ Position = 0..Ring - 1
  BY RingSize DEF Position
<1>2. Aligned(0)
  BY <1>1 DEF Aligned
<1>3. Pending(0) = 0
  BY <1>1, BehindMoves DEF Init, Pending, Behind
<1>4. TypeOK
  BY <1>1, LifecycleAssumption DEF Init, TypeOK, LifecycleAssumption
<1>5. Quitting /\ QueueSound /\ FramesBounded
  BY <1>1, <1>2, <1>3 DEF Init, Quitting, QueueSound, FramesBounded
<1> QED BY <1>4, <1>5 DEF IInv

-----------------------------------------------------------------------------
(* Types, and when the program is quitting *)

LEMMA AdvanceInRing ==
  ASSUME NEW pos \in Position, NEW cells \in Nat
  PROVE  Advance(pos, cells) \in Position
BY RingSize DEF Advance, Position

LEMMA TypeStep == TypeOK /\ [Next]_vars => TypeOK'
<1> SUFFICES ASSUME TypeOK, [Next]_vars PROVE TypeOK'
  OBVIOUS
<1> USE DEF TypeOK
<1>1. /\ 1 \in Nat /\ TaskSize \in Nat /\ TasksPerFrame \in Nat /\ MaxSignals \in 0..4
      /\ Position = 0..Ring - 1 /\ 0 \in Position
  BY RingSize, LifecycleAssumption DEF Position, LifecycleAssumption
<1>2. CASE Signal
  BY <1>1, <1>2 DEF Signal, queue, main, spi
<1>3. CASE HandlerStep
  <2>1. CASE MarkQuitting
    <3>1. programRunning' \in BOOLEAN
      BY <2>1, Zenon DEF MarkQuitting
    <3>2. hPc' = "head" /\ UNCHANGED <<queue, numNewGpuFrames, signals, main, spi, gPc>>
      BY <2>1, Zenon DEF MarkQuitting
    <3> QED BY <3>1, <3>2 DEF queue, main, spi
  <2>2. CASE BumpHead
    BY <1>1, <2>2, AdvanceInRing DEF BumpHead, main, spi
  <2>3. CASE BumpTail
    BY <1>1, <2>3, AdvanceInRing DEF BumpTail, main, spi
  <2>4. CASE QuitWakeSpi
    BY <2>4 DEF QuitWakeSpi, WakeSpi, queue, main
  <2>5. CASE CountQuitFrame
    BY <2>5 DEF CountQuitFrame, queue, main, spi
  <2>6. CASE QuitWakeMain
    BY <2>6 DEF QuitWakeMain, WakeMain, queue, spi
  <2> QED BY <1>3, <2>1, <2>2, <2>3, <2>4, <2>5, <2>6 DEF HandlerStep
<1>4. CASE MainStep
  <2>1. CASE MainLoop \/ TestFrames \/ CheckRunning \/ MainFutexWait \/ Throttle
    BY <2>1 DEF MainLoop, TestFrames, CheckRunning, MainFutexWait, Throttle, MainGoto,
                queue, handler, spi
  <2>2. CASE TakeFrames
    BY <2>2 DEF TakeFrames, queue, handler, spi
  <2>3. CASE SubmitTask
    <3>1. toSubmit' \in 0..TasksPerFrame /\ mPc' \in {"submit", "frameEnd"}
      BY <1>1, <2>3 DEF SubmitTask
    <3>2. queueTail' \in 0..Ring - 1
      BY <1>1, <2>3, AdvanceInRing DEF SubmitTask
    <3> QED BY <2>3, <3>1, <3>2 DEF SubmitTask, WakeSpi, handler, spi
  <2>4. CASE NothingToSubmit \/ EndFrame \/ JoinGpuThread \/ JoinSpiThread
    BY <2>4 DEF NothingToSubmit, EndFrame, JoinGpuThread, JoinSpiThread, MainGoto,
                queue, handler, spi
  <2>5. CASE ClearScreen
    BY <1>1, <2>5, AdvanceInRing DEF ClearScreen, MainGoto, handler, spi
  <2> QED BY <1>4, <2>1, <2>2, <2>3, <2>4, <2>5 DEF MainStep
<1>5. CASE SpiStep
  <2>1. CASE RunTask
    <3>1. queueHead' \in 0..Ring - 1
      BY <1>1, <2>1, AdvanceInRing DEF RunTask
    <3> QED BY <1>1, <2>1, <3>1 DEF RunTask, handler, main
  <2>2. CASE ~RunTask
    BY <1>1, <1>5, <2>2, SMTT(30) DEF SpiStep, OuterLoop, AnyTask, SpiCheckRunning, FutexArgument,
       SpiFutexWait, InnerLoop, InnerCompare, GetTask, SpiGoto, queue, handler, main
  <2> QED BY <2>1, <2>2
<1>6. CASE GpuStep
  <2>1. CASE GpuLoop
    BY <2>1 DEF GpuLoop, queue, handler, main, spi
  <2>2. CASE PollGpu
    <3>1. programRunning' \in BOOLEAN
      BY <2>2, Zenon DEF PollGpu
    <3>2. gPc' \in {"loop", "count"} /\ UNCHANGED <<queue, numNewGpuFrames, handler, main, spi>>
      BY <2>2 DEF PollGpu
    <3> QED BY <3>1, <3>2 DEF queue, handler, main, spi
  <2>3. CASE CountFrame
    BY <2>3 DEF CountFrame, queue, handler, main, spi
  <2>4. CASE GpuWakeMain
    BY <2>4 DEF GpuWakeMain, WakeMain, queue, handler, spi
  <2> QED BY <1>6, <2>1, <2>2, <2>3, <2>4 DEF GpuStep
<1>7. CASE UNCHANGED vars
  BY <1>7 DEF vars, queue, handler, main, spi
<1> QED BY <1>2, <1>3, <1>4, <1>5, <1>6, <1>7 DEF Next

\* Nothing sets programRunning again, and what is disturbed is disturbed after it is cleared.
LEMMA QuittingStep ==
  ASSUME TypeOK, Quitting, [Next]_vars
  PROVE  Quitting' /\ (programRunning' => programRunning)
<1> USE DEF Quitting, queue, handler, main, spi
<1>1. CASE Signal
  BY <1>1 DEF Signal
<1>2. CASE HandlerStep
  BY <1>2 DEF HandlerStep, MarkQuitting, BumpHead, BumpTail, QuitWakeSpi, CountQuitFrame,
              QuitWakeMain, WakeSpi, WakeMain
<1>3. CASE MainStep
  BY <1>3 DEF MainStep, MainLoop, TestFrames, CheckRunning, MainFutexWait, Throttle,
     TakeFrames, SubmitTask, NothingToSubmit, EndFrame, JoinGpuThread, JoinSpiThread,
     ClearScreen, MainGoto, MainAt
<1>4. CASE SpiStep
  BY <1>4 DEF SpiStep, OuterLoop, AnyTask, SpiCheckRunning, FutexArgument, SpiFutexWait,
     InnerLoop, InnerCompare, GetTask, RunTask, SpiGoto
<1>5. CASE GpuStep
  BY <1>5 DEF GpuStep, GpuLoop, PollGpu, CountFrame, GpuWakeMain, WakeMain
<1>6. CASE UNCHANGED vars
  BY <1>6 DEF vars
<1> QED BY <1>1, <1>2, <1>3, <1>4, <1>5, <1>6 DEF Next

-----------------------------------------------------------------------------
(* The queue and the frames in it *)

\* The places of main between two frames.
Waiting == {"loop", "test", "check", "wait", "asleep", "throttle"}

LEMMA QuietQueue ==
  ASSUME QueueSound, UNCHANGED queue, programRunning' => programRunning,
         sPc' = "run" => sPc = "run" /\ sTask' = sTask
  PROVE  QueueSound'
BY DEF QueueSound, queue

LEMMA QuietFrames ==
  ASSUME FramesBounded, UNCHANGED queue, UNCHANGED <<toSubmit, curFrameEnd, prevFrameEnd>>,
         programRunning' => programRunning,
         mPc' = mPc \/ (mPc \in Waiting /\ mPc' \in Waiting)
  PROVE  FramesBounded'
BY DEF FramesBounded, Pending, Waiting, queue

\* The older of two frames is done before a third is taken, which has room for its tasks.
LEMMA FrameStep ==
  ASSUME TypeOK, FramesBounded, programRunning, programRunning',
         Throttle \/ TakeFrames \/ SubmitTask \/ NothingToSubmit \/ EndFrame
  PROVE  FramesBounded'
<1> USE DEF MainAt
<1>1. /\ queueHead \in Position /\ queueTail \in Position
      /\ curFrameEnd \in Position /\ prevFrameEnd \in Position
      /\ toSubmit \in Nat
  BY RingSize DEF TypeOK, Position
<1>2. /\ TaskSize \in Nat /\ Frame \in Nat /\ Frame = TasksPerFrame * TaskSize
      /\ TasksPerFrame \in Nat /\ Capacity * TaskSize \in Nat
      /\ Ring = Capacity * TaskSize + TaskSize /\ Frame + TaskSize <= Capacity * TaskSize
      /\ TaskSize > 1
  BY RingSize DEF Frame
<1>3. /\ Pending(queueHead) \in Nat /\ Pending(prevFrameEnd) \in Nat
      /\ Pending(curFrameEnd) \in Nat /\ Pending(queueTail) = 0
  BY <1>1, RingSize, BehindIs, BehindMoves DEF Pending, Behind, Position
<1>4. CASE Throttle
  BY <1>3, <1>2, <1>4 DEF Throttle, MainGoto, FramesBounded, Pending, queue
<1>5. CASE TakeFrames
  <2>1. toSubmit' \in 0..TasksPerFrame /\ mPc = "take" /\ mPc' = "submit"
        /\ UNCHANGED <<queueHead, queueTail, curFrameEnd, prevFrameEnd>>
    BY <1>5 DEF TakeFrames, queue
  <2>2. toSubmit' * TaskSize \in Nat /\ toSubmit' * TaskSize <= Frame
    <3>1. toSubmit' \in Nat /\ toSubmit' <= TasksPerFrame
      BY <1>2, <2>1
    <3> QED BY <1>2, <3>1, TimesGrows
  <2>3. /\ Pending(queueHead) <= Frame /\ curFrameEnd = queueTail
        /\ Pending(prevFrameEnd) <= Frame
    BY <2>1 DEF FramesBounded
  <2>4. /\ Pending(queueHead) + toSubmit' * TaskSize <= 2 * Frame
        /\ Pending(curFrameEnd) + toSubmit' * TaskSize <= Frame
        /\ Pending(queueHead) <= 2 * Frame
    BY <1>2, <1>3, <2>2, <2>3
  <2> QED BY <2>1, <2>3, <2>4 DEF FramesBounded, Pending
<1>6. CASE SubmitTask
  <2>1. /\ mPc = "submit" /\ toSubmit > 0 /\ toSubmit' = toSubmit - 1
        /\ queueTail' = Advance(queueTail, TaskSize)
        /\ mPc' = (IF toSubmit' = 0 THEN "frameEnd" ELSE "submit")
        /\ UNCHANGED <<queueHead, curFrameEnd, prevFrameEnd>>
        /\ Pending(queueHead) + TaskSize <= Capacity * TaskSize
    BY <1>6 DEF SubmitTask, HasRoom
  <2>2. /\ Pending(queueHead) + toSubmit * TaskSize <= 2 * Frame
        /\ Pending(curFrameEnd) + toSubmit * TaskSize <= Frame
    BY <2>1 DEF FramesBounded
  <2>3. /\ toSubmit * TaskSize = toSubmit' * TaskSize + TaskSize
        /\ toSubmit' \in Nat /\ toSubmit' * TaskSize \in Nat
    BY <1>1, <1>2, <2>1
  <2> DEFINE h == Pending(queueHead)
             c == Pending(curFrameEnd)
             k == toSubmit' * TaskSize
  <2>4. /\ h \in Nat /\ c \in Nat /\ k \in Nat /\ h + (k + TaskSize) <= 2 * Frame
        /\ c + (k + TaskSize) <= Frame /\ h + TaskSize < Ring /\ c + TaskSize < Ring
    <3>1. k \in Nat /\ h + (k + TaskSize) <= 2 * Frame /\ c + (k + TaskSize) <= Frame
      BY <2>2, <2>3
    <3> HIDE DEF k
    <3> QED BY <1>2, <1>3, <2>1, <3>1
  <2>5. Pending(queueHead)' = h + TaskSize /\ Pending(curFrameEnd)' = c + TaskSize
    BY <1>1, <2>1, <2>4, BehindMoves DEF Pending, Behind
  <2> HIDE DEF h, c
  <2>6. /\ Pending(queueHead)' <= 2 * Frame /\ Pending(queueHead)' + k <= 2 * Frame
        /\ Pending(curFrameEnd)' <= Frame /\ Pending(curFrameEnd)' + k <= Frame
    <3> HIDE DEF k
    <3> QED BY <1>2, <2>4, <2>5
  <2>7. toSubmit' = 0 => mPc' = "frameEnd"
    BY <2>1
  <2> QED BY <2>1, <2>6, <2>7 DEF FramesBounded
<1>7. CASE NothingToSubmit
  BY <1>7 DEF NothingToSubmit, MainGoto, FramesBounded, Pending, queue
<1>8. CASE EndFrame
  <2>1. Pending(curFrameEnd) <= Frame /\ Pending(queueHead) <= 2 * Frame
    BY <1>8 DEF EndFrame, FramesBounded
  <2>2. /\ mPc' = "loop" /\ prevFrameEnd' = curFrameEnd /\ curFrameEnd' = queueTail
        /\ UNCHANGED <<queueHead, queueTail>>
    BY <1>8 DEF EndFrame, queue
  <2>3. Pending(prevFrameEnd)' = Pending(curFrameEnd) /\ Pending(queueHead)' = Pending(queueHead)
    BY <2>2 DEF Pending
  <2> QED BY <2>1, <2>2, <2>3 DEF FramesBounded
<1> QED BY <1>4, <1>5, <1>6, <1>7, <1>8

\* The task at the head is whole, and done it moves the head to the next.
LEMMA TaskStep ==
  ASSUME TypeOK, QueueSound, programRunning, programRunning',
         SubmitTask \/ GetTask \/ RunTask
  PROVE  QueueSound'
<1>1. /\ queueHead \in Position /\ queueTail \in Position
      /\ Aligned(queueHead) /\ Aligned(queueTail)
      /\ sPc = "run" => sTask = queueHead /\ queueHead # queueTail
  BY DEF TypeOK, QueueSound, Position
<1>2. CASE SubmitTask
  <2>1. /\ queueTail' = Advance(queueTail, TaskSize) /\ UNCHANGED <<queueHead, sTask>>
        /\ sPc' = "run" => sPc = "run"
        /\ Pending(queueHead) + TaskSize <= Capacity * TaskSize
    BY <1>2 DEF SubmitTask, HasRoom, WakeSpi, spi
  <2>2. Aligned(queueTail')
    BY <1>1, <2>1, AdvanceAligned
  <2>3. queueHead # queueTail'
    <3>1. Behind(queueTail, queueHead) + TaskSize < Ring
      BY <1>1, <2>1, RingSize, BehindIs DEF Pending, Behind, Position
    <3>2. Behind(queueTail', queueHead) = Behind(queueTail, queueHead) + TaskSize
      BY <1>1, <2>1, <3>1, BehindMoves
    <3>3. Behind(queueTail, queueHead) \in Nat /\ TaskSize \in Nat /\ TaskSize > 1
      BY <1>1, RingSize, BehindIs DEF Position
    <3>4. Behind(queueHead, queueHead) = 0
      BY <1>1, BehindMoves
    <3> QED BY <3>2, <3>3, <3>4
  <2> QED BY <1>1, <2>1, <2>2, <2>3 DEF QueueSound
<1>3. CASE GetTask
  BY <1>1, <1>3 DEF GetTask, QueueSound, queue
<1>4. CASE RunTask
  <2>1. Committed
    BY <1>1, <1>4, AlignedApart DEF RunTask, Committed, Pending, Behind, Aligned
  <2>2. queueHead' = Advance(queueHead, TaskSize) /\ UNCHANGED queueTail /\ sPc' = "inner"
    BY <1>1, <1>4, <2>1 DEF RunTask
  <2> QED BY <1>1, <2>2, AdvanceAligned DEF QueueSound
<1> QED BY <1>2, <1>3, <1>4

\* Done, a task is less in the queue than main may have counted on.
LEMMA DoneStep ==
  ASSUME TypeOK, QueueSound, FramesBounded, programRunning, programRunning', RunTask
  PROVE  FramesBounded'
<1>1. /\ queueHead \in Position /\ queueTail \in Position /\ toSubmit \in Nat
      /\ Aligned(queueHead) /\ Aligned(queueTail) /\ sTask = queueHead /\ queueHead # queueTail
      /\ TaskSize \in Nat /\ Frame \in Nat
  BY RingSize DEF TypeOK, QueueSound, RunTask, Position
<1>2. Behind(queueTail, queueHead) >= TaskSize
  BY <1>1, AlignedApart
<1>3. Committed
  BY <1>1, <1>2 DEF Committed, Pending, Behind, Aligned
<1>4. /\ queueHead' = Advance(queueHead, TaskSize)
      /\ UNCHANGED <<queueTail, mPc, toSubmit, curFrameEnd, prevFrameEnd>>
  BY <1>1, <1>3 DEF RunTask, main
<1>5. Pending(queueHead)' = Pending(queueHead) - TaskSize /\ Pending(queueHead) \in Nat
  BY <1>1, <1>2, <1>4, BehindMoves, BehindIs, RingSize DEF Pending, Behind, Position
<1>6. /\ Pending(curFrameEnd)' = Pending(curFrameEnd)
      /\ Pending(prevFrameEnd)' = Pending(prevFrameEnd)
  BY <1>4 DEF Pending
<1> DEFINE k == toSubmit * TaskSize
<1>7. k \in Nat /\ toSubmit' * TaskSize = k
  BY <1>1, <1>4
<1>8. /\ Pending(queueHead) <= 2 * Frame
      /\ mPc = "take" => Pending(queueHead) <= Frame
      /\ mPc = "submit" => Pending(queueHead) + k <= 2 * Frame
  BY DEF FramesBounded
<1>9. /\ Pending(queueHead)' <= 2 * Frame
      /\ mPc = "take" => Pending(queueHead)' <= Frame
      /\ mPc = "submit" => Pending(queueHead)' + k <= 2 * Frame
  <2> HIDE DEF k
  <2> QED BY <1>1, <1>5, <1>7, <1>8
<1> QED BY <1>4, <1>6, <1>7, <1>9 DEF FramesBounded

LEMMA QueueStep ==
  ASSUME TypeOK, QueueSound, FramesBounded, [Next]_vars, Quitting',
         programRunning' => programRunning
  PROVE  QueueSound' /\ FramesBounded'
<1>1. CASE ~programRunning'
  BY <1>1 DEF QueueSound, FramesBounded
<1>2. CASE programRunning'
  <2>1. programRunning
    BY <1>2
  <2>2. CASE Signal \/ HandlerStep
    <3>1. ~(BumpHead \/ BumpTail)
      BY <1>2 DEF BumpHead, BumpTail, Quitting
    <3>2. UNCHANGED queue /\ UNCHANGED <<toSubmit, curFrameEnd, prevFrameEnd>>
      BY <2>2, <3>1 DEF Signal, HandlerStep, MarkQuitting, QuitWakeSpi, CountQuitFrame,
                        QuitWakeMain, WakeMain, main
    <3>3. sPc' = "run" => sPc = "run" /\ sTask' = sTask
      BY <2>2, <3>1 DEF Signal, HandlerStep, MarkQuitting, QuitWakeSpi, CountQuitFrame,
                        QuitWakeMain, WakeSpi, spi
    <3>4. mPc' = mPc \/ (mPc \in Waiting /\ mPc' \in Waiting)
      BY <2>2, <3>1 DEF Signal, HandlerStep, MarkQuitting, QuitWakeSpi, CountQuitFrame,
                        QuitWakeMain, WakeMain, main, Waiting
    <3> QED BY <3>2, <3>3, <3>4, QuietQueue, QuietFrames
  <2>3. CASE GpuStep \/ UNCHANGED vars
    <3>1. /\ UNCHANGED queue /\ UNCHANGED <<toSubmit, curFrameEnd, prevFrameEnd>>
          /\ UNCHANGED spi
      BY <2>3 DEF GpuStep, GpuLoop, PollGpu, CountFrame, GpuWakeMain, WakeMain, main, vars
    <3>2. mPc' = mPc \/ (mPc \in Waiting /\ mPc' \in Waiting)
      BY <2>3 DEF GpuStep, GpuLoop, PollGpu, CountFrame, GpuWakeMain, WakeMain, main, vars,
                  Waiting
    <3> QED BY <3>1, <3>2, QuietQueue, QuietFrames DEF spi
  <2>4. CASE MainStep
    <3>1. ~(JoinGpuThread \/ JoinSpiThread \/ ClearScreen)
      BY <1>2 DEF JoinGpuThread, JoinSpiThread, ClearScreen, MainGoto, Quitting
    <3>2. CASE MainLoop \/ TestFrames \/ CheckRunning \/ MainFutexWait
      <4>1. mPc \in Waiting /\ mPc' \in Waiting
        BY <2>1, <3>2 DEF MainLoop, TestFrames, CheckRunning, MainFutexWait, MainGoto, MainAt,
                          Waiting
      <4>2. /\ UNCHANGED queue /\ UNCHANGED <<toSubmit, curFrameEnd, prevFrameEnd>>
            /\ UNCHANGED spi
        BY <3>2 DEF MainLoop, TestFrames, CheckRunning, MainFutexWait, MainGoto
      <4> QED BY <4>1, <4>2, QuietQueue, QuietFrames DEF spi
    <3>3. CASE SubmitTask
      BY <1>2, <2>1, <3>3, TaskStep, FrameStep
    <3>4. CASE Throttle \/ TakeFrames \/ NothingToSubmit \/ EndFrame
      <4>1. UNCHANGED queue /\ UNCHANGED spi
        BY <3>4 DEF Throttle, TakeFrames, NothingToSubmit, EndFrame
      <4>2. QueueSound'
        BY <4>1, QuietQueue DEF spi
      <4> QED BY <1>2, <2>1, <3>4, <4>2, FrameStep
    <3> QED BY <2>4, <3>1, <3>2, <3>3, <3>4 DEF MainStep
  <2>5. CASE SpiStep
    <3>1. CASE RunTask
      BY <1>2, <2>1, <3>1, TaskStep, DoneStep
    <3>2. CASE GetTask
      <4>1. FramesBounded'
        BY <3>2, QuietFrames DEF GetTask, main
      <4> QED BY <1>2, <2>1, <3>2, <4>1, TaskStep
    <3>3. CASE ~(RunTask \/ GetTask)
      <4>1. /\ UNCHANGED queue /\ UNCHANGED main /\ sPc' # "run"
        BY <2>5, <3>3 DEF SpiStep, OuterLoop, AnyTask, SpiCheckRunning, FutexArgument,
           SpiFutexWait, InnerLoop, InnerCompare, SpiGoto
      <4> QED BY <4>1, QuietQueue, QuietFrames DEF main
    <3> QED BY <3>1, <3>2, <3>3
  <2> QED BY <2>2, <2>3, <2>4, <2>5 DEF Next
<1> QED BY <1>1, <1>2

LEMMA IInvStep == IInv /\ [Next]_vars => IInv'
<1> SUFFICES ASSUME IInv, [Next]_vars PROVE IInv'
  OBVIOUS
<1>1. TypeOK'
  BY TypeStep DEF IInv
<1>2. Quitting' /\ (programRunning' => programRunning)
  BY QuittingStep DEF IInv
<1>3. QueueSound' /\ FramesBounded'
  BY <1>2, QueueStep DEF IInv
<1> QED BY <1>1, <1>2, <1>3 DEF IInv

-----------------------------------------------------------------------------
(* Theorems *)

\* However signals, frames and tasks fall, what the three threads know of the queue agrees.
THEOREM LifecycleInvariant == Spec => []IInv
BY InitIInv, IInvStep, PTL DEF Spec

\* Types: every position that the handler, main and the SPI thread compute lies in the ring.
THEOREM TypeCorrect == Spec => []TypeOK
<1>1. IInv => TypeOK
  BY DEF IInv
<1> QED BY <1>1, LifecycleInvariant, PTL

\* Moving head and tail to wake the SPI thread (MarkProgramQuitting and the handler)
\* disturbs no task of a program that runs.
THEOREM QueueIsSound == Spec => []QueueSoundWhileRunning
<1>1. IInv => QueueSoundWhileRunning
  BY AlignedApart DEF IInv, QueueSound, QueueSoundWhileRunning, Committed, Pending, Behind,
                      Aligned
<1> QED BY <1>1, LifecycleInvariant, PTL

\* The throttle of the main loop keeps at most two frames in the queue, whatever their sizes.
THEOREM AtMostTwoFrames == Spec => []TwoFramesPending
<1>1. IInv => TwoFramesPending
  <2>1. 2 * Frame = 2 * TasksPerFrame * TaskSize
    BY RingSize DEF Frame
  <2> QED BY <2>1 DEF IInv, FramesBounded, TwoFramesPending
<1> QED BY <1>1, LifecycleInvariant, PTL
=============================================================================
