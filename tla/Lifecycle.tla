------------------------------ MODULE Lifecycle ------------------------------
(***************************************************************************)
(* How fbcp-ili9341 quits: ProgramInterruptHandler and MarkProgramQuitting *)
(* clear programRunning; the main thread, the GPU polling thread and the   *)
(* SPI thread each test it between their waits; main then joins the other  *)
(* two (DeinitGPU, DeinitSPI) and clears the screen itself.                *)
(*                                                                         *)
(* The handler runs on the main thread, where Linux delivers a signal      *)
(* first: main does nothing else meanwhile, the other threads run on.  The *)
(* ring buffer is reduced to its two positions and to tasks of TaskSize    *)
(* cells; what is in the cells, and the header at the end of the buffer,   *)
(* is the matter of SpiQueue, what is in the frames that of FrameDelivery. *)
(***************************************************************************)
EXTENDS Integers

CONSTANTS
  TaskSize,        \* cells of the queue that a task takes
  Capacity,        \* tasks that the queue holds, one place less than the ring has
  TasksPerFrame,   \* the most tasks a frame is submitted with
  MaxFrames,       \* bound: frames counted and not yet taken when another is found
  MaxSignals,      \* bound: signals received, less than the 5 that force an exit
  SnapshotMayFail  \* vc_dispmanx_snapshot or vc_dispmanx_resource_read_data may fail

\* The queue has room for almost three frames of pixels: for one, and a task to spare.
ASSUME LifecycleAssumption ==
  /\ TaskSize \in Nat \ {0, 1}
  /\ TasksPerFrame \in Nat /\ Capacity \in Nat /\ TasksPerFrame < Capacity
  /\ MaxFrames \in Nat \ {0} /\ MaxSignals \in 0..4
  /\ SnapshotMayFail \in BOOLEAN

VARIABLES
  programRunning, queueHead, queueTail, numNewGpuFrames,
  hPc, signals,        \* the signal handler
  mPc, toSubmit,       \* the main thread, the tasks left of the frame it submits
  curFrameEnd, prevFrameEnd,
  sPc, sArg, sTask,    \* the SPI thread, its futex argument, the task it runs
  gPc                  \* the GPU polling thread

queue   == <<queueHead, queueTail>>
handler == <<hPc, signals>>
main    == <<mPc, toSubmit, curFrameEnd, prevFrameEnd>>
spi     == <<sPc, sArg, sTask>>
vars == <<programRunning, queue, numNewGpuFrames, handler, main, spi, gPc>>

Ring == (Capacity + 1) * TaskSize
Advance(pos, cells) == (pos + cells) % Ring

\* (queueTail + SPI_QUEUE_SIZE - pos) % SPI_QUEUE_SIZE
Pending(pos) == (queueTail + Ring - pos) % Ring

Init ==
  /\ programRunning = TRUE /\ queueHead = 0 /\ queueTail = 0 /\ numNewGpuFrames = 0
  /\ hPc = "none" /\ signals = 0
  /\ mPc = "loop" /\ toSubmit = 0 /\ curFrameEnd = 0 /\ prevFrameEnd = 0
  /\ sPc = "outer" /\ sArg = 0 /\ sTask = 0
  /\ gPc = "loop"

WakeSpi  == sPc' = (IF sPc = "asleep" THEN "outer" ELSE sPc) /\ UNCHANGED <<sArg, sTask>>
WakeMain == mPc' = (IF mPc = "asleep" THEN "test" ELSE mPc)
            /\ UNCHANGED <<toSubmit, curFrameEnd, prevFrameEnd>>

-----------------------------------------------------------------------------
(* ProgramInterruptHandler *)

Signal ==
  /\ hPc = "none" /\ signals < MaxSignals /\ mPc # "quit"
  /\ signals' = signals + 1
  /\ hPc' = "mark"
  /\ UNCHANGED <<programRunning, queue, numNewGpuFrames, main, spi, gPc>>

\* A bug: the queue is disturbed while the program still counts as running.
MarkLate ==
  /\ hPc = "mark"
  /\ hPc' = "head"
  /\ UNCHANGED <<programRunning, queue, numNewGpuFrames, signals, main, spi, gPc>>

MarkQuitting ==
  /\ hPc = "mark"
  /\ programRunning' = FALSE
  /\ hPc' = "head"
  /\ UNCHANGED <<queue, numNewGpuFrames, signals, main, spi, gPc>>

BumpHead ==
  /\ hPc = "head"
  /\ queueHead' = Advance(queueHead, 1)
  /\ hPc' = "tail"
  /\ UNCHANGED <<programRunning, queueTail, numNewGpuFrames, signals, main, spi, gPc>>

BumpTail ==
  /\ hPc = "tail"
  /\ queueTail' = Advance(queueTail, 1)
  /\ hPc' = "wakeSpi"
  /\ UNCHANGED <<programRunning, queueHead, numNewGpuFrames, signals, main, spi, gPc>>

\* A bug: the SPI thread is left to find out by itself.
SpiNotWoken ==
  /\ hPc = "wakeSpi"
  /\ hPc' = "count"
  /\ UNCHANGED <<programRunning, queue, numNewGpuFrames, signals, main, spi, gPc>>

QuitWakeSpi ==
  /\ hPc = "wakeSpi"
  /\ WakeSpi
  /\ hPc' = "count"
  /\ UNCHANGED <<programRunning, queue, numNewGpuFrames, signals, main, gPc>>

\* A bug: a wake-up without a frame, which while(numNewGpuFrames == 0) sends back to sleep.
NoQuitFrame ==
  /\ hPc = "count"
  /\ hPc' = "wakeMain"
  /\ UNCHANGED <<programRunning, queue, numNewGpuFrames, signals, main, spi, gPc>>

CountQuitFrame ==
  /\ hPc = "count"
  /\ numNewGpuFrames' = numNewGpuFrames + 1
  /\ hPc' = "wakeMain"
  /\ UNCHANGED <<programRunning, queue, signals, main, spi, gPc>>

QuitWakeMain ==
  /\ hPc = "wakeMain"
  /\ WakeMain
  /\ hPc' = "none"
  /\ UNCHANGED <<programRunning, queue, numNewGpuFrames, signals, spi, gPc>>

HandlerStep == MarkQuitting \/ BumpHead \/ BumpTail \/ QuitWakeSpi \/ CountQuitFrame \/ QuitWakeMain

-----------------------------------------------------------------------------
(* The main thread *)

MainAt(pc) == mPc = pc /\ hPc = "none"
MainGoto(pc) == mPc' = pc /\ UNCHANGED <<toSubmit, curFrameEnd, prevFrameEnd>>

\* while(programRunning); after an interlaced update the loop does not wait for a frame.
MainLoop ==
  /\ MainAt("loop")
  /\ IF programRunning THEN MainGoto("test") \/ MainGoto("throttle") ELSE MainGoto("joinGpu")
  /\ UNCHANGED <<programRunning, queue, numNewGpuFrames, handler, spi, gPc>>

\* while(numNewGpuFrames == 0), which does not test programRunning
TestFrames ==
  /\ MainAt("test")
  /\ MainGoto(IF numNewGpuFrames = 0 THEN "check" ELSE "throttle")
  /\ UNCHANGED <<programRunning, queue, numNewGpuFrames, handler, spi, gPc>>

CheckRunning ==
  /\ MainAt("check")
  /\ MainGoto(IF programRunning THEN "wait" ELSE "test")
  /\ UNCHANGED <<programRunning, queue, numNewGpuFrames, handler, spi, gPc>>

MainFutexWait ==
  /\ MainAt("wait")
  /\ MainGoto(IF numNewGpuFrames = 0 THEN "asleep" ELSE "test")
  /\ UNCHANGED <<programRunning, queue, numNewGpuFrames, handler, spi, gPc>>

\* "At all times keep at most two rendered frames in the SPI task queue": wait until
\* the older one is done, whether or not there is still a thread to do it.
Throttle ==
  /\ MainAt("throttle")
  /\ Pending(queueHead) <= Pending(prevFrameEnd)
  /\ MainGoto("take")
  /\ UNCHANGED <<programRunning, queue, numNewGpuFrames, handler, spi, gPc>>

\* A bug: one frame is taken, whether or not one was there.
TakeOneFrame ==
  /\ MainAt("take")
  /\ numNewGpuFrames' = numNewGpuFrames - 1
  /\ toSubmit' \in 0..TasksPerFrame
  /\ mPc' = "submit"
  /\ UNCHANGED <<programRunning, queue, handler, curFrameEnd, prevFrameEnd, spi, gPc>>

\* The frames counted are copied and subtracted (see FrameDelivery), then diffed.
TakeFrames ==
  /\ MainAt("take")
  /\ numNewGpuFrames' = 0
  /\ toSubmit' \in 0..TasksPerFrame
  /\ mPc' = "submit"
  /\ UNCHANGED <<programRunning, queue, handler, curFrameEnd, prevFrameEnd, spi, gPc>>

HasRoom == Pending(queueHead) + TaskSize <= Capacity * TaskSize

\* AllocTask, which waits for room, and CommitTask with its wake-up.
SubmitTask ==
  /\ MainAt("submit") /\ toSubmit > 0 /\ HasRoom
  /\ toSubmit' = toSubmit - 1
  /\ queueTail' = Advance(queueTail, TaskSize)
  /\ IF queueHead = queueTail THEN WakeSpi ELSE UNCHANGED spi
  /\ mPc' = IF toSubmit' = 0 THEN "frameEnd" ELSE "submit"
  /\ UNCHANGED <<programRunning, queueHead, numNewGpuFrames, handler,
                 curFrameEnd, prevFrameEnd, gPc>>

NothingToSubmit ==
  /\ MainAt("submit") /\ toSubmit = 0
  /\ MainGoto("loop")
  /\ UNCHANGED <<programRunning, queue, numNewGpuFrames, handler, spi, gPc>>

\* A bug: the end of the frame before is not remembered.
ForgetPrevFrameEnd ==
  /\ MainAt("frameEnd")
  /\ curFrameEnd' = queueTail
  /\ mPc' = "loop"
  /\ UNCHANGED <<programRunning, queue, numNewGpuFrames, handler, toSubmit, prevFrameEnd, spi, gPc>>

EndFrame ==
  /\ MainAt("frameEnd")
  /\ prevFrameEnd' = curFrameEnd
  /\ curFrameEnd' = queueTail
  /\ mPc' = "loop"
  /\ UNCHANGED <<programRunning, queue, numNewGpuFrames, handler, toSubmit, spi, gPc>>

\* pthread_join in DeinitGPU and in DeinitSPI
JoinGpuThread ==
  /\ MainAt("joinGpu") /\ gPc = "exited"
  /\ MainGoto("joinSpi")
  /\ UNCHANGED <<programRunning, queue, numNewGpuFrames, handler, spi, gPc>>

JoinSpiThread ==
  /\ MainAt("joinSpi") /\ sPc = "exited"
  /\ MainGoto("clear")
  /\ UNCHANGED <<programRunning, queue, numNewGpuFrames, handler, spi, gPc>>

\* ClearScreen and the last commands: AllocTask, CommitTask, RunSPITask and DoneTask on
\* this thread; DoneTask moves the head past whatever was left in the queue.
ClearScreen ==
  /\ MainAt("clear") /\ HasRoom
  /\ queueTail' = Advance(queueTail, TaskSize)
  /\ queueHead' = queueTail'
  /\ MainGoto("quit")
  /\ UNCHANGED <<programRunning, numNewGpuFrames, handler, spi, gPc>>

MainStep ==
  \/ MainLoop \/ TestFrames \/ CheckRunning \/ MainFutexWait \/ Throttle \/ TakeFrames
  \/ SubmitTask \/ NothingToSubmit \/ EndFrame
  \/ JoinGpuThread \/ JoinSpiThread \/ ClearScreen

-----------------------------------------------------------------------------
(* The SPI thread: spi_thread, ExecuteSPITasks, GetTask, DoneTask *)

SpiGoto(pc) == sPc' = pc /\ UNCHANGED <<sArg, sTask>>

OuterLoop ==
  /\ sPc = "outer"
  /\ SpiGoto(IF programRunning THEN "compare" ELSE "exited")
  /\ UNCHANGED <<programRunning, queue, numNewGpuFrames, handler, main, gPc>>

AnyTask ==
  /\ sPc = "compare"
  /\ SpiGoto(IF queueTail # queueHead THEN "inner" ELSE "check")
  /\ UNCHANGED <<programRunning, queue, numNewGpuFrames, handler, main, gPc>>

\* if (programRunning) syscall(...
SpiCheckRunning ==
  /\ sPc = "check"
  /\ SpiGoto(IF programRunning THEN "argument" ELSE "outer")
  /\ UNCHANGED <<programRunning, queue, numNewGpuFrames, handler, main, gPc>>

\* ... queueHead, read before the call ...
FutexArgument ==
  /\ sPc = "argument"
  /\ sArg' = queueHead
  /\ sPc' = "wait"
  /\ UNCHANGED <<programRunning, queue, numNewGpuFrames, handler, main, sTask, gPc>>

\* ... and compared with queueTail by the kernel.  (A local is reset when it is dead.)
SpiFutexWait ==
  /\ sPc = "wait"
  /\ sPc' = IF queueTail = sArg THEN "asleep" ELSE "outer"
  /\ sArg' = 0
  /\ UNCHANGED <<programRunning, queue, numNewGpuFrames, handler, main, sTask, gPc>>

\* while(programRunning && queueTail != queueHead): two tests, in this order
InnerLoop ==
  /\ sPc = "inner"
  /\ SpiGoto(IF programRunning THEN "innerCompare" ELSE "outer")
  /\ UNCHANGED <<programRunning, queue, numNewGpuFrames, handler, main, gPc>>

InnerCompare ==
  /\ sPc = "innerCompare"
  /\ SpiGoto(IF queueTail # queueHead THEN "get" ELSE "outer")
  /\ UNCHANGED <<programRunning, queue, numNewGpuFrames, handler, main, gPc>>

GetTask ==
  /\ sPc = "get"
  /\ IF queueHead = queueTail THEN sTask' = 0 /\ sPc' = "inner"
                              ELSE sTask' = queueHead /\ sPc' = "run"
  /\ UNCHANGED <<programRunning, queue, numNewGpuFrames, handler, main, sArg, gPc>>

\* What GetTask returned is a task that CommitTask has advertised.
Committed == sTask % TaskSize = 0 /\ Pending(sTask) >= TaskSize

\* RunSPITask and DoneTask.  Where there is no task, its size field is any number.
RunTask ==
  /\ sPc = "run"
  /\ queueHead' \in IF Committed THEN {Advance(sTask, TaskSize)} ELSE 0..Ring - 1
  /\ sTask' = 0
  /\ sPc' = "inner"
  /\ UNCHANGED <<programRunning, queueTail, numNewGpuFrames, handler, main, sArg, gPc>>

SpiStep ==
  \/ OuterLoop \/ AnyTask \/ SpiCheckRunning \/ FutexArgument \/ SpiFutexWait
  \/ InnerLoop \/ InnerCompare \/ GetTask \/ RunTask

-----------------------------------------------------------------------------
(* The GPU polling thread *)

GpuLoop ==
  /\ gPc = "loop"
  /\ gPc' = IF programRunning THEN "poll" ELSE "exited"
  /\ UNCHANGED <<programRunning, queue, numNewGpuFrames, handler, main, spi>>

\* SnapshotFramebuffer finds a frame, finds none or fails; if it fails, it calls
\* MarkProgramQuitting and wakes nobody.
PollGpu ==
  /\ gPc = "poll"
  /\ \/ numNewGpuFrames < MaxFrames /\ gPc' = "count" /\ UNCHANGED programRunning
     \/ gPc' = "loop" /\ UNCHANGED programRunning
     \/ SnapshotMayFail /\ programRunning' = FALSE /\ gPc' = "loop"
  /\ UNCHANGED <<queue, numNewGpuFrames, handler, main, spi>>

CountFrame ==
  /\ gPc = "count"
  /\ numNewGpuFrames' = numNewGpuFrames + 1
  /\ gPc' = "wake"
  /\ UNCHANGED <<programRunning, queue, handler, main, spi>>

GpuWakeMain ==
  /\ gPc = "wake"
  /\ WakeMain
  /\ gPc' = "loop"
  /\ UNCHANGED <<programRunning, queue, numNewGpuFrames, handler, spi>>

GpuStep == GpuLoop \/ PollGpu \/ CountFrame \/ GpuWakeMain

-----------------------------------------------------------------------------
\* The process is gone once main returns; while it runs, polling never stops.
Next == Signal \/ HandlerStep \/ MainStep \/ SpiStep \/ GpuStep \/ (mPc = "quit" /\ UNCHANGED vars)

Spec == Init /\ [][Next]_vars

\* Every thread is scheduled; no signal has to come.
FairSpec ==
  Spec /\ WF_vars(HandlerStep) /\ WF_vars(MainStep) /\ WF_vars(SpiStep) /\ WF_vars(GpuStep)

-----------------------------------------------------------------------------
(* Properties *)

\* Types; main never subtracts a frame that was not counted.
TypeOK ==
  /\ programRunning \in BOOLEAN
  /\ queueHead \in 0..Ring - 1 /\ queueTail \in 0..Ring - 1
  /\ numNewGpuFrames \in Nat
  /\ hPc \in {"none", "mark", "head", "tail", "wakeSpi", "count", "wakeMain"}
  /\ signals \in 0..MaxSignals
  /\ mPc \in {"loop", "test", "check", "wait", "asleep", "throttle", "take", "submit",
              "frameEnd", "joinGpu", "joinSpi", "clear", "quit"}
  /\ toSubmit \in 0..TasksPerFrame
  /\ curFrameEnd \in 0..Ring - 1 /\ prevFrameEnd \in 0..Ring - 1
  /\ sPc \in {"outer", "compare", "check", "argument", "wait", "asleep", "inner",
              "innerCompare", "get", "run", "exited"}
  /\ sArg \in 0..Ring - 1 /\ sTask \in 0..Ring - 1
  /\ gPc \in {"loop", "poll", "count", "wake", "exited"}

\* The trick of waking the SPI thread by moving head and tail disturbs nothing as long as
\* the program runs: it comes after programRunning is cleared.
QueueSoundWhileRunning ==
  programRunning =>
    /\ queueHead % TaskSize = 0 /\ queueTail % TaskSize = 0
    /\ sPc = "run" => Committed

\* "At all times keep at most two rendered frames in the SPI task queue pending to be
\* displayed", although prevFrameEnd is a position of two frames ago in a ring.
TwoFramesPending == programRunning => Pending(queueHead) <= 2 * TasksPerFrame * TaskSize

\* The waits of the main thread end.  The one for frames, although it tests only
\* numNewGpuFrames: "Wake the main thread if it was sleeping for a new frame so that it can
\* gracefully quit".  The throttle and the wait for room in the queue, as long as there is
\* an SPI thread: that thread never sleeps while main waits for it.
MainStopsWaiting ==
  /\ (signals > 0 /\ hPc = "none") ~> mPc \notin {"test", "check", "wait", "asleep"}
  /\ \A wait \in {"throttle", "submit"} : mPc = wait ~> (mPc # wait \/ ~programRunning)

\* A signal that arrives while the program has nothing to do ends it, the screen cleared.
QuitsWhenIdle == (hPc = "mark" /\ mPc = "asleep" /\ sPc = "asleep") ~> mPc = "quit"

\* "Wake the SPI thread if it was sleeping so that it can gracefully quit"
\* (fbcp-ili9341.cpp): once a signal has been handled, the SPI thread exits.
SpiThreadQuits == (signals > 0) ~> sPc = "exited"
=============================================================================
