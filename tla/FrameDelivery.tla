---------------------------- MODULE FrameDelivery ----------------------------
(***************************************************************************)
(* How a frame gets from the GPU to the SPI task queue.  The GPU polling   *)
(* thread (gpu_polling_thread in gpu.cpp) snapshots the screen, publishes  *)
(* a snapshot that differs from the last one and counts it in              *)
(* numNewGpuFrames; the main loop (main in fbcp-ili9341.cpp) sleeps on     *)
(* that counter, copies the published frame and submits the scanlines that *)
(* differ from what the display shows, all of them or every second one.    *)
(*                                                                         *)
(* The two threads share videoCoreFramebuffer[1] without a lock: both copy *)
(* it scanline by scanline, and the main thread can read a torn frame.     *)
(* Built without USE_GPU_VSYNC.  Submitted lines reach the display by the  *)
(* task queue, in order (SpiQueue).                                        *)
(***************************************************************************)
EXTENDS Integers, FiniteSets

CONSTANTS
  NumLines,         \* gpuFrameHeight
  Pixels,           \* the possible contents of a scanline
  Black,            \* the contents memset gives it
  MaxFrames,        \* bound: how often the screen changes
  DisplayCanTurnOff \* built with BACKLIGHT_CONTROL and TURN_DISPLAY_OFF_AFTER_USECS_OF_INACTIVITY

ASSUME FrameAssumption ==
  /\ NumLines \in Nat \ {0}
  /\ Black \in Pixels
  /\ MaxFrames \in Nat
  /\ DisplayCanTurnOff \in BOOLEAN

VARIABLES
  screen,            \* what the GPU displays
  frames,            \* history: how often it has changed
  \* shared by the two threads
  published,         \* videoCoreFramebuffer[1]
  numNewGpuFrames,
  \* the GPU polling thread
  gPc, grabbed, gLine,  \* grabbed is videoCoreFramebuffer[0]
  \* the main thread
  mPc, mLine, numNewFrames,
  current, shown,    \* framebuffer[0] and framebuffer[1]
  interlacedUpdate, frameParity, displayOff

source    == <<screen, frames>>
gpuThread == <<gPc, grabbed, gLine>>
updating  == <<current, shown, interlacedUpdate, frameParity, displayOff>>
vars == <<source, published, numNewGpuFrames, gpuThread, mPc, mLine, numNewFrames, updating>>

Lines == 0..NumLines - 1
Frame == [Lines -> Pixels]
BlackFrame == [l \in Lines |-> Black]

Init ==
  /\ screen \in Frame /\ frames = 0
  /\ published = BlackFrame /\ numNewGpuFrames = 0
  /\ gPc = "poll" /\ grabbed = BlackFrame /\ gLine = 0
  /\ mPc = "loop" /\ mLine = 0 /\ numNewFrames = 0
  /\ current = BlackFrame /\ shown = BlackFrame
  /\ interlacedUpdate = FALSE /\ frameParity = 0 /\ displayOff = FALSE

\* An application renders.
RenderFrame ==
  /\ frames < MaxFrames
  /\ screen' \in Frame \ {screen}
  /\ frames' = frames + 1
  /\ UNCHANGED <<published, numNewGpuFrames, gpuThread, mPc, mLine, numNewFrames, updating>>

-----------------------------------------------------------------------------
(* The GPU polling thread *)

IsNewFramebuffer(new, old) == new # old

\* SnapshotFramebuffer, and the comparison with the last frame: published is written by this thread alone.
Poll ==
  /\ gPc = "poll"
  /\ grabbed' = screen
  /\ gPc' = IF IsNewFramebuffer(grabbed', published) THEN "publish" ELSE "poll"
  /\ gLine' = 0
  /\ UNCHANGED <<source, published, numNewGpuFrames, mPc, mLine, numNewFrames, updating>>

\* One scanline of memcpy(videoCoreFramebuffer[1], videoCoreFramebuffer[0]).
PublishLine ==
  /\ gPc = "publish"
  /\ published' = [published EXCEPT ![gLine] = grabbed[gLine]]
  /\ gLine' = gLine + 1
  /\ gPc' = IF gLine' = NumLines THEN "count" ELSE "publish"
  /\ UNCHANGED <<source, numNewGpuFrames, grabbed, mPc, mLine, numNewFrames, updating>>

CountFrame ==
  /\ gPc = "count"
  /\ numNewGpuFrames' = numNewGpuFrames + 1
  /\ gPc' = "wake"
  /\ UNCHANGED <<source, published, grabbed, gLine, mPc, mLine, numNewFrames, updating>>

\* FUTEX_WAKE on numNewGpuFrames: only the main thread waits there.
WakeMain ==
  /\ gPc = "wake"
  /\ mPc' = IF mPc = "asleep" THEN "test" ELSE mPc
  /\ gPc' = "poll"
  /\ UNCHANGED <<source, published, numNewGpuFrames, grabbed, gLine, mLine, numNewFrames, updating>>

GpuStep == Poll \/ PublishLine \/ CountFrame \/ WakeMain

-----------------------------------------------------------------------------
(* The main thread *)

\* After an interlaced update half of the image is still pending: the thread does
\* not wait for a frame (THROTTLE_INTERLACING: it waits, but not for longer than
\* until the time the next one is expected).
LoopTop ==
  /\ mPc = "loop"
  /\ mPc' = IF interlacedUpdate THEN "load" ELSE "test"
  /\ UNCHANGED <<source, published, numNewGpuFrames, gpuThread, mLine, numNewFrames, updating>>

\* while(numNewGpuFrames == 0): a display without activity for long enough is turned off.
TestFrames ==
  /\ mPc = "test"
  /\ mPc' = IF numNewGpuFrames = 0 THEN "wait" ELSE "load"
  /\ \/ UNCHANGED displayOff
     \/ DisplayCanTurnOff /\ numNewGpuFrames = 0 /\ displayOff' = TRUE
  /\ UNCHANGED <<source, published, numNewGpuFrames, gpuThread, mLine, numNewFrames,
                 current, shown, interlacedUpdate, frameParity>>

\* A bug: sleep without comparing the counter again.
SleepUnconditionally ==
  /\ mPc = "wait"
  /\ mPc' = "asleep"
  /\ UNCHANGED <<source, published, numNewGpuFrames, gpuThread, mLine, numNewFrames, updating>>

\* FUTEX_WAIT as long as numNewGpuFrames is 0.
FutexWait ==
  /\ mPc = "wait"
  /\ mPc' = IF numNewGpuFrames = 0 THEN "asleep" ELSE "test"
  /\ UNCHANGED <<source, published, numNewGpuFrames, gpuThread, mLine, numNewFrames, updating>>

\* The wait ends by itself when a display that is on may have to be turned off.
FutexTimeout ==
  /\ mPc = "asleep" /\ DisplayCanTurnOff /\ ~displayOff
  /\ mPc' = "test"
  /\ UNCHANGED <<source, published, numNewGpuFrames, gpuThread, mLine, numNewFrames, updating>>

LoadFrames ==
  /\ mPc = "load"
  /\ numNewFrames' = numNewGpuFrames
  /\ mPc' = IF numNewFrames' > 0 THEN "copy" ELSE "update"
  /\ mLine' = 0
  /\ UNCHANGED <<source, published, numNewGpuFrames, gpuThread, updating>>

\* One scanline of memcpy(framebuffer[0], videoCoreFramebuffer[1]).
CopyLine ==
  /\ mPc = "copy"
  /\ current' = [current EXCEPT ![mLine] = published[mLine]]
  /\ mLine' = mLine + 1
  /\ mPc' = IF mLine' = NumLines THEN "subtract" ELSE "copy"
  /\ UNCHANGED <<source, published, numNewGpuFrames, gpuThread, numNewFrames,
                 shown, interlacedUpdate, frameParity, displayOff>>

\* A bug: every frame counted so far is taken as copied.
ForgetFrames ==
  /\ mPc = "subtract"
  /\ numNewGpuFrames' = 0
  /\ mPc' = "update"
  /\ UNCHANGED <<source, published, gpuThread, mLine, numNewFrames, updating>>

\* A bug: the second subtraction, that of USE_GPU_VSYNC, without loading the counter again.
SubtractTwice ==
  /\ mPc = "subtract"
  /\ numNewGpuFrames' = numNewGpuFrames - 2 * numNewFrames
  /\ mPc' = "update"
  /\ UNCHANGED <<source, published, gpuThread, mLine, numNewFrames, updating>>

SubtractFrames ==
  /\ mPc = "subtract"
  /\ numNewGpuFrames' = numNewGpuFrames - numNewFrames
  /\ mPc' = "update"
  /\ UNCHANGED <<source, published, gpuThread, mLine, numNewFrames, updating>>

\* A bug: interlaced updates always send the same field.
FieldNotSwapped(interlaced) == frameParity

\* The field of an interlaced update; progressive updates leave it alone.
NextParity(interlaced) == IF interlaced THEN 1 - frameParity ELSE frameParity

\* CountNumChangedPixels counts all lines, the diff only those of the field.
ChangedLines == {l \in Lines : current[l] # shown[l]}
LinesToSend(interlaced, parity) == {l \in ChangedLines : interlaced => l % 2 = parity}

\* The display is turned on after the update, by a change that is large enough or a key,
\* and off after a time with neither.
NextDisplayOff == IF DisplayCanTurnOff THEN BOOLEAN ELSE {displayOff}

\* With many changes or a full queue the update is interlaced.  A display that is
\* off is sent nothing.
UpdateDisplay ==
  /\ mPc = "update"
  /\ interlacedUpdate' \in BOOLEAN
  /\ frameParity' = NextParity(interlacedUpdate')
  /\ shown' = IF displayOff THEN shown
              ELSE [l \in Lines |-> IF l \in LinesToSend(interlacedUpdate', frameParity')
                                    THEN current[l] ELSE shown[l]]
  /\ displayOff' \in NextDisplayOff
  /\ mPc' = "loop"
  /\ UNCHANGED <<source, published, numNewGpuFrames, gpuThread, mLine, numNewFrames, current>>

MainStep ==
  \/ LoopTop \/ TestFrames \/ FutexWait
  \/ LoadFrames \/ CopyLine \/ SubtractFrames \/ UpdateDisplay

Next == RenderFrame \/ GpuStep \/ MainStep \/ FutexTimeout

Spec == Init /\ [][Next]_vars

\* The GPU thread never waits for anything, the main thread for a wake-up only.
FairSpec == Spec /\ WF_vars(GpuStep) /\ WF_vars(MainStep) /\ WF_vars(FutexTimeout)

-----------------------------------------------------------------------------
(* Properties *)

\* Types; in particular numNewGpuFrames, a signed int, is never negative: what the
\* main thread subtracts was counted before.
TypeOK ==
  /\ screen \in Frame /\ frames \in 0..MaxFrames
  /\ published \in Frame /\ numNewGpuFrames \in Nat
  /\ gPc \in {"poll", "publish", "count", "wake"} /\ grabbed \in Frame /\ gLine \in 0..NumLines
  /\ mPc \in {"loop", "test", "wait", "asleep", "load", "copy", "subtract", "update"}
  /\ mLine \in 0..NumLines /\ numNewFrames \in Nat
  /\ current \in Frame /\ shown \in Frame
  /\ interlacedUpdate \in BOOLEAN /\ frameParity \in 0..1 /\ displayOff \in BOOLEAN

\* The GPU thread is not between publishing a frame and counting it.
NothingPending == gPc \in {"poll", "wake"}

\* Outside the main thread's copy, framebuffer[0] is the frame the GPU thread
\* published last unless numNewGpuFrames says that there is another one to copy or the
\* GPU thread is about to say so: a frame torn by the unlocked copies is copied again.
NoFrameForgotten ==
  (mPc \notin {"copy", "subtract"} /\ numNewGpuFrames = 0 /\ NothingPending)
     => current = published

\* The inductive invariant behind it.  While the main thread copies, the lines copied so
\* far are the published ones unless a frame was counted since it loaded the counter.
CopyInv ==
  /\ gPc = "publish" => gLine < NumLines
  /\ mPc = "copy" => mLine < NumLines
  /\ mPc \in {"copy", "subtract"} => 0 < numNewFrames /\ numNewFrames <= numNewGpuFrames
  /\ (mPc = "copy" /\ numNewGpuFrames = numNewFrames /\ NothingPending)
        => \A l \in Lines : l < mLine => current[l] = published[l]
  /\ (mPc = "subtract" /\ numNewGpuFrames = numNewFrames /\ NothingPending)
        => current = published

FrameInv == TypeOK /\ CopyInv /\ NoFrameForgotten

\* The main thread sleeps through no frame: if there is one, its wake-up is on the way.
NoSleepThroughFrame == (mPc = "asleep" /\ numNewGpuFrames > 0) => gPc = "wake"

\* Once the screen rests, so does the display, on the same picture, both fields of it,
\* provided the display was never turned off.
LatestFrameShown == []~displayOff => <>[](shown = screen)
=============================================================================
