------------------------- MODULE FrameDeliveryProofs -------------------------
(* Proofs about FrameDelivery, for screens, contents and runs of any size. *)
EXTENDS FrameDelivery, TLAPS

LEMMA InitEstablishes == Init => FrameInv
<1> SUFFICES ASSUME Init PROVE FrameInv
  OBVIOUS
<1> USE FrameAssumption DEF FrameAssumption, Init
<1>1. BlackFrame \in Frame
  BY DEF BlackFrame, Frame
<1>2. TypeOK
  <2>1. interlacedUpdate \in BOOLEAN /\ displayOff \in BOOLEAN
    OBVIOUS
  <2>2. frames \in 0..MaxFrames /\ gLine \in 0..NumLines /\ mLine \in 0..NumLines /\ frameParity \in 0..1
    OBVIOUS
  <2> QED BY <1>1, <2>1, <2>2 DEF TypeOK
<1>3. CopyInv /\ NoFrameForgotten
  BY DEF CopyInv, NoFrameForgotten
<1> QED BY <1>2, <1>3 DEF FrameInv

LEMMA RenderPreserves ==
  ASSUME FrameInv, RenderFrame
  PROVE  FrameInv'
<1> USE DEF RenderFrame, FrameInv, gpuThread, updating
<1>1. TypeOK'
  BY FrameAssumption DEF FrameAssumption, TypeOK
<1> QED BY <1>1 DEF CopyInv, NoFrameForgotten, NothingPending

LEMMA GpuPreserves ==
  ASSUME FrameInv, GpuStep
  PROVE  FrameInv'
<1> USE FrameAssumption DEF FrameAssumption, FrameInv, source, updating
<1>1. CASE Poll
  <2>1. TypeOK'
    BY <1>1 DEF Poll, TypeOK
  <2>2. CopyInv'
    BY <1>1 DEF Poll, IsNewFramebuffer, CopyInv, NothingPending
  <2>3. NoFrameForgotten'
    BY <1>1 DEF Poll, IsNewFramebuffer, NoFrameForgotten, NothingPending
  <2> QED BY <2>1, <2>2, <2>3
<1>2. CASE PublishLine
  <2>0. gLine \in Lines
    BY <1>2 DEF PublishLine, TypeOK, CopyInv, Lines
  <2>1. published' \in Frame
    BY <1>2, <2>0 DEF PublishLine, TypeOK, Frame
  <2>2. gLine' \in 0..NumLines /\ (gPc' = "publish" => gLine' < NumLines)
    BY <1>2, <2>0 DEF PublishLine, TypeOK, Lines
  <2>3. TypeOK'
    BY <1>2, <2>1, <2>2 DEF PublishLine, TypeOK
  <2>4. gPc' \in {"publish", "count"}
    BY <1>2 DEF PublishLine
  <2> QED BY <1>2, <2>2, <2>3, <2>4 DEF PublishLine, CopyInv, NoFrameForgotten, NothingPending
<1>3. CASE CountFrame
  <2>1. numNewGpuFrames \in Nat /\ numNewFrames \in Nat /\ numNewGpuFrames' = numNewGpuFrames + 1
    BY <1>3 DEF CountFrame, TypeOK
  <2>2. TypeOK'
    BY <1>3 DEF CountFrame, TypeOK
  <2>3. CopyInv'
    BY <1>3, <2>1 DEF CountFrame, CopyInv, NothingPending
  <2>4. NoFrameForgotten'
    BY <2>1 DEF NoFrameForgotten
  <2> QED BY <2>2, <2>3, <2>4
<1>4. CASE WakeMain
  <2>1. TypeOK'
    BY <1>4 DEF WakeMain, TypeOK
  <2>2. CopyInv'
    BY <1>4 DEF WakeMain, CopyInv, NothingPending
  <2>3. NoFrameForgotten'
    BY <1>4 DEF WakeMain, NoFrameForgotten, NothingPending
  <2> QED BY <2>1, <2>2, <2>3
<1> QED BY <1>1, <1>2, <1>3, <1>4 DEF GpuStep

LEMMA CopyPreserves ==
  ASSUME FrameInv, CopyLine
  PROVE  FrameInv'
<1> USE FrameAssumption DEF FrameAssumption, FrameInv, source, gpuThread
<1>0. mLine \in Lines /\ mLine' = mLine + 1
  BY DEF CopyLine, TypeOK, CopyInv, Lines
<1>1. current' \in Frame
  BY <1>0 DEF CopyLine, TypeOK, Frame
<1>2. mLine' \in 0..NumLines /\ (mPc' = "copy" => mLine' < NumLines)
  BY <1>0 DEF CopyLine, TypeOK, Lines
<1>3. TypeOK'
  BY <1>1, <1>2 DEF CopyLine, TypeOK
<1>4. ASSUME numNewGpuFrames = numNewFrames, NothingPending, NEW l \in Lines, l < mLine'
      PROVE  current'[l] = published[l]
  <2>1. CASE l = mLine
    BY <2>1, <1>0 DEF CopyLine, TypeOK, Frame
  <2>2. CASE l # mLine
    BY <2>2, <1>0, <1>4 DEF CopyLine, CopyInv, TypeOK, Frame, Lines
  <2> QED BY <2>1, <2>2
<1>5. ASSUME numNewGpuFrames = numNewFrames, NothingPending, mPc' = "subtract"
      PROVE  current' = published
  <2>1. \A l \in Lines : l < mLine'
    BY <1>0, <1>5 DEF CopyLine, Lines
  <2>2. \A l \in Lines : current'[l] = published[l]
    BY <1>4, <1>5, <2>1
  <2> QED BY <1>1, <2>2 DEF Frame, TypeOK
<1>6. mPc' \in {"copy", "subtract"} /\ mPc = "copy" /\ UNCHANGED <<published, numNewGpuFrames, gPc, gLine, numNewFrames>>
  BY DEF CopyLine
<1>7. CopyInv'
  BY <1>2, <1>4, <1>5, <1>6 DEF CopyInv, NothingPending
<1>8. NoFrameForgotten'
  BY <1>6 DEF NoFrameForgotten
<1> QED BY <1>3, <1>7, <1>8

LEMMA MainPreserves ==
  ASSUME FrameInv, MainStep \/ FutexTimeout
  PROVE  FrameInv'
<1> USE FrameAssumption DEF FrameAssumption, FrameInv, source, gpuThread, updating
<1>1. CASE LoopTop \/ FutexWait \/ FutexTimeout
  <2>1. TypeOK'
    BY <1>1 DEF LoopTop, FutexWait, FutexTimeout, TypeOK
  <2>2. CopyInv' /\ NoFrameForgotten'
    BY <1>1 DEF LoopTop, FutexWait, FutexTimeout, CopyInv, NoFrameForgotten, NothingPending
  <2> QED BY <2>1, <2>2
<1>2. CASE TestFrames
  <2>1. TypeOK'
    BY <1>2 DEF TestFrames, TypeOK
  <2>2. CopyInv' /\ NoFrameForgotten'
    BY <1>2 DEF TestFrames, CopyInv, NoFrameForgotten, NothingPending
  <2> QED BY <2>1, <2>2
<1>3. CASE LoadFrames
  <2>1. TypeOK'
    BY <1>3 DEF LoadFrames, TypeOK
  <2>2. CopyInv'
    BY <1>3 DEF LoadFrames, CopyInv, NothingPending, TypeOK, Lines
  <2>3. NoFrameForgotten'
    BY <1>3 DEF LoadFrames, NoFrameForgotten, NothingPending, TypeOK
  <2> QED BY <2>1, <2>2, <2>3
<1>4. CASE CopyLine
  BY <1>4, CopyPreserves
<1>5. CASE SubtractFrames
  <2>1. numNewGpuFrames' \in Nat /\ (numNewGpuFrames' = 0 => numNewGpuFrames = numNewFrames)
    BY <1>5 DEF SubtractFrames, TypeOK, CopyInv
  <2>2. TypeOK'
    BY <1>5, <2>1 DEF SubtractFrames, TypeOK
  <2>3. CopyInv' /\ NoFrameForgotten'
    BY <1>5, <2>1 DEF SubtractFrames, CopyInv, NoFrameForgotten, NothingPending
  <2> QED BY <2>2, <2>3
<1>6. CASE UpdateDisplay
  <2>1. shown' \in Frame
    BY <1>6 DEF UpdateDisplay, TypeOK, Frame
  <2>2. frameParity' \in 0..1
    BY <1>6 DEF UpdateDisplay, TypeOK, NextParity
  <2>3. displayOff' \in BOOLEAN
    BY <1>6 DEF UpdateDisplay, NextDisplayOff, TypeOK
  <2>4. TypeOK'
    BY <1>6, <2>1, <2>2, <2>3 DEF UpdateDisplay, TypeOK
  <2>5. CopyInv' /\ NoFrameForgotten'
    BY <1>6 DEF UpdateDisplay, CopyInv, NoFrameForgotten, NothingPending
  <2> QED BY <2>4, <2>5
<1> QED BY <1>1, <1>2, <1>3, <1>4, <1>5, <1>6 DEF MainStep

LEMMA StutterPreserves ==
  ASSUME FrameInv, UNCHANGED vars
  PROVE  FrameInv'
BY DEF vars, source, gpuThread, updating, FrameInv, TypeOK, CopyInv, NoFrameForgotten,
       NothingPending

\* FrameInv holds of a screen of any size with any contents, however the copies of the two
\* threads interleave and however often the screen changes.
THEOREM FrameInvariant == Spec => []FrameInv
<1>1. Init => FrameInv
  BY InitEstablishes
<1>2. FrameInv /\ [Next]_vars => FrameInv'
  BY RenderPreserves, GpuPreserves, MainPreserves, StutterPreserves DEF Next
<1> QED BY <1>1, <1>2, PTL DEF Spec

\* The main thread never subtracts a frame that was not counted: numNewGpuFrames stays in
\* the natural numbers.
THEOREM TypeCorrect == Spec => []TypeOK
<1>1. FrameInv => TypeOK
  BY DEF FrameInv
<1> QED BY <1>1, FrameInvariant, PTL

\* A frame that was published, or that was torn while it was copied, is never forgotten.
THEOREM FramesAreDelivered == Spec => []NoFrameForgotten
<1>1. FrameInv => NoFrameForgotten
  BY DEF FrameInv
<1> QED BY <1>1, FrameInvariant, PTL

\* The main thread is never left asleep with a frame to copy.
THEOREM NoFrameSleptThrough == Spec => []NoSleepThroughFrame
<1>1. Init => NoSleepThroughFrame
  BY DEF Init, NoSleepThroughFrame
<1>2. NoSleepThroughFrame /\ TypeOK /\ [Next]_vars => NoSleepThroughFrame'
  <2> SUFFICES ASSUME NoSleepThroughFrame, TypeOK, [Next]_vars PROVE NoSleepThroughFrame'
    OBVIOUS
  <2> USE DEF NoSleepThroughFrame, source, gpuThread, updating
  <2>1. CASE RenderFrame \/ UNCHANGED vars
    BY <2>1 DEF RenderFrame, vars
  <2>2. CASE GpuStep
    BY <2>2 DEF GpuStep, Poll, PublishLine, CountFrame, WakeMain
  <2>3. CASE FutexWait
    BY <2>3 DEF FutexWait, TypeOK
  <2>4. CASE LoopTop \/ TestFrames \/ LoadFrames \/ CopyLine \/ SubtractFrames \/ UpdateDisplay
             \/ FutexTimeout
    BY <2>4 DEF LoopTop, TestFrames, LoadFrames, CopyLine, SubtractFrames, UpdateDisplay,
                FutexTimeout
  <2> QED BY <2>1, <2>2, <2>3, <2>4 DEF Next, MainStep
<1> QED BY <1>1, <1>2, TypeCorrect, PTL DEF Spec
=============================================================================
