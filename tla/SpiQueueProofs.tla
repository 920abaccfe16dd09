--------------------------- MODULE SpiQueueProofs ---------------------------
(***************************************************************************)
(* TLAPS proofs about SpiQueue, for a ring and tasks of any size: the live *)
(* tasks lie one behind the other from the head to the tail, whatever the  *)
(* two threads know of each other's offsets, so none is overwritten, all   *)
(* run once and in order, and the bytes that are counted fit the ring.     *)
(***************************************************************************)
EXTENDS SpiQueue, Integers, WellFoundedInduction, TLAPS

LEMMA InitEstablishes == Init => QueueInv
<1> SUFFICES ASSUME Init PROVE QueueInv
  OBVIOUS
<1> USE QueueAssumption DEF Init
<1>1a. queueHead \in Nat /\ queueTail \in Nat /\ queueHead = queueTail /\ 0 \in Offsets
  BY DEF Offsets
<1>0. Released = 0 /\ Live = {} /\ ~Wrapped
  BY <1>1a DEF Released, Live, Wrapped
<1>1. TypeOK
  BY <1>1a DEF TypeOK, Offsets, TaskIds, EndOfBuffer, PPcs, CPcs
<1>2. Layout
  BY <1>0 DEF Layout, LiveTasksIntact, LiveTasksInBounds,
       LiveTasksDisjoint, LiveTasksChained, SentinelIntact
<1>3. TransmittedInOrder
  BY DEF TransmittedInOrder
<1>4. AllocationSafe
  BY DEF AllocationSafe
<1>5. FetchSafe
  BY DEF FetchSafe
<1> QED BY <1>1, <1>2, <1>3, <1>4, <1>5 DEF QueueInv

\* A step that moves neither the head, the tail, memory nor what is live keeps the layout.
LEMMA LayoutUnchanged ==
  ASSUME Layout, Released' = Released,
         UNCHANGED <<queueHead, queueTail, buffer, sizeOf, committed, startOf, eob>>
  PROVE  Layout'
BY DEF Layout, LiveTasksIntact, LiveTasksInBounds, LiveTasksDisjoint, LiveTasksChained,
       SentinelIntact, Live, EndOf, Wrapped, Cells

LEMMA AllocTaskPreserves ==
  ASSUME NEW bytes \in PayloadSizes, QueueInv, AllocTask(bytes)
  PROVE  QueueInv'
<1> USE QueueAssumption DEF QueueInv, AllocTask, vars, shared, producer, consumer, history
<1>1. TypeOK'
  BY DEF TypeOK, Offsets, PPcs, CPcs
<1>2. Released' = Released
  BY DEF Released
<1>3. Layout'
  BY <1>2, LayoutUnchanged
<1>4. TransmittedInOrder'
  BY DEF TransmittedInOrder
<1>5. AllocationSafe'
  BY DEF AllocationSafe, TypeOK, Offsets, Cells
<1>6. FetchSafe'
  BY <1>2 DEF FetchSafe, Wrapped
<1> QED BY <1>1, <1>3, <1>4, <1>5, <1>6

LEMMA WrapWakeTestPreserves ==
  ASSUME QueueInv, WrapWakeTest
  PROVE  QueueInv'
<1> USE QueueAssumption DEF QueueInv, WrapWakeTest, RestartAtZero, vars, shared, producer, consumer, history
<1>1. TypeOK'
  BY SMTT(60) DEF TypeOK, Offsets, PPcs, CPcs
<1>2. Released' = Released
  BY DEF Released
<1>3. Layout'
  BY <1>2, LayoutUnchanged
<1>4. TransmittedInOrder'
  BY DEF TransmittedInOrder
<1>5. AllocationSafe'
  BY SMTT(60) DEF AllocationSafe, TypeOK, Offsets, Cells
<1>6. FetchSafe'
  BY <1>2 DEF FetchSafe, Wrapped
<1> QED BY <1>1, <1>3, <1>4, <1>5, <1>6

LEMMA WrapFutexWakePreserves ==
  ASSUME QueueInv, WrapFutexWake
  PROVE  QueueInv'
<1> USE QueueAssumption DEF QueueInv, WrapFutexWake, RestartAtZero, Wake, vars, shared, producer, consumer, history
<1>1. TypeOK'
  BY DEF TypeOK, Offsets, PPcs, CPcs
<1>2. Released' = Released
  BY DEF Released
<1>3. Layout'
  BY <1>2, LayoutUnchanged
<1>4. TransmittedInOrder'
  BY DEF TransmittedInOrder
<1>5. AllocationSafe'
  BY DEF AllocationSafe, TypeOK, Offsets, Cells
<1>6. FetchSafe'
  BY <1>2 DEF FetchSafe, Wrapped
<1> QED BY <1>1, <1>3, <1>4, <1>5, <1>6

LEMMA AllocReturnPreserves ==
  ASSUME QueueInv, AllocReturn
  PROVE  QueueInv'
<1> USE QueueAssumption DEF QueueInv, AllocReturn, vars, shared, producer, consumer, history
<1>1. TypeOK'
  BY DEF TypeOK, Offsets, PPcs, CPcs
<1>2. Released' = Released
  BY DEF Released
<1>3. Layout'
  BY <1>2, LayoutUnchanged
<1>4. TransmittedInOrder'
  BY DEF TransmittedInOrder
<1>5. AllocationSafe'
  BY DEF AllocationSafe, TypeOK, Offsets, Cells
<1>6. FetchSafe'
  BY <1>2 DEF FetchSafe, Wrapped
<1> QED BY <1>1, <1>3, <1>4, <1>5, <1>6

LEMMA CountBytesPreserves ==
  ASSUME QueueInv, CountBytes
  PROVE  QueueInv'
<1> USE QueueAssumption DEF QueueInv, CountBytes, vars, shared, producer, consumer, history
<1>1. TypeOK'
  BY DEF TypeOK, Offsets, PPcs, CPcs
<1>2. Released' = Released
  BY DEF Released
<1>3. Layout'
  BY <1>2, LayoutUnchanged
<1>4. TransmittedInOrder'
  BY DEF TransmittedInOrder
<1>5. AllocationSafe'
  BY DEF AllocationSafe, TypeOK, Offsets, Cells
<1>6. FetchSafe'
  BY <1>2 DEF FetchSafe, Wrapped
<1> QED BY <1>1, <1>3, <1>4, <1>5, <1>6

LEMMA CommitWakeTestPreserves ==
  ASSUME QueueInv, CommitWakeTest
  PROVE  QueueInv'
<1> USE QueueAssumption DEF QueueInv, CommitWakeTest, vars, shared, producer, consumer, history
<1>1. TypeOK'
  BY DEF TypeOK, Offsets, PPcs, CPcs
<1>2. Released' = Released
  BY DEF Released
<1>3. Layout'
  BY <1>2, LayoutUnchanged
<1>4. TransmittedInOrder'
  BY DEF TransmittedInOrder
<1>5. AllocationSafe'
  BY DEF AllocationSafe, TypeOK, Offsets, Cells
<1>6. FetchSafe'
  BY <1>2 DEF FetchSafe, Wrapped
<1> QED BY <1>1, <1>3, <1>4, <1>5, <1>6

LEMMA CommitFutexWakePreserves ==
  ASSUME QueueInv, CommitFutexWake
  PROVE  QueueInv'
<1> USE QueueAssumption DEF QueueInv, CommitFutexWake, Wake, vars, shared, producer, consumer, history
<1>1. TypeOK'
  BY DEF TypeOK, Offsets, PPcs, CPcs
<1>2. Released' = Released
  BY DEF Released
<1>3. Layout'
  BY <1>2, LayoutUnchanged
<1>4. TransmittedInOrder'
  BY DEF TransmittedInOrder
<1>5. AllocationSafe'
  BY DEF AllocationSafe, TypeOK, Offsets, Cells
<1>6. FetchSafe'
  BY <1>2 DEF FetchSafe, Wrapped
<1> QED BY <1>1, <1>3, <1>4, <1>5, <1>6

LEMMA OuterLoopPreserves ==
  ASSUME QueueInv, OuterLoop
  PROVE  QueueInv'
<1> USE QueueAssumption DEF QueueInv, OuterLoop, vars, shared, producer, consumer, history
<1>1. TypeOK'
  BY DEF TypeOK, Offsets, PPcs, CPcs
<1>2. Released' = Released
  BY DEF Released
<1>3. Layout'
  BY <1>2, LayoutUnchanged
<1>4. TransmittedInOrder'
  BY DEF TransmittedInOrder
<1>5. AllocationSafe'
  BY DEF AllocationSafe, TypeOK, Offsets, Cells
<1>6. FetchSafe'
  BY <1>2 DEF FetchSafe, Wrapped
<1> QED BY <1>1, <1>3, <1>4, <1>5, <1>6

LEMMA FutexWaitPreserves ==
  ASSUME QueueInv, FutexWait
  PROVE  QueueInv'
<1> USE QueueAssumption DEF QueueInv, FutexWait, vars, shared, producer, consumer, history
<1>1. TypeOK'
  BY DEF TypeOK, Offsets, PPcs, CPcs
<1>2. Released' = Released
  BY DEF Released
<1>3. Layout'
  BY <1>2, LayoutUnchanged
<1>4. TransmittedInOrder'
  BY DEF TransmittedInOrder
<1>5. AllocationSafe'
  BY DEF AllocationSafe, TypeOK, Offsets, Cells
<1>6. FetchSafe'
  BY <1>2 DEF FetchSafe, Wrapped
<1> QED BY <1>1, <1>3, <1>4, <1>5, <1>6

LEMMA InnerLoopPreserves ==
  ASSUME QueueInv, InnerLoop
  PROVE  QueueInv'
<1> USE QueueAssumption DEF QueueInv, InnerLoop, vars, shared, producer, consumer, history
<1>1. TypeOK'
  BY DEF TypeOK, Offsets, PPcs, CPcs
<1>2. Released' = Released
  BY DEF Released
<1>3. Layout'
  BY <1>2, LayoutUnchanged
<1>4. TransmittedInOrder'
  BY DEF TransmittedInOrder
<1>5. AllocationSafe'
  BY DEF AllocationSafe, TypeOK, Offsets, Cells
<1>6. FetchSafe'
  BY <1>2 DEF FetchSafe, Wrapped
<1> QED BY <1>1, <1>3, <1>4, <1>5, <1>6

LEMMA GetTaskPreserves ==
  ASSUME QueueInv, GetTask
  PROVE  QueueInv'
<1> USE QueueAssumption DEF QueueInv, GetTask, vars, shared, producer, consumer, history
<1>1. TypeOK'
  BY DEF TypeOK, Offsets, PPcs, CPcs
<1>2. Released' = Released
  BY DEF Released
<1>3. Layout'
  BY <1>2, LayoutUnchanged
<1>4. TransmittedInOrder'
  BY DEF TransmittedInOrder
<1>5. AllocationSafe'
  BY DEF AllocationSafe, TypeOK, Offsets, Cells
<1>6. FetchSafe'
  <2>1. CASE queueHead # queueTail
    <3>1. (Released < committed /\ startOf[Released + 1] = queueHead) \/ (Wrapped /\ queueHead = eob)
      BY <2>1 DEF Layout, LiveTasksChained, TransmittedInOrder, Released, TypeOK
    <3> QED BY <2>1, <3>1, <1>2 DEF FetchSafe, Wrapped, TypeOK
  <2>2. CASE queueHead = queueTail
    BY <2>2 DEF FetchSafe
  <2> QED BY <2>1, <2>2
<1> QED BY <1>1, <1>3, <1>4, <1>5, <1>6

LEMMA ReadCmdPreserves ==
  ASSUME QueueInv, ReadCmd
  PROVE  QueueInv'
<1> USE QueueAssumption DEF QueueInv, ReadCmd, vars, shared, producer, consumer, history
<1>1. TypeOK'
  BY SMTT(30) DEF TypeOK, Offsets, PPcs, CPcs
<1>2. Released' = Released
  BY DEF Released
<1>3. Layout'
  BY <1>2, LayoutUnchanged
<1>4. TransmittedInOrder'
  BY DEF TransmittedInOrder
<1>5. AllocationSafe'
  BY DEF AllocationSafe, TypeOK, Offsets, Cells
<1>6. FetchSafe'
  <2>1. CASE Released < committed /\ startOf[Released + 1] = queueHead
    <3>1. Released + 1 \in Live /\ Released + 1 # EndOfBuffer
      BY <2>1 DEF Live, Released, TransmittedInOrder, TypeOK, EndOfBuffer
    <3>2. sizeOf[Released + 1] \in Nat /\ queueHead \in Nat
      BY <3>1, SMTT(60) DEF Live, TypeOK, TaskIds, TransmittedInOrder, Released
    <3>3. queueHead \in Cells(startOf[Released + 1], sizeOf[Released + 1])
      BY <2>1, <3>2 DEF Cells
    <3>4. buffer[queueHead] = Released + 1
      BY <3>1, <3>3 DEF Layout, LiveTasksIntact
    <3> QED BY <2>1, <3>1, <3>4, <1>2 DEF FetchSafe, Wrapped
  <2>2. CASE Wrapped /\ queueHead = eob /\ cTail <= queueTail
    <3>1. buffer[queueHead] = EndOfBuffer
      BY <2>2 DEF Layout, SentinelIntact
    <3> QED BY <2>2, <3>1, <1>2 DEF FetchSafe, Wrapped
  <2> QED BY <2>1, <2>2 DEF FetchSafe
<1> QED BY <1>1, <1>3, <1>4, <1>5, <1>6

LEMMA DoneTaskUncountPreserves ==
  ASSUME QueueInv, DoneTaskUncount
  PROVE  QueueInv'
<1> USE QueueAssumption DEF QueueInv, DoneTaskUncount, vars, shared, producer, consumer, history
<1>1. TypeOK'
  <2>1. \A n \in Nat : n % CounterModulus \in 0..CounterModulus - 1
    OBVIOUS
  <2>2. SizeAt(cTask) + 1 \in Nat
    BY SMTT(30) DEF TypeOK, SizeAt
  <2>3. \A r \in 0..CounterModulus - 1 : spiBytesQueued + CounterModulus - r \in Nat
    BY DEF TypeOK
  <2>4. spiBytesQueued' \in 0..CounterModulus - 1
    BY <2>1, <2>2, <2>3
  <2> QED BY <2>4 DEF TypeOK, Offsets, PPcs, CPcs
<1>2. Released' = Released
  BY DEF Released
<1>3. Layout'
  BY <1>2, LayoutUnchanged
<1>4. TransmittedInOrder'
  BY DEF TransmittedInOrder
<1>5. AllocationSafe'
  BY DEF AllocationSafe, TypeOK, Offsets, Cells
<1>6. FetchSafe'
  BY <1>2 DEF FetchSafe, Wrapped
<1> QED BY <1>1, <1>3, <1>4, <1>5, <1>6

LEMMA AllRunPreserves ==
  ASSUME QueueInv, AllRun
  PROVE  QueueInv'
<1> USE QueueAssumption DEF QueueInv, AllRun, vars, shared, producer, consumer, history
<1>1. TypeOK'
  BY DEF TypeOK, Offsets, PPcs, CPcs
<1>2. Released' = Released
  BY DEF Released
<1>3. Layout'
  BY <1>2, LayoutUnchanged
<1>4. TransmittedInOrder'
  BY DEF TransmittedInOrder
<1>5. AllocationSafe'
  BY DEF AllocationSafe, TypeOK, Offsets, Cells
<1>6. FetchSafe'
  BY <1>2 DEF FetchSafe, Wrapped
<1> QED BY <1>1, <1>3, <1>4, <1>5, <1>6


\* Live tasks are tasks, with sizes and places.
LiveTyped ==
  /\ committed \in Nat /\ Released \in Nat /\ Released <= committed
  /\ \A i \in Live : /\ i \in TaskIds /\ i \in Nat /\ i <= committed /\ Released < i
                    /\ startOf[i] \in Nat /\ sizeOf[i] \in Nat
                    /\ EndOf(i) \in Nat /\ startOf[i] < EndOf(i)

LEMMA LiveFacts == ASSUME QueueInv PROVE LiveTyped
<1> USE QueueAssumption DEF QueueInv
<1>1. committed \in Nat /\ Released \in Nat /\ Released <= committed
  BY DEF Released, TypeOK, TransmittedInOrder, FetchSafe
<1>2. ASSUME NEW i \in Live
      PROVE  i \in TaskIds /\ i \in Nat /\ i <= committed /\ Released < i
  BY <1>1 DEF Live, TaskIds, TypeOK
<1>3. ASSUME NEW i \in TaskIds
      PROVE  /\ startOf[i] \in Nat /\ sizeOf[i] \in Nat
             /\ EndOf(i) \in Nat /\ startOf[i] < EndOf(i)
  BY DEF TypeOK, Offsets, EndOf
<1> QED BY <1>1, <1>2, <1>3 DEF LiveTyped

LEMMA WriteSentinelPreserves ==
  ASSUME QueueInv, WriteSentinel
  PROVE  QueueInv'
<1> USE QueueAssumption DEF WriteSentinel, SentinelWritten, vars, shared, producer, consumer, history
<1>a. TypeOK /\ Layout /\ TransmittedInOrder /\ AllocationSafe /\ FetchSafe /\ LiveTyped
  BY LiveFacts DEF QueueInv
<1>0. queueHead <= queueTail /\ 0 < queueHead /\ pTail = queueTail /\ ~Wrapped
  BY <1>a DEF AllocationSafe, TypeOK, Wrapped
<1>1. TypeOK'
  BY <1>a, <1>0 DEF TypeOK, Offsets, PPcs, CPcs, EndOfBuffer
<1>2. Released' = Released /\ Live' = Live
  BY <1>a DEF Released, Live
<1>3. Layout'
  <2>1. LiveTasksIntact'
    <3>1. SUFFICES ASSUME NEW i \in Live, NEW o \in Cells(startOf[i], sizeOf[i])
                   PROVE  o \in Offsets /\ buffer'[o] = i
      BY <1>a, <1>2 DEF LiveTasksIntact
    <3>2. o \in Offsets /\ buffer[o] = i
      BY <1>a DEF Layout, LiveTasksIntact
    <3>3. EndOf(i) <= queueTail
      BY <1>a, <1>0 DEF Layout, LiveTasksInBounds
    <3>4. startOf[i] \in Nat /\ sizeOf[i] \in Nat /\ EndOf(i) \in Nat
      BY <1>a DEF LiveTyped
    <3>5. o \in Nat /\ o < EndOf(i)
      BY <3>4 DEF Cells, EndOf
    <3>6. o # queueTail
      BY <1>a, <3>3, <3>4, <3>5 DEF TypeOK
    <3> QED BY <1>a, <1>0, <3>2, <3>6 DEF TypeOK
  <2>2. LiveTasksInBounds' /\ LiveTasksDisjoint' /\ LiveTasksChained' /\ SentinelIntact'
    BY <1>a, <1>0, <1>2 DEF Layout, LiveTasksInBounds, LiveTasksDisjoint, LiveTasksChained,
                      SentinelIntact, EndOf, Wrapped
  <2> QED BY <1>a, <2>1, <2>2 DEF Layout
<1>4. TransmittedInOrder'
  BY <1>a DEF TransmittedInOrder
<1>5. AllocationSafe'
  BY <1>a, <1>0 DEF AllocationSafe, TypeOK, Offsets, Cells
<1>6. FetchSafe'
  BY <1>a, <1>0, <1>2 DEF FetchSafe, Wrapped
<1> QED BY <1>a, <1>1, <1>3, <1>4, <1>5, <1>6 DEF QueueInv

LEMMA PublishWrapPreserves ==
  ASSUME QueueInv, PublishWrap
  PROVE  QueueInv'
<1> USE QueueAssumption DEF PublishWrap, vars, shared, producer, consumer, history
<1>a. TypeOK /\ Layout /\ TransmittedInOrder /\ AllocationSafe /\ FetchSafe /\ LiveTyped
  BY LiveFacts DEF QueueInv
<1>0. /\ 0 < queueHead /\ queueHead <= queueTail /\ eob = queueTail
      /\ buffer[eob] = EndOfBuffer /\ ~Wrapped /\ Wrapped'
  BY <1>a DEF AllocationSafe, TypeOK, Wrapped
<1>1. TypeOK'
  BY <1>a, <1>0 DEF TypeOK, Offsets, PPcs, CPcs
<1>2. Released' = Released /\ Live' = Live /\ \A i : EndOf(i)' = EndOf(i)
  BY <1>a DEF Released, Live, EndOf
<1>3. Layout'
  <2>1. LiveTasksIntact'
    BY <1>a, <1>2 DEF Layout, LiveTasksIntact, Cells
  <2>2. LiveTasksInBounds'
    BY <1>a, <1>0, <1>2 DEF Layout, LiveTasksInBounds
  <2>3. LiveTasksDisjoint'
    BY <1>a, <1>0, <1>2 DEF Layout, LiveTasksDisjoint
  <2>4. LiveTasksChained'
    BY <1>a, <1>0, <1>2 DEF Layout, LiveTasksChained
  <2>5. SentinelIntact'
    BY <1>a, <1>0 DEF SentinelIntact, TypeOK
  <2> QED BY <1>a, <2>1, <2>2, <2>3, <2>4, <2>5 DEF Layout
<1>4. TransmittedInOrder'
  BY <1>a DEF TransmittedInOrder
<1>5. AllocationSafe'
  BY <1>a, <1>0 DEF AllocationSafe
<1>6. FetchSafe'
  BY <1>a, <1>0, <1>2 DEF FetchSafe
<1> QED BY <1>a, <1>1, <1>3, <1>4, <1>5, <1>6 DEF QueueInv

LEMMA FillTaskPreserves ==
  ASSUME QueueInv, FillTask
  PROVE  QueueInv'
<1> USE QueueAssumption DEF FillTask, vars, shared, producer, consumer, history
<1>a. TypeOK /\ Layout /\ TransmittedInOrder /\ AllocationSafe /\ FetchSafe /\ LiveTyped
  BY LiveFacts DEF QueueInv
<1>0. /\ pTail = queueTail /\ pBytes \in Nat /\ committed + 1 \in TaskIds
      /\ pTail \in Nat /\ queueHead \in Nat
      /\ pNewTail = pTail + Header + pBytes /\ pNewTail + Header < QueueSize
      /\ Wrapped => pNewTail < queueHead
  BY <1>a DEF AllocationSafe, TypeOK, Wrapped, TaskIds, Offsets
<1>1. TypeOK'
  <2>1. buffer' \in [Offsets -> 0..MaxTasks]
    BY <1>a, <1>0 DEF TypeOK, TaskIds
  <2>2. sizeOf' \in [TaskIds -> Nat]
    BY <1>a, <1>0 DEF TypeOK
  <2> QED BY <1>a, <2>1, <2>2 DEF TypeOK, PPcs
<1>2. Released' = Released /\ Live' = Live
  BY <1>a DEF Released, Live
<1>3. \A i \in Live : i \in TaskIds /\ i # committed + 1 /\ startOf[i] \in Nat /\ sizeOf[i] \in Nat
  BY <1>a DEF LiveTyped, TypeOK, TaskIds
<1>4. \A i \in Live : sizeOf'[i] = sizeOf[i] /\ EndOf(i)' = EndOf(i)
  BY <1>a, <1>3 DEF EndOf, TypeOK
<1>5. Layout'
  <2>1. LiveTasksIntact'
    <3>1. SUFFICES ASSUME NEW i \in Live, NEW o \in Cells(startOf[i], sizeOf[i])
                   PROVE  o \in Offsets /\ buffer'[o] = i
      BY <1>a, <1>2, <1>4 DEF LiveTasksIntact
    <3>2. o \in Offsets /\ buffer[o] = i
      BY <1>a DEF Layout, LiveTasksIntact
    <3>3. o \notin Cells(pTail, pBytes)
      <4>1. startOf[i] <= o /\ o < EndOf(i) /\ o \in Nat
        BY <1>a, <1>3 DEF Cells, EndOf
      <4>2. EndOf(i) <= queueTail \/ (Wrapped /\ queueHead <= startOf[i])
        BY <1>a DEF Layout, LiveTasksInBounds
      <4> QED BY <1>a, <4>1, <4>2, <1>0, <1>3 DEF Cells, EndOf
    <3> QED BY <1>a, <3>2, <3>3
  <2>2. LiveTasksInBounds'
    BY <1>a, <1>2, <1>4 DEF Layout, LiveTasksInBounds, Wrapped
  <2>3. LiveTasksDisjoint'
    BY <1>a, <1>2, <1>4 DEF Layout, LiveTasksDisjoint, Wrapped
  <2>4. LiveTasksChained'
    <3>1. Released < committed => committed \in Live
      BY <1>a DEF Live, Released, TypeOK, TransmittedInOrder
    <3> QED BY <1>a, <1>2, <1>4, <3>1 DEF Layout, LiveTasksChained, Wrapped
  <2>5. SentinelIntact'
    <3>1. SUFFICES ASSUME Wrapped PROVE queueHead <= eob /\ eob + Header < QueueSize /\ buffer'[eob] = EndOfBuffer
      BY <1>a DEF SentinelIntact, Wrapped
    <3>2. queueHead <= eob /\ eob + Header < QueueSize /\ buffer[eob] = EndOfBuffer
      BY <1>a, <3>1 DEF Layout, SentinelIntact
    <3>3. eob \in Offsets /\ eob \notin Cells(pTail, pBytes)
      BY <1>a, <3>1, <3>2, <1>0 DEF Cells, TypeOK, Offsets
    <3> QED BY <1>a, <3>2, <3>3
  <2> QED BY <1>a, <2>1, <2>2, <2>3, <2>4, <2>5 DEF Layout
<1>6. TransmittedInOrder'
  BY <1>a DEF TransmittedInOrder
<1>7. AllocationSafe'
  <2>1. \A o \in Cells(pTail, pBytes) : buffer'[o] = committed + 1
    BY <1>a, <1>0 DEF Cells, Offsets
  <2>2. sizeOf'[committed + 1] = pBytes
    BY <1>a, <1>0 DEF TypeOK
  <2> QED BY <1>a, <1>0, <2>1, <2>2 DEF AllocationSafe, Cells
<1>8. FetchSafe'
  BY <1>a, <1>2 DEF FetchSafe, Wrapped
<1> QED BY <1>a, <1>1, <1>5, <1>6, <1>7, <1>8 DEF QueueInv

LEMMA PublishTaskPreserves ==
  ASSUME QueueInv, PublishTask
  PROVE  QueueInv'
<1> USE QueueAssumption DEF PublishTask, vars, shared, producer, consumer, history
<1>a. TypeOK /\ Layout /\ TransmittedInOrder /\ AllocationSafe /\ FetchSafe /\ LiveTyped
  BY LiveFacts DEF QueueInv
<1> PICK id : id = committed + 1
  OBVIOUS
<1>0. /\ pTail = queueTail /\ pBytes \in Nat /\ id \in TaskIds /\ sizeOf[id] = pBytes
      /\ pTail \in Nat /\ queueHead \in Nat /\ pTail \in Offsets
      /\ pNewTail = pTail + Header + pBytes /\ pNewTail + Header < QueueSize
      /\ Wrapped => pNewTail < queueHead
      /\ \A o \in Cells(pTail, pBytes) : buffer[o] = id
  BY <1>a DEF AllocationSafe, TypeOK, Wrapped, TaskIds, Offsets
<1>1. queueTail' = pNewTail /\ queueTail' \in Nat /\ queueTail < queueTail'
  <2>1. pTail \in Cells(pTail, pBytes)
    BY <1>a, <1>0 DEF Cells
  <2>2. SizeAt(pTail) = pBytes
    BY <1>a, <1>0, <2>1 DEF SizeAt
  <2> QED BY <1>a, <1>0, <2>2
<1>2. TypeOK'
  <2>1. committed' \in 0..MaxTasks
    BY <1>a, <1>0 DEF TypeOK, TaskIds
  <2>2. startOf' \in [TaskIds -> Offsets] /\ pTail' \in Offsets
    BY <1>a, <1>0 DEF TypeOK
  <2> QED BY <1>a, <1>0, <1>1, <2>1, <2>2 DEF TypeOK, PPcs
<1>3. Released' = Released /\ Live' = Live \cup {id} /\ id \notin Live /\ committed' = id
  BY <1>a DEF LiveTyped, Released, Live, TypeOK
<1>4. \A i \in Live : startOf'[i] = startOf[i] /\ EndOf(i)' = EndOf(i)
  <2>1. ASSUME NEW i \in Live PROVE i \in TaskIds /\ i # committed + 1
    BY <1>a DEF LiveTyped
  <2>2. ASSUME NEW i \in Live PROVE startOf'[i] = startOf[i]
    BY <1>a, <2>1 DEF TypeOK
  <2> QED BY <2>2 DEF EndOf
<1>5. startOf'[id] = queueTail /\ EndOf(id)' = queueTail'
  BY <1>a, <1>0, <1>1 DEF EndOf, TypeOK
<1>6. Wrapped' = Wrapped
  BY <1>a, <1>0, <1>1, SMTT(30) DEF Wrapped, TypeOK
<1>7. Layout'
  <2>1. LiveTasksIntact'
    <3>1. ASSUME NEW o \in Cells(pTail, pBytes) PROVE o \in Offsets
      BY <1>a, <1>0 DEF Cells, Offsets
    <3> QED BY <1>a, <1>0, <1>3, <1>4, <1>5, <3>1 DEF Layout, LiveTasksIntact, Cells
  <2>2. LiveTasksInBounds'
    <3>1. ASSUME NEW i \in Live
          PROVE  (\/ queueHead <= startOf[i] /\ EndOf(i) <= (IF Wrapped THEN eob ELSE queueTail)
                  \/ Wrapped /\ EndOf(i) <= queueTail)'
      BY <1>a, <1>1, <1>4, <1>6, SMTT(30) DEF LiveTyped, Layout, LiveTasksInBounds, TypeOK
    <3>2. (\/ queueHead <= startOf[id] /\ EndOf(id) <= (IF Wrapped THEN eob ELSE queueTail)
           \/ Wrapped /\ EndOf(id) <= queueTail)'
      BY <1>a, <1>0, <1>1, <1>5, <1>6 DEF Wrapped
    <3> QED BY <1>a, <1>3, <3>1, <3>2 DEF LiveTasksInBounds
  <2>3. LiveTasksDisjoint'
    <3>1. ASSUME NEW i \in Live, NEW j \in Live, i < j
          PROVE  (EndOf(i) <= startOf[j] \/ (Wrapped /\ EndOf(j) <= queueTail /\ queueHead <= startOf[i]))'
      <4>1. EndOf(i) <= startOf[j] \/ (Wrapped /\ EndOf(j) <= queueTail /\ queueHead <= startOf[i])
        BY <1>a, <3>1 DEF Layout, LiveTasksDisjoint
      <4>2. EndOf(j) \in Nat /\ queueTail \in Nat
        BY <1>a DEF LiveTyped, TypeOK
      <4> QED BY <4>1, <4>2, <1>1, <1>4, <1>6
    <3>2. ASSUME NEW i \in Live
          PROVE  (EndOf(i) <= startOf[id] \/ (Wrapped /\ EndOf(id) <= queueTail /\ queueHead <= startOf[i]))'
      <4>1. \/ queueHead <= startOf[i] /\ EndOf(i) <= (IF Wrapped THEN eob ELSE queueTail)
            \/ Wrapped /\ EndOf(i) <= queueTail
        BY <1>a DEF Layout, LiveTasksInBounds
      <4>2. Wrapped => queueTail' < queueHead
        BY <1>0, <1>1
      <4> QED BY <4>1, <4>2, <1>1, <1>4, <1>5, <1>6 DEF Wrapped
    <3>3. \A j \in Live : ~(id < j)
      BY <1>a DEF LiveTyped, TypeOK
    <3> QED BY <1>a, <1>3, <3>1, <3>2, <3>3 DEF LiveTasksDisjoint
  <2>4. LiveTasksChained'
    <3>1. ASSUME NEW i \in Live, i + 1 \in Live
          PROVE  (startOf[i + 1] = EndOf(i) \/ (Wrapped /\ startOf[i + 1] = 0 /\ EndOf(i) = eob))'
      BY <1>a, <3>1, <1>4, <1>6 DEF Layout, LiveTasksChained
    <3>2. CASE Released < committed
      <4> PICK last : last = committed
        OBVIOUS
      <4>1. last \in Live /\ Released + 1 \in Live
        BY <1>a, <3>2 DEF LiveTyped, Live, TypeOK
      <4>2. (startOf[id] = EndOf(last) \/ (Wrapped /\ startOf[id] = 0 /\ EndOf(last) = eob))'
        BY <1>a, <3>2, <4>1, <1>4, <1>5, <1>6 DEF Layout, LiveTasksChained
      <4>3. (startOf[Released + 1] = queueHead \/ (Wrapped /\ startOf[Released + 1] = 0 /\ queueHead = eob))'
        BY <1>a, <3>2, <4>1, <1>3, <1>4, <1>6 DEF Layout, LiveTasksChained
      <4>4. ASSUME NEW i \in Live', i + 1 \in Live'
            PROVE  (startOf[i + 1] = EndOf(i) \/ (Wrapped /\ startOf[i + 1] = 0 /\ EndOf(i) = eob))'
        <5>1. i \in Live \/ i = last + 1
          BY <4>4, <1>3
        <5>2. last \in Nat /\ \A k \in Live : k \in Nat /\ k <= last
          BY <1>a DEF LiveTyped
        <5>3. i + 1 \in Live \/ i + 1 = last + 1
          BY <4>4, <1>3
        <5>4. i \in Live /\ (i + 1 \in Live \/ i = last)
          BY <5>1, <5>2, <5>3
        <5> QED BY <5>4, <3>1, <4>2
      <4>5. (Released < committed)'
        BY <1>a, <3>2, <1>3 DEF LiveTyped, TypeOK
      <4>6. EndOf(id)' = queueTail' /\ committed' = id /\ Released' # committed'
        BY <1>a, <1>3, <1>5, <4>5 DEF LiveTyped, TypeOK
      <4> QED BY <1>a, <4>3, <4>4, <4>5, <4>6 DEF LiveTasksChained
    <3>3. CASE Released = committed
      <4>1. Live = {}
        BY <1>a, <3>3 DEF Live, TypeOK
      <4>2. (startOf[id] = queueHead \/ (Wrapped /\ startOf[id] = 0 /\ queueHead = eob))'
        BY <1>a, <3>3, <1>5, <1>6 DEF Layout, LiveTasksChained
      <4>3. (Released + 1)' = id /\ Released' # committed'
        BY <1>a, <3>3, <1>3 DEF LiveTyped, TypeOK
      <4>4. \A i \in Live' : i + 1 \notin Live'
        BY <1>a, <1>3, <4>1 DEF TypeOK
      <4> QED BY <1>a, <4>2, <4>3, <4>4, <1>3, <1>5 DEF LiveTasksChained
    <3> QED BY <1>a, <3>2, <3>3 DEF LiveTyped, TypeOK
  <2>5. SentinelIntact'
    BY <1>a, <1>6 DEF Layout, SentinelIntact
  <2> QED BY <1>a, <2>1, <2>2, <2>3, <2>4, <2>5 DEF Layout
<1>8. TransmittedInOrder'
  BY <1>a DEF TransmittedInOrder, TypeOK
<1>9. AllocationSafe'
  BY <1>a DEF AllocationSafe
<1>10. FetchSafe'
  <2>1. Released < committed => startOf'[Released + 1] = startOf[Released + 1]
    <3>1. Released < committed => Released + 1 \in Live
      BY <1>a DEF LiveTyped, Live
    <3> QED BY <3>1, <1>4
  <2>2. Released < committed => (Released < committed)'
    BY <1>a, <1>3 DEF LiveTyped
  <2>3. cTail <= queueTail => cTail <= queueTail'
    BY <1>a, <1>1 DEF TypeOK, Offsets
  <2> QED BY <1>a, <1>3, <1>6, <2>1, <2>2, <2>3 DEF FetchSafe
<1> QED BY <1>a, <1>2, <1>7, <1>8, <1>9, <1>10 DEF QueueInv

LEMMA GetTaskWrapPreserves ==
  ASSUME QueueInv, GetTaskWrap
  PROVE  QueueInv'
<1> USE QueueAssumption DEF GetTaskWrap, vars, shared, producer, consumer, history
<1>a. TypeOK /\ Layout /\ TransmittedInOrder /\ AllocationSafe /\ FetchSafe /\ LiveTyped
  BY LiveFacts DEF QueueInv
<1>0. /\ Wrapped /\ queueHead = eob /\ queueTail < queueHead /\ cTail <= queueTail
      /\ queueTail \in Nat /\ queueHead \in Nat /\ cTail \in Nat /\ ~Wrapped'
  BY <1>a DEF FetchSafe, TypeOK, Wrapped, Offsets
<1>1. TypeOK'
  BY <1>a DEF TypeOK, Offsets, CPcs
<1>2. Released' = Released /\ Live' = Live /\ \A i : EndOf(i)' = EndOf(i)
  BY DEF Released, Live, EndOf
<1>3. ASSUME NEW i \in Live
      PROVE  /\ EndOf(i) <= queueTail /\ startOf[i] \in Nat /\ EndOf(i) \in Nat
             /\ startOf[i] < EndOf(i) /\ EndOf(i) # eob
  <2>1. startOf[i] \in Nat /\ EndOf(i) \in Nat /\ startOf[i] < EndOf(i)
    BY <1>a DEF LiveTyped
  <2>2. (queueHead <= startOf[i] /\ EndOf(i) <= eob) \/ EndOf(i) <= queueTail
    BY <1>a, <1>0 DEF Layout, LiveTasksInBounds
  <2> QED BY <1>0, <2>1, <2>2
<1>4. Layout'
  <2>1. LiveTasksIntact'
    BY <1>a, <1>2 DEF Layout, LiveTasksIntact, Cells
  <2>2. LiveTasksInBounds'
    BY <1>0, <1>2, <1>3 DEF LiveTasksInBounds
  <2>3. LiveTasksDisjoint'
    <3>1. ASSUME NEW i \in Live, NEW j \in Live, i < j
          PROVE  EndOf(i) <= startOf[j]
      <4>1. EndOf(i) <= startOf[j] \/ queueHead <= startOf[i]
        BY <1>a, <3>1 DEF Layout, LiveTasksDisjoint
      <4> QED BY <4>1, <1>0, <1>3
    <3> QED BY <1>2, <3>1 DEF LiveTasksDisjoint
  <2>4. LiveTasksChained'
    <3>1. ASSUME NEW i \in Live, i + 1 \in Live
          PROVE  startOf[i + 1] = EndOf(i)
      BY <1>a, <1>3, <3>1 DEF Layout, LiveTasksChained
    <3>2. CASE Released < committed
      <4>1. committed \in Live /\ Released + 1 \in Live
        BY <1>a, <3>2 DEF LiveTyped, Live
      <4>2. startOf[Released + 1] = 0
        BY <1>a, <1>0, <1>3, <3>2, <4>1 DEF Layout, LiveTasksChained
      <4>3. EndOf(committed) = queueTail
        BY <1>a, <1>3, <3>2, <4>1 DEF Layout, LiveTasksChained
      <4>4. EndOf(committed)' = queueTail'
        BY <4>3 DEF EndOf
      <4>5. Released' # committed'
        BY <1>a, <1>2, <3>2 DEF LiveTyped
      <4> QED BY <1>2, <3>1, <4>2, <4>4, <4>5 DEF LiveTasksChained
    <3>3. CASE Released = committed
      <4>1. queueTail = 0
        BY <1>a, <1>0, <3>3 DEF Layout, LiveTasksChained
      <4>2. ~(Released < committed)'
        BY <1>a, <1>2, <3>3 DEF LiveTyped
      <4> QED BY <1>2, <3>1, <4>1, <4>2 DEF LiveTasksChained
    <3> QED BY <1>a, <3>2, <3>3 DEF LiveTyped
  <2>5. SentinelIntact'
    BY <1>0 DEF SentinelIntact
  <2> QED BY <2>1, <2>2, <2>3, <2>4, <2>5 DEF Layout
<1>5. TransmittedInOrder'
  BY <1>a DEF TransmittedInOrder
<1>6. AllocationSafe'
  <2>1. pPc # "wrapPublish"
    BY <1>a, <1>0 DEF AllocationSafe, Wrapped
  <2> QED BY <1>a, <2>1, <1>0 DEF AllocationSafe, Cells
<1>7. FetchSafe'
  <2>1. cTail # 0 => Released < committed
    <3>1. Released = committed => queueTail = 0
      BY <1>a, <1>0 DEF Layout, LiveTasksChained
    <3> QED BY <1>a, <1>0, <3>1 DEF LiveTyped
  <2>2. Released < committed => startOf[Released + 1] = 0
    <3>1. Released < committed => Released + 1 \in Live
      BY <1>a DEF LiveTyped, Live
    <3> QED BY <1>a, <1>0, <1>3, <3>1 DEF Layout, LiveTasksChained
  <2> QED BY <1>2, <2>1, <2>2 DEF FetchSafe
<1> QED BY <1>1, <1>4, <1>5, <1>6, <1>7 DEF QueueInv

LEMMA RunSPITaskPreserves ==
  ASSUME QueueInv, RunSPITask
  PROVE  QueueInv'
<1> USE QueueAssumption DEF RunSPITask, vars, shared, producer, consumer, history
<1>a. TypeOK /\ Layout /\ TransmittedInOrder /\ AllocationSafe /\ FetchSafe /\ LiveTyped
  BY LiveFacts DEF QueueInv
<1> PICK id : id = Released + 1
  OBVIOUS
<1>0. /\ Released = Len(bus) /\ id = Len(bus) + 1 /\ id \in Live /\ id \in 1..committed
      /\ cTask = queueHead /\ startOf[id] = cTask
  BY <1>a DEF FetchSafe, Released, Live, LiveTyped
<1>1. bus' = Append(bus, id)
  <2>1. \A o \in Cells(cTask, sizeOf[id]) : o \in Offsets /\ buffer[o] = id
    BY <1>a, <1>0 DEF Layout, LiveTasksIntact
  <2>2. sizeOf[id] \in Nat /\ cTask \in Nat /\ id \in TaskIds
    BY <1>a, <1>0 DEF LiveTyped, TypeOK
  <2>3. cTask \in Cells(cTask, sizeOf[id])
    BY <2>2 DEF Cells
  <2>4. buffer[cTask] = id /\ SizeAt(cTask) = sizeOf[id]
    BY <2>1, <2>2, <2>3 DEF SizeAt
  <2> QED BY <2>1, <2>4
<1>2. TypeOK'
  <2>1. bus' \in Seq(0..MaxTasks)
    <3>1. id \in 0..MaxTasks
      BY <1>a, <1>0 DEF TypeOK
    <3> QED BY <1>a, <1>1, <3>1 DEF TypeOK
  <2> QED BY <1>a, <2>1 DEF TypeOK, CPcs
<1>3. Len(bus') = Len(bus) + 1 /\ Len(bus) \in Nat
  BY <1>a, <1>1 DEF TypeOK
<1>4. Released' = Released
  BY <1>0, <1>3 DEF Released
<1>5. Layout'
  BY <1>a, <1>4, LayoutUnchanged
<1>6. TransmittedInOrder'
  <2>1. \A i \in 1..Len(bus) : bus'[i] = i
    BY <1>a, <1>1 DEF TransmittedInOrder, TypeOK
  <2>2. bus'[id] = id
    BY <1>a, <1>0, <1>1 DEF TypeOK
  <2> QED BY <1>0, <1>3, <2>1, <2>2 DEF TransmittedInOrder
<1>7. AllocationSafe'
  BY <1>a DEF AllocationSafe, Cells
<1>8. FetchSafe'
  BY <1>a, <1>3, <1>4 DEF FetchSafe, Wrapped
<1> QED BY <1>2, <1>5, <1>6, <1>7, <1>8 DEF QueueInv

LEMMA DoneTaskAdvancePreserves ==
  ASSUME QueueInv, DoneTaskAdvance
  PROVE  QueueInv'
<1> USE QueueAssumption DEF DoneTaskAdvance, vars, shared, producer, consumer, history
<1>a. TypeOK /\ Layout /\ TransmittedInOrder /\ AllocationSafe /\ FetchSafe /\ LiveTyped
  BY LiveFacts DEF QueueInv
<1> PICK id : id = Released + 1
  OBVIOUS
<1>0. /\ id \in Live /\ id \in TaskIds /\ id \in Nat /\ id <= committed /\ committed \in Nat
      /\ cTask = queueHead /\ startOf[id] = queueHead
      /\ queueHead \in Nat /\ queueTail \in Nat /\ EndOf(id) \in Nat /\ queueHead < EndOf(id)
  BY <1>a DEF FetchSafe, Live, LiveTyped, TypeOK
<1>1. queueHead' = EndOf(id)
  <2>1. \A o \in Cells(cTask, sizeOf[id]) : buffer[o] = id
    BY <1>a, <1>0 DEF Layout, LiveTasksIntact
  <2>2. sizeOf[id] \in Nat /\ cTask \in Nat
    BY <1>a, <1>0 DEF LiveTyped
  <2>3. buffer[cTask] = id
    BY <2>1, <2>2 DEF Cells
  <2> QED BY <1>0, <2>3 DEF SizeAt, EndOf
<1>2. Released' = id /\ Live' = Live \ {id} /\ \A i : EndOf(i)' = EndOf(i)
  <2>1. Released' = id
    BY <1>a DEF Released, FetchSafe, TypeOK
  <2>2. Live = id..committed /\ Live' = id + 1..committed
    BY <2>1 DEF Live
  <2> QED BY <2>1, <2>2, <1>0 DEF EndOf
<1>3. Wrapped' = Wrapped /\ EndOf(id) <= (IF Wrapped THEN eob ELSE queueTail)
  <2>1. \/ EndOf(id) <= (IF Wrapped THEN eob ELSE queueTail)
        \/ Wrapped /\ EndOf(id) <= queueTail
    BY <1>a, <1>0 DEF Layout, LiveTasksInBounds
  <2> QED BY <2>1, <1>0, <1>1 DEF Wrapped
<1>4. TypeOK'
  <2>1. queueHead' \in Nat /\ queueHead' + Header < QueueSize
    <3>1. queueTail + Header < QueueSize /\ eob \in Nat
      BY <1>a DEF TypeOK, Offsets
    <3>2. Wrapped => eob + Header < QueueSize
      BY <1>a DEF Layout, SentinelIntact
    <3> QED BY <1>0, <1>1, <1>3, <3>1, <3>2
  <2> QED BY <1>a, <2>1 DEF TypeOK, CPcs
<1>5. Layout'
  <2>1. LiveTasksIntact'
    BY <1>a, <1>2 DEF Layout, LiveTasksIntact, Cells
  <2>2. LiveTasksInBounds'
    <3>1. ASSUME NEW i \in Live, i # id
          PROVE  \/ EndOf(id) <= startOf[i] /\ EndOf(i) <= (IF Wrapped THEN eob ELSE queueTail)
                 \/ Wrapped /\ EndOf(i) <= queueTail
      <4>1. id < i
        BY <1>a, <3>1 DEF LiveTyped
      <4>2. EndOf(id) <= startOf[i] \/ (Wrapped /\ EndOf(i) <= queueTail)
        BY <1>a, <1>0, <4>1 DEF Layout, LiveTasksDisjoint
      <4>3. \/ EndOf(i) <= (IF Wrapped THEN eob ELSE queueTail)
            \/ Wrapped /\ EndOf(i) <= queueTail
        BY <1>a DEF Layout, LiveTasksInBounds
      <4> QED BY <4>2, <4>3
    <3> QED BY <1>1, <1>2, <1>3, <3>1 DEF LiveTasksInBounds
  <2>3. LiveTasksDisjoint'
    <3>1. ASSUME NEW i \in Live, NEW j \in Live, i # id, i < j
          PROVE  \/ EndOf(i) <= startOf[j]
                 \/ Wrapped /\ EndOf(j) <= queueTail /\ EndOf(id) <= startOf[i]
      <4>1. \/ EndOf(i) <= startOf[j]
            \/ Wrapped /\ EndOf(j) <= queueTail /\ queueHead <= startOf[i]
        BY <1>a, <3>1 DEF Layout, LiveTasksDisjoint
      <4>2. id < i
        BY <1>a, <3>1 DEF LiveTyped
      <4>3. EndOf(id) <= startOf[i] \/ (Wrapped /\ EndOf(i) <= queueTail)
        BY <1>a, <1>0, <4>2 DEF Layout, LiveTasksDisjoint
      <4>4. startOf[i] \in Nat /\ EndOf(i) \in Nat /\ startOf[i] < EndOf(i)
        BY <1>a DEF LiveTyped
      <4> QED BY <1>0, <4>1, <4>3, <4>4 DEF Wrapped
    <3> QED BY <1>1, <1>2, <1>3, <3>1 DEF LiveTasksDisjoint
  <2>4. LiveTasksChained'
    <3>1. ASSUME NEW i \in Live', i + 1 \in Live'
          PROVE  (startOf[i + 1] = EndOf(i) \/ (Wrapped /\ startOf[i + 1] = 0 /\ EndOf(i) = eob))'
      BY <1>a, <1>2, <1>3, <3>1 DEF Layout, LiveTasksChained
    <3>2. EndOf(committed) = queueTail \/ (Wrapped /\ queueTail = 0 /\ EndOf(committed) = eob)
      BY <1>a, <1>0 DEF Layout, LiveTasksChained, LiveTyped
    <3>3. CASE id < committed
      <4>1. id + 1 \in Live
        BY <1>a, <1>0, <3>3 DEF Live, LiveTyped
      <4>2. startOf[id + 1] = EndOf(id) \/ (Wrapped /\ startOf[id + 1] = 0 /\ EndOf(id) = eob)
        BY <1>a, <1>0, <4>1 DEF Layout, LiveTasksChained
      <4>3. EndOf(committed)' = EndOf(committed)
        BY DEF EndOf
      <4>4. (Released # committed)'
        BY <1>0, <1>2, <3>3
      <4> QED BY <1>1, <1>2, <1>3, <3>1, <3>2, <4>2, <4>3, <4>4 DEF LiveTasksChained
    <3>4. CASE id = committed
      <4>1. ~(Released < committed)'
        BY <1>0, <1>2, <3>4
      <4> QED BY <1>1, <1>3, <3>1, <3>2, <3>4, <4>1 DEF LiveTasksChained
    <3> QED BY <1>0, <3>3, <3>4
  <2>5. SentinelIntact'
    BY <1>a, <1>1, <1>3 DEF Layout, SentinelIntact
  <2> QED BY <2>1, <2>2, <2>3, <2>4, <2>5 DEF Layout
<1>6. TransmittedInOrder'
  BY <1>a DEF TransmittedInOrder
<1>7. AllocationSafe'
  <2>1. queueHead < queueHead' /\ (~Wrapped => queueHead' <= queueTail)
    BY <1>0, <1>1, <1>3
  <2>2. pPc \in {"fill", "publish"} => (~(queueHead > pTail /\ queueHead <= pNewTail))'
    <3>1. ASSUME pPc \in {"fill", "publish"}
          PROVE  /\ pTail = queueTail /\ pNewTail \in Nat
                 /\ ~(queueHead > pTail /\ queueHead <= pNewTail)
      BY <1>a, <3>1 DEF AllocationSafe, TypeOK
    <3>2. CASE Wrapped
      BY <1>0, <1>1, <2>1, <3>1, <3>2 DEF Wrapped
    <3>3. CASE ~Wrapped
      BY <1>0, <1>1, <2>1, <3>1, <3>3
    <3> QED BY <3>2, <3>3
  <2>3. pPc = "wrapPublish" => (0 < queueHead /\ queueHead <= queueTail)'
    BY <1>a, <1>0, <1>1, <2>1 DEF AllocationSafe, Wrapped
  <2> QED BY <1>a, <2>2, <2>3 DEF AllocationSafe, Cells
<1>8. FetchSafe'
  BY DEF FetchSafe
<1> QED BY <1>4, <1>5, <1>6, <1>7, <1>8 DEF QueueInv

-----------------------------------------------------------------------------
(* The theorems *)

LEMMA NextPreserves == ASSUME QueueInv, [Next]_vars PROVE QueueInv'
<1>1. ASSUME NEW bytes \in PayloadSizes, AllocTask(bytes) PROVE QueueInv'
  BY <1>1, AllocTaskPreserves
<1>2. CASE ProducerStep
  BY <1>2, WriteSentinelPreserves, PublishWrapPreserves, WrapWakeTestPreserves,
     WrapFutexWakePreserves, AllocReturnPreserves, FillTaskPreserves, PublishTaskPreserves,
     CountBytesPreserves, CommitWakeTestPreserves, CommitFutexWakePreserves
  DEF ProducerStep
<1>3. CASE ConsumerStep
  BY <1>3, OuterLoopPreserves, FutexWaitPreserves, InnerLoopPreserves, GetTaskPreserves,
     ReadCmdPreserves, GetTaskWrapPreserves, RunSPITaskPreserves, DoneTaskUncountPreserves,
     DoneTaskAdvancePreserves
  DEF ConsumerStep
<1>4. CASE AllRun
  BY <1>4, AllRunPreserves
<1>5. CASE UNCHANGED vars
  <2> USE <1>5 DEF QueueInv, vars, shared, producer, consumer, history
  <2>1. Released' = Released
    BY DEF Released
  <2>2. TypeOK'
    BY DEF TypeOK
  <2>3. Layout'
    BY <2>1, LayoutUnchanged
  <2>4. TransmittedInOrder' /\ AllocationSafe' /\ FetchSafe'
    BY <2>1 DEF TransmittedInOrder, AllocationSafe, FetchSafe, Wrapped, Cells
  <2> QED BY <2>2, <2>3, <2>4
<1> QED BY <1>1, <1>2, <1>3, <1>4, <1>5 DEF Next

\* Whatever the size of the buffer, of the header and of the tasks, and however the two
\* threads interleave, the queue keeps the invariant QueueInv.
THEOREM QueueInvariant == Spec => []QueueInv
<1>1. Init => QueueInv
  BY InitEstablishes
<1>2. QueueInv /\ [Next]_vars => QueueInv'
  BY NextPreserves
<1> QED BY <1>1, <1>2, PTL DEF Spec

\* Head, tail and every local of AllocTask and GetTask stay in range: no header is ever
\* read or written beyond the end of the buffer.
THEOREM TypeCorrect == Spec => []TypeOK
<1>1. QueueInv => TypeOK
  BY DEF QueueInv
<1> QED BY <1>1, QueueInvariant, PTL

\* AllocTask and its caller never overwrite a task that the SPI thread has still to run
\* or is running, and committed tasks never overlap.
THEOREM TasksStayIntact == Spec => []LiveTasksIntact
<1>1. QueueInv => LiveTasksIntact
  BY DEF QueueInv, Layout
<1> QED BY <1>1, QueueInvariant, PTL

\* The bus carries the committed tasks, each once, whole, in the order of CommitTask.
THEOREM TasksRunInOrder == Spec => []TransmittedInOrder
<1>1. QueueInv => TransmittedInOrder
  BY DEF QueueInv
<1> QED BY <1>1, QueueInvariant, PTL

\* The SPI thread never sleeps through work: the comparison of queueHead with the old
\* tail in AllocTask and CommitTask never skips a FUTEX_WAKE that was needed.
THEOREM NoWakeupLost == Spec => []NoLostWakeup
<1>1. Init => NoLostWakeup
  BY DEF Init, NoLostWakeup
<1>2. QueueInv /\ NoLostWakeup /\ [Next]_vars => NoLostWakeup'
  <2> SUFFICES ASSUME QueueInv, NoLostWakeup, [Next]_vars PROVE NoLostWakeup'
    OBVIOUS
  <2> USE DEF NoLostWakeup, shared, producer, consumer, history
  <2>1. ASSUME NEW bytes \in PayloadSizes, AllocTask(bytes) PROVE NoLostWakeup'
    BY <2>1 DEF AllocTask
  <2>2. CASE WriteSentinel
    BY <2>2 DEF WriteSentinel, SentinelWritten
  <2>3. CASE PublishWrap
    BY <2>3 DEF PublishWrap, QueueInv, AllocationSafe
  <2>4. CASE WrapWakeTest
    BY <2>4 DEF WrapWakeTest, RestartAtZero
  <2>5. CASE WrapFutexWake \/ CommitFutexWake
    BY <2>5 DEF WrapFutexWake, CommitFutexWake, Wake
  <2>6. CASE AllocReturn \/ FillTask
    BY <2>6 DEF AllocReturn, FillTask
  <2>7. CASE PublishTask
    BY <2>7 DEF PublishTask
  <2>8. CASE CountBytes
    BY <2>8 DEF CountBytes
  <2>9. CASE CommitWakeTest
    BY <2>9 DEF CommitWakeTest
  <2>10. CASE ConsumerStep
    BY <2>10 DEF ConsumerStep, OuterLoop, FutexWait, InnerLoop, GetTask, ReadCmd, GetTaskWrap,
                 RunSPITask, DoneTaskUncount, DoneTaskAdvance
  <2>11. CASE AllRun \/ UNCHANGED vars
    BY <2>11 DEF AllRun, vars
  <2> QED BY <2>1, <2>2, <2>3, <2>4, <2>5, <2>6, <2>7, <2>8, <2>9, <2>10, <2>11
          DEF Next, ProducerStep
<1> QED BY <1>1, <1>2, QueueInvariant, PTL DEF Spec

\* The ring buffer implements the FIFO: each step of the two threads submits a task
\* (PublishTask), transmits the oldest one (RunSPITask) or changes neither.
THEOREM QueueImplementsFifo == Spec => Fifo!FifoSpec
<1> DEFINE submitted == [i \in 1..committed |-> i]
<1>1. Init => Fifo!FifoInit
  BY DEF Init, Fifo!FifoInit
<1>2. QueueInv /\ [Next]_vars => [Fifo!FifoNext]_<<submitted, bus>>
  <2> SUFFICES ASSUME QueueInv, [Next]_vars PROVE [Fifo!FifoNext]_<<submitted, bus>>
    OBVIOUS
  <2> USE DEF shared, producer, consumer, history
  <2>1. CASE PublishTask
    <3>1. committed \in Nat /\ committed' = committed + 1 /\ bus' = bus /\ committed' \in TaskIds
      BY <2>1, QueueAssumption DEF PublishTask, QueueInv, TypeOK, AllocationSafe, TaskIds
    <3>2. submitted' = Append(submitted, committed')
      BY <3>1
    <3> QED BY <3>1, <3>2 DEF Fifo!FifoNext, Fifo!Submit
  <2>2. CASE RunSPITask
    <3>1. TransmittedInOrder /\ TransmittedInOrder' /\ TypeOK /\ TypeOK'
      BY <2>2, RunSPITaskPreserves DEF QueueInv
    <3>2. committed' = committed /\ \E x : bus' = Append(bus, x)
      BY <2>2 DEF RunSPITask
    <3>3. Len(bus') = Len(bus) + 1 /\ bus'[Len(bus) + 1] = Len(bus) + 1 /\ Len(bus) < committed
      <4>1. Len(bus') = Len(bus) + 1 /\ Len(bus) \in Nat /\ committed \in Nat
        BY <3>1, <3>2 DEF TypeOK
      <4> QED BY <4>1, <3>1, <3>2 DEF TransmittedInOrder
    <3>4. bus' = Append(bus, Len(bus) + 1)
      BY <3>1, <3>2, <3>3 DEF TypeOK
    <3>5. Len(submitted) = committed /\ submitted[Len(bus) + 1] = Len(bus) + 1
      <4>1. committed \in Nat /\ Len(bus) \in Nat
        BY <3>1 DEF TypeOK
      <4>2. submitted \in Seq(Nat) /\ DOMAIN submitted = 1..committed
        BY <4>1
      <4>3. Len(submitted) = committed
        BY <4>1, <4>2
      <4> QED BY <4>1, <4>3, <3>3
    <3> QED BY <3>2, <3>3, <3>4, <3>5 DEF Fifo!FifoNext, Fifo!Transmit
  <2>3. CASE UNCHANGED <<committed, bus>>
    BY <2>3
  <2>4. [Next]_vars => PublishTask \/ RunSPITask \/ UNCHANGED <<committed, bus>>
    BY DEF Next, ProducerStep, ConsumerStep, vars, AllocTask, WriteSentinel, SentinelWritten, PublishWrap,
           WrapWakeTest, WrapFutexWake, AllocReturn, FillTask, CountBytes, CommitWakeTest,
           CommitFutexWake, OuterLoop, FutexWait, InnerLoop, GetTask, ReadCmd, GetTaskWrap,
           DoneTaskUncount, DoneTaskAdvance, AllRun
  <2> QED BY <2>1, <2>2, <2>3, <2>4
<1> QED BY <1>1, <1>2, QueueInvariant, PTL DEF Spec, Fifo!FifoSpec, Fifo!vars

-----------------------------------------------------------------------------
(* The bytes in the queue *)

LEMMA SetInduction ==
  ASSUME NEW S, 0 \in S, \A n \in Nat : n \in S => n + 1 \in S
  PROVE  Nat \subseteq S
<1> DEFINE Rest == Nat \ S
<1> SUFFICES ASSUME Rest # {} PROVE FALSE
  OBVIOUS
<1>1. PICK c \in Rest : \A d \in Rest : <<d, c>> \notin OpToRel(<, Nat)
  <2>1. Rest \subseteq Nat
    OBVIOUS
  <2> HIDE DEF Rest
  <2> QED BY <2>1, WFMin, NatLessThanWellFounded, Zenon
<1>2. c \in Nat /\ c # 0
  OBVIOUS
<1>3. ASSUME NEW d \in Rest PROVE ~(d < c)
  BY <1>1, <1>2 DEF OpToRel
<1>4. c - 1 \in S
  BY <1>2, <1>3
<1> QED BY <1>2, <1>4

\* The functions that give the bytes of the first k tasks, for k up to n.
Sums(sizes, n) ==
  {f \in [0..n -> Nat] : f = [k \in 0..n |-> IF k = 0 THEN 0 ELSE (sizes[k] + 1) + f[k - 1]]}

LEMMA SumsExist ==
  ASSUME NEW sizes \in [TaskIds -> Nat]
  PROVE  Sums(sizes, MaxTasks) # {}
<1> DEFINE S == {n \in Nat : n <= MaxTasks => Sums(sizes, n) # {}}
<1> USE DEF TaskIds
<1>1. 0 \in S
  <2> DEFINE f == [k \in 0..0 |-> 0]
  <2>1. f \in Sums(sizes, 0)
    BY DEF Sums
  <2> QED BY <2>1
<1>2. ASSUME NEW n \in Nat, n \in S PROVE n + 1 \in S
  <2> SUFFICES ASSUME n + 1 <= MaxTasks PROVE Sums(sizes, n + 1) # {}
    OBVIOUS
  <2>1. Sums(sizes, n) # {}
    BY <1>2, QueueAssumption
  <2>2. PICK f \in [0..n -> Nat] :
               f = [k \in 0..n |-> IF k = 0 THEN 0 ELSE (sizes[k] + 1) + f[k - 1]]
    BY <2>1 DEF Sums
  <2> DEFINE g == [k \in 0..n + 1 |-> IF k = n + 1 THEN (sizes[n + 1] + 1) + f[n] ELSE f[k]]
  <2>3. sizes[n + 1] \in Nat /\ f[n] \in Nat
    BY <2>2, QueueAssumption
  <2>4. g \in [0..n + 1 -> Nat]
    BY <2>2, <2>3
  <2>5. ASSUME NEW k \in 0..n + 1
        PROVE  g[k] = IF k = 0 THEN 0 ELSE (sizes[k] + 1) + g[k - 1]
    <3>1. CASE k = n + 1
      BY <3>1
    <3>2. CASE k # n + 1
      BY <2>2, <3>2
    <3> QED BY <3>1, <3>2
  <2> HIDE DEF g
  <2>6. g = [k \in 0..n + 1 |-> IF k = 0 THEN 0 ELSE (sizes[k] + 1) + g[k - 1]]
    BY <2>4, <2>5
  <2> QED BY <2>4, <2>6 DEF Sums
<1> HIDE DEF S
<1>3. Nat \subseteq S
  BY <1>1, <1>2, SetInduction
<1> QED BY <1>3, QueueAssumption DEF S

LEMMA BytesOfSums ==
  ASSUME NEW sizes \in [TaskIds -> Nat]
  PROVE  /\ BytesOf(sizes, 0) = 0
         /\ \A n \in TaskIds : BytesOf(sizes, n) = (sizes[n] + 1) + BytesOf(sizes, n - 1)
<1> DEFINE sum == CHOOSE f :
                    f = [k \in 0..MaxTasks |-> IF k = 0 THEN 0 ELSE (sizes[k] + 1) + f[k - 1]]
<1>1. sum = [k \in 0..MaxTasks |-> IF k = 0 THEN 0 ELSE (sizes[k] + 1) + sum[k - 1]]
  BY SumsExist DEF Sums
<1>2. \A n \in 0..MaxTasks : BytesOf(sizes, n) = sum[n]
  BY DEF BytesOf
<1> HIDE DEF sum
<1>3. ASSUME NEW n \in TaskIds PROVE sum[n] = (sizes[n] + 1) + sum[n - 1]
  <2>1. n \in 0..MaxTasks /\ n # 0
    BY QueueAssumption DEF TaskIds
  <2> QED BY <1>1, <2>1, Zenon
<1>4. ASSUME NEW n \in TaskIds PROVE n \in 0..MaxTasks /\ n - 1 \in 0..MaxTasks
  BY QueueAssumption DEF TaskIds
<1>5. 0 \in 0..MaxTasks /\ sum[0] = 0
  BY <1>1, QueueAssumption
<1> QED BY <1>2, <1>3, <1>4, <1>5

\* The sum is a number and grows with each task.
LEMMA BytesOfGrows ==
  ASSUME NEW sizes \in [TaskIds -> Nat], NEW m \in 0..MaxTasks, NEW n \in m..MaxTasks
  PROVE  BytesOf(sizes, m) \in Nat /\ BytesOf(sizes, n) \in Nat
         /\ BytesOf(sizes, m) <= BytesOf(sizes, n)
<1> DEFINE S == {k \in Nat : k <= MaxTasks =>
                   \A j \in 0..k : /\ BytesOf(sizes, j) \in Nat
                                  /\ BytesOf(sizes, j) <= BytesOf(sizes, k)}
<1>1. 0 \in S
  BY BytesOfSums
<1>2. ASSUME NEW k \in Nat, k \in S PROVE k + 1 \in S
  <2> SUFFICES ASSUME k + 1 <= MaxTasks, NEW j \in 0..k + 1
               PROVE  /\ BytesOf(sizes, j) \in Nat
                      /\ BytesOf(sizes, j) <= BytesOf(sizes, k + 1)
    OBVIOUS
  <2>1. PICK w \in Nat : w = sizes[k + 1] + 1
    BY QueueAssumption DEF TaskIds
  <2>2. BytesOf(sizes, k + 1) = w + BytesOf(sizes, k)
    <3>1. k + 1 \in TaskIds /\ (k + 1) - 1 = k
      BY QueueAssumption DEF TaskIds
    <3>2. BytesOf(sizes, k + 1) = (sizes[k + 1] + 1) + BytesOf(sizes, (k + 1) - 1)
      <4>1. PICK t \in TaskIds : t = k + 1
        BY <3>1
      <4>2. BytesOf(sizes, t) = (sizes[t] + 1) + BytesOf(sizes, t - 1)
        BY BytesOfSums
      <4> QED BY <4>1, <4>2
    <3> QED BY <2>1, <3>1, <3>2
  <2>3. \A i \in 0..k : BytesOf(sizes, i) \in Nat /\ BytesOf(sizes, i) <= BytesOf(sizes, k)
    BY <1>2, QueueAssumption
  <2>4. PICK b \in Nat : b = BytesOf(sizes, k)
    BY <2>3
  <2>5. CASE j = k + 1
    BY <2>2, <2>4, <2>5
  <2>6. CASE j \in 0..k
    BY <2>2, <2>3, <2>4, <2>6
  <2> QED BY <2>5, <2>6
<1> HIDE DEF S
<1>3. Nat \subseteq S
  BY <1>1, <1>2, SetInduction
<1> QED BY <1>3, QueueAssumption DEF S

LEMMA BytesOfSame ==
  ASSUME NEW a \in [TaskIds -> Nat], NEW b \in [TaskIds -> Nat], NEW m \in 0..MaxTasks,
         \A i \in 1..m : a[i] = b[i]
  PROVE  BytesOf(a, m) = BytesOf(b, m)
<1> DEFINE S == {k \in Nat : k <= m => BytesOf(a, k) = BytesOf(b, k)}
<1>1. 0 \in S
  BY BytesOfSums
<1>2. ASSUME NEW k \in Nat, k \in S PROVE k + 1 \in S
  <2> SUFFICES ASSUME k + 1 <= m PROVE BytesOf(a, k + 1) = BytesOf(b, k + 1)
    OBVIOUS
  <2>1. PICK n \in TaskIds : n = k + 1
    BY QueueAssumption DEF TaskIds
  <2>2. a[n] = b[n] /\ n - 1 = k
    BY <2>1
  <2>3. BytesOf(a, k) = BytesOf(b, k)
    BY <1>2, QueueAssumption
  <2> HIDE DEF S
  <2>4. BytesOf(a, n) = BytesOf(b, n)
    BY <2>2, <2>3, BytesOfSums
  <2> QED BY <2>1, <2>4
<1> HIDE DEF S
<1>3. Nat \subseteq S
  BY <1>1, <1>2, SetInduction
<1> QED BY <1>3, QueueAssumption DEF S

\* The cells from the head to the end of a live task, across the end of the buffer.
Extent(i) ==
  IF queueHead <= startOf[i] THEN EndOf(i) - queueHead ELSE EndOf(i) + (QueueSize - queueHead)

\* A task has more cells than bytes that are counted, so what is counted up to a live task
\* fits into the cells up to its end.
LEMMA LiveTasksFit ==
  ASSUME QueueInv
  PROVE  \A i \in Live : BytesOf(sizeOf, i) <= BytesOf(sizeOf, Released) + Extent(i)
<1> DEFINE S == {n \in Nat :
                   n \in Live => BytesOf(sizeOf, n) <= BytesOf(sizeOf, Released) + Extent(n)}
<1>1. LiveTyped /\ TypeOK /\ Layout
  BY LiveFacts DEF QueueInv
<1>2. 0 \in S
  BY <1>1 DEF LiveTyped
<1>3. ASSUME NEW k \in Nat, k \in S PROVE k + 1 \in S
  <2> SUFFICES ASSUME k + 1 \in Live
               PROVE  BytesOf(sizeOf, k + 1) <= BytesOf(sizeOf, Released) + Extent(k + 1)
    OBVIOUS
  <2>1. PICK n \in Nat : n = k + 1 /\ n - 1 = k
    OBVIOUS
  <2>2. /\ n \in TaskIds /\ n \in Live /\ sizeOf[n] \in Nat /\ startOf[n] \in Nat
        /\ EndOf(n) = startOf[n] + Header + sizeOf[n]
        /\ Header \in Nat /\ Header >= 1 /\ QueueSize \in Nat /\ MaxTasks \in Nat
        /\ queueHead \in Nat /\ queueHead + Header < QueueSize /\ queueTail \in Nat
        /\ Released < n
    BY <1>1, <2>1, QueueAssumption DEF LiveTyped, EndOf, TypeOK
  <2>3. BytesOf(sizeOf, n) = (sizeOf[n] + 1) + BytesOf(sizeOf, k)
    BY <2>1, <2>2, <1>1, BytesOfSums DEF TypeOK
  <2>4. BytesOf(sizeOf, k) \in Nat /\ BytesOf(sizeOf, Released) \in Nat
    <3>1. k \in 0..MaxTasks /\ Released \in 0..MaxTasks
      BY <1>1, <2>1, <2>2 DEF LiveTyped, TaskIds
    <3> QED BY <1>1, <3>1, BytesOfGrows, QueueAssumption, SMTT(30) DEF TypeOK
  <2>5. CASE k = Released
    <3>1. startOf[n] = queueHead \/ (startOf[n] = 0 /\ queueHead > 0)
      BY <1>1, <2>1, <2>2, <2>5 DEF Layout, LiveTasksChained, LiveTyped, Wrapped, Live, TypeOK
    <3> QED BY <2>1, <2>2, <2>3, <2>4, <2>5, <3>1 DEF Extent
  <2>6. CASE k # Released
    <3>1. k \in Live /\ startOf[k] \in Nat /\ EndOf(k) \in Nat /\ startOf[k] < EndOf(k)
      BY <1>1, <2>1, <2>2, <2>6 DEF LiveTyped, Live
    <3>2. BytesOf(sizeOf, k) <= BytesOf(sizeOf, Released) + Extent(k)
      BY <1>3, <3>1
    <3>3. \/ startOf[n] = EndOf(k)
          \/ Wrapped /\ startOf[n] = 0 /\ EndOf(k) = eob
      BY <1>1, <2>1, <2>2, <3>1 DEF Layout, LiveTasksChained
    <3>4. \/ queueHead <= startOf[k] /\ EndOf(k) <= (IF Wrapped THEN eob ELSE queueTail)
          \/ Wrapped /\ EndOf(k) <= queueTail
      BY <1>1, <3>1 DEF Layout, LiveTasksInBounds
    <3>5. Wrapped => queueTail < queueHead /\ queueHead <= eob /\ eob + Header < QueueSize
                     /\ eob \in Nat
      BY <1>1 DEF Layout, SentinelIntact, Wrapped, TypeOK, Offsets
    <3>6. CASE startOf[n] = EndOf(k)
      BY <2>1, <2>2, <2>3, <2>4, <3>1, <3>2, <3>4, <3>5, <3>6 DEF Extent
    <3>7. CASE Wrapped /\ startOf[n] = 0 /\ EndOf(k) = eob
      BY <2>1, <2>2, <2>3, <2>4, <3>1, <3>2, <3>4, <3>5, <3>7 DEF Extent
    <3> QED BY <3>3, <3>6, <3>7
  <2> QED BY <2>5, <2>6
<1> HIDE DEF S
<1>4. Nat \subseteq S
  BY <1>2, <1>3, SetInduction
<1>5. ASSUME NEW i \in Live PROVE i \in S
  BY <1>1, <1>4 DEF LiveTyped
<1> QED BY <1>5 DEF S

\* What CommitTask has published, DoneTask has not subtracted, and the counter need not hold
\* yet: always less than the buffer.
Unsubtracted == BytesOf(sizeOf, committed) - BytesOf(sizeOf, Uncounted)
Uncommitted == IF pPc = "count" THEN pBytes + 1 ELSE 0

LEMMA BytesFit ==
  ASSUME QueueInv
  PROVE  /\ Uncounted \in 0..committed /\ committed \in 0..MaxTasks
         /\ Unsubtracted \in 0..QueueSize - 1
<1>1. LiveTyped /\ TypeOK /\ Layout /\ FetchSafe
  BY LiveFacts DEF QueueInv
<1>2. Uncounted \in Released..committed /\ committed \in 0..MaxTasks /\ Released \in Nat
      /\ committed \in Nat /\ MaxTasks \in Nat
  BY <1>1, QueueAssumption DEF LiveTyped, TypeOK, FetchSafe, Uncounted
<1>3. PICK r \in Nat, u \in Nat, c \in Nat :
        /\ r = BytesOf(sizeOf, Released) /\ u = BytesOf(sizeOf, Uncounted)
        /\ c = BytesOf(sizeOf, committed) /\ r <= u /\ u <= c
  <2>1. Released \in 0..MaxTasks /\ Uncounted \in Released..MaxTasks
        /\ Uncounted \in 0..MaxTasks /\ committed \in Uncounted..MaxTasks
    BY <1>2
  <2> QED BY <1>1, <2>1, BytesOfGrows, SMTT(30) DEF TypeOK
<1>4. c - r < QueueSize
  <2>1. CASE Released = committed
    BY <1>3, <2>1, QueueAssumption
  <2>2. CASE Released # committed
    <3>1. committed \in Live
      BY <1>2, <2>2 DEF Live
    <3>2. c <= r + Extent(committed)
      BY <1>3, <3>1, LiveTasksFit
    <3>3. \/ queueHead <= startOf[committed]
               /\ EndOf(committed) <= (IF Wrapped THEN eob ELSE queueTail)
          \/ Wrapped /\ EndOf(committed) <= queueTail
      BY <1>1, <3>1 DEF Layout, LiveTasksInBounds
    <3>4. Wrapped => queueTail < queueHead /\ eob + Header < QueueSize /\ eob \in Nat
      BY <1>1 DEF Layout, SentinelIntact, Wrapped, TypeOK, Offsets
    <3>5. /\ EndOf(committed) \in Nat /\ startOf[committed] < EndOf(committed)
          /\ startOf[committed] \in Nat
      BY <1>1, <3>1 DEF LiveTyped
    <3>6. /\ queueHead \in Nat /\ queueTail \in Nat /\ queueHead + Header < QueueSize
          /\ queueTail + Header < QueueSize /\ Header \in Nat /\ QueueSize \in Nat
      BY <1>1, QueueAssumption DEF TypeOK
    <3> QED BY <1>3, <3>2, <3>3, <3>4, <3>5, <3>6 DEF Extent
  <2> QED BY <2>1, <2>2
<1> QED BY <1>2, <1>3, <1>4, QueueAssumption DEF Unsubtracted

LEMMA Remainder ==
  ASSUME NEW M \in Nat \ {0}, NEW x \in 0..M - 1
  PROVE  x % M = x /\ (x + M) % M = x /\ (x + (M + M)) % M = x
<1>1. ASSUME NEW q \in 0..2, NEW y \in Int, y = (q * M) + x PROVE y % M = x
  BY <1>1, SMTT(30)
<1> QED BY <1>1, SMTT(30)

\* What the counter holds: between PublishTask and CountBytes a task may be subtracted that
\* is not added yet, and the counter is then below zero, that is, CounterModulus too large.
Queued ==
  IF Uncommitted <= Unsubtracted
    THEN Unsubtracted - Uncommitted
    ELSE (Unsubtracted - Uncommitted) + CounterModulus

Counted ==
  /\ spiBytesQueued = Queued
  /\ pPc = "count" => committed > 0 /\ sizeOf[committed] = pBytes /\ pBytes \in PayloadSizes

LEMMA CountingFacts ==
  ASSUME QueueInv, Counted
  PROVE  /\ Unsubtracted \in Nat /\ Unsubtracted < CounterModulus
         /\ Uncommitted \in Nat /\ Uncommitted < CounterModulus
         /\ CounterModulus \in Nat \ {0}
         /\ pBytes \in Nat
<1>1. Unsubtracted \in 0..QueueSize - 1 /\ QueueSize <= CounterModulus
      /\ QueueSize \in Nat /\ CounterModulus \in Nat
  BY BytesFit, QueueAssumption
<1>2. pBytes \in Nat
  BY DEF QueueInv, TypeOK
<1>3. Uncommitted \in Nat /\ Uncommitted < CounterModulus
  <2>1. CASE pPc = "count"
    <3>1. Header + pBytes + Header < QueueSize /\ Header \in Nat \ {0}
      BY <2>1, QueueAssumption DEF Counted
    <3> QED BY <2>1, <3>1, <1>1, <1>2 DEF Uncommitted
  <2>2. CASE pPc # "count"
    BY <2>2, <1>1 DEF Uncommitted
  <2> QED BY <2>1, <2>2
<1> QED BY <1>1, <1>2, <1>3

\* A step that neither publishes, fills, counts nor subtracts.
LEMMA CountedUnchanged ==
  ASSUME Counted, Uncounted' = Uncounted, pPc # "count", pPc' # "count",
         UNCHANGED <<spiBytesQueued, sizeOf, committed>>
  PROVE  Counted'
BY DEF Counted, Queued, Unsubtracted, Uncommitted

LEMMA CountedUnchangedProducer ==
  ASSUME Counted, Uncounted' = Uncounted, UNCHANGED <<spiBytesQueued, sizeOf, committed, producer>>
  PROVE  Counted'
BY DEF Counted, Queued, Unsubtracted, Uncommitted, producer

LEMMA FillTaskCounted ==
  ASSUME QueueInv, Counted, FillTask
  PROVE  Counted'
<1>1. /\ sizeOf \in [TaskIds -> Nat] /\ sizeOf' \in [TaskIds -> Nat]
      /\ sizeOf' = [sizeOf EXCEPT ![committed + 1] = pBytes]
      /\ committed \in 0..MaxTasks /\ Uncounted \in 0..committed
  BY FillTaskPreserves, BytesFit DEF QueueInv, TypeOK, FillTask
<1>2. Uncounted' = Uncounted /\ committed' = committed /\ pPc = "fill" /\ pPc' = "publish"
      /\ spiBytesQueued' = spiBytesQueued
  BY DEF FillTask, consumer, history, Uncounted, Released
<1>3. \A i \in 1..committed : sizeOf'[i] = sizeOf[i]
  BY <1>1 DEF TaskIds
<1>4. BytesOf(sizeOf, committed) = BytesOf(sizeOf', committed)
  BY <1>1, <1>3, BytesOfSame
<1>5. BytesOf(sizeOf, Uncounted) = BytesOf(sizeOf', Uncounted)
  <2>1. Uncounted \in 0..MaxTasks /\ \A i \in 1..Uncounted : sizeOf[i] = sizeOf'[i]
    BY <1>1, <1>3, QueueAssumption
  <2> QED BY <1>1, <2>1, BytesOfSame
<1> QED BY <1>2, <1>4, <1>5 DEF Counted, Queued, Unsubtracted, Uncommitted

LEMMA PublishTaskCounted ==
  ASSUME QueueInv, Counted, PublishTask
  PROVE  Counted'
<1>1. /\ sizeOf \in [TaskIds -> Nat] /\ pPc = "publish" /\ pPc' = "count"
      /\ committed' = committed + 1 /\ committed \in Nat /\ committed' \in TaskIds
      /\ sizeOf[committed'] = pBytes /\ pBytes \in PayloadSizes /\ pBytes \in Nat
      /\ UNCHANGED <<spiBytesQueued, sizeOf, pBytes, bus, cPc>>
  BY QueueAssumption DEF QueueInv, TypeOK, AllocationSafe, PublishTask, TaskIds, consumer
<1>2. Uncounted' = Uncounted
  BY <1>1 DEF Uncounted, Released
<1>3. BytesOf(sizeOf, committed') = (pBytes + 1) + BytesOf(sizeOf, committed)
  BY <1>1, BytesOfSums
<1>4. PICK c \in Nat, u \in Nat : c = BytesOf(sizeOf, committed) /\ u = BytesOf(sizeOf, Uncounted)
  <2>1. /\ committed \in 0..MaxTasks /\ Uncounted \in 0..MaxTasks
        /\ committed \in Uncounted..MaxTasks
    BY BytesFit, QueueAssumption
  <2> QED BY <1>1, <2>1, BytesOfGrows
<1>5. PICK p \in Nat : p = pBytes + 1
  BY <1>1
<1>6. Unsubtracted = c - u /\ Unsubtracted' = (p + c) - u /\ Uncommitted = 0 /\ Uncommitted' = p
      /\ Unsubtracted >= 0
  <2>1. BytesOf(sizeOf, committed)' = (pBytes + 1) + BytesOf(sizeOf, committed)
    BY <1>1, <1>3
  <2>2. BytesOf(sizeOf, Uncounted)' = BytesOf(sizeOf, Uncounted)
    BY <1>1, <1>2
  <2>3. Unsubtracted >= 0
    BY BytesFit
  <2> QED BY <1>1, <1>4, <1>5, <2>1, <2>2, <2>3 DEF Unsubtracted, Uncommitted
<1>7. Queued' = Queued
  BY <1>6 DEF Queued
<1> QED BY <1>1, <1>7 DEF Counted, TaskIds

LEMMA CountBytesCounted ==
  ASSUME QueueInv, Counted, CountBytes
  PROVE  Counted'
<1>1. /\ pPc = "count" /\ pPc' = "wake"
      /\ spiBytesQueued' = (spiBytesQueued + pBytes + 1) % CounterModulus
      /\ UNCHANGED <<sizeOf, committed>> /\ Uncounted' = Uncounted
  BY DEF CountBytes, consumer, history, Uncounted, Released
<1>2. PICK M \in Nat \ {0}, u \in Nat, p \in Nat, b \in Nat :
        /\ M = CounterModulus /\ u = Unsubtracted /\ p = Uncommitted /\ b = pBytes
        /\ u < M /\ p < M
  BY CountingFacts
<1>3. p = b + 1 /\ Uncommitted' = 0 /\ Unsubtracted' = u
  BY <1>1, <1>2 DEF Uncommitted, Unsubtracted
<1>4. spiBytesQueued = IF p <= u THEN u - p ELSE (u - p) + M
  BY <1>2 DEF Counted, Queued
<1>5. PICK s \in Nat : s = spiBytesQueued + pBytes + 1 /\ (s = u \/ s = u + M)
  BY <1>2, <1>3, <1>4
<1>6. s % M = u
  BY <1>2, <1>5, Remainder
<1> QED BY <1>1, <1>2, <1>3, <1>5, <1>6 DEF Counted, Queued

LEMMA DoneTaskUncountCounted ==
  ASSUME QueueInv, Counted, DoneTaskUncount
  PROVE  Counted'
<1>1. TypeOK /\ Layout /\ FetchSafe /\ LiveTyped /\ Len(bus) \in Nat
  BY LiveFacts DEF QueueInv, TypeOK
<1>2. /\ cPc = "uncount" /\ cPc' = "advance" /\ UNCHANGED <<sizeOf, committed, bus, producer>>
      /\ spiBytesQueued' =
           (spiBytesQueued + CounterModulus - ((SizeAt(cTask) + 1) % CounterModulus))
           % CounterModulus
  BY DEF DoneTaskUncount, history
<1>3. PICK n \in Nat : n = Released + 1
  BY <1>1 DEF LiveTyped
<1>4. Uncounted = n - 1 /\ Uncounted' = n /\ n \in Live /\ n \in TaskIds /\ cTask = startOf[n]
  BY <1>1, <1>2, <1>3 DEF Uncounted, Released, FetchSafe, LiveTyped, Live
<1>5. SizeAt(cTask) = sizeOf[n] /\ sizeOf[n] \in Nat
  <2>1. startOf[n] \in Nat /\ sizeOf[n] \in Nat /\ Header \in Nat \ {0}
    BY <1>1, <1>4, QueueAssumption DEF LiveTyped
  <2>2. startOf[n] \in Cells(startOf[n], sizeOf[n])
    BY <2>1 DEF Cells
  <2>3. buffer[cTask] = n
    BY <1>1, <1>4, <2>2 DEF Layout, LiveTasksIntact
  <2> QED BY <1>4, <2>1, <2>3 DEF SizeAt
<1>6. PICK M \in Nat \ {0}, u \in Nat, p \in Nat, w \in Nat :
        /\ M = CounterModulus /\ u = Unsubtracted /\ p = Uncommitted /\ w = sizeOf[n] + 1
        /\ u < M /\ p < M
  BY <1>5, CountingFacts
<1>7. BytesOf(sizeOf, n) = w + BytesOf(sizeOf, n - 1)
  BY <1>1, <1>4, <1>6, BytesOfSums DEF TypeOK
<1>8. PICK c \in Nat, a \in Nat :
        c = BytesOf(sizeOf, committed) /\ a = BytesOf(sizeOf, n - 1) /\ w + a <= c
  <2>1. /\ n - 1 \in 0..MaxTasks /\ n \in 0..MaxTasks /\ committed \in n..MaxTasks
    BY <1>1, <1>3, <1>4, QueueAssumption DEF LiveTyped, TypeOK, TaskIds
  <2>2. BytesOf(sizeOf, n - 1) \in Nat /\ BytesOf(sizeOf, committed) \in Nat
        /\ BytesOf(sizeOf, n) <= BytesOf(sizeOf, committed)
    <3>1. n \in n - 1..MaxTasks
      BY <2>1
    <3> QED BY <1>1, <2>1, <3>1, BytesOfGrows DEF TypeOK
  <2> QED BY <1>7, <2>2
<1>9. u = c - a /\ Unsubtracted' = u - w /\ w <= u /\ Uncommitted' = p
  <2>1. BytesOf(sizeOf, committed)' = c
    BY <1>2, <1>8
  <2>2. BytesOf(sizeOf, Uncounted)' = w + a /\ BytesOf(sizeOf, Uncounted) = a
    BY <1>2, <1>4, <1>7, <1>8
  <2>3. Uncommitted' = Uncommitted
    BY <1>2 DEF Uncommitted, producer
  <2> QED BY <1>6, <1>8, <2>1, <2>2, <2>3 DEF Unsubtracted
<1>10. spiBytesQueued = IF p <= u THEN u - p ELSE (u - p) + M
  BY <1>6 DEF Counted, Queued
<1>11. (SizeAt(cTask) + 1) % CounterModulus = w
  <2>1. w \in 0..M - 1
    BY <1>6, <1>9
  <2> QED BY <1>5, <1>6, <2>1, Remainder
<1>12. PICK v \in 0..M - 1 : v = IF p <= u - w THEN (u - w) - p ELSE ((u - w) - p) + M
  BY <1>6, <1>9
<1>13. PICK s \in Nat : /\ s = spiBytesQueued + CounterModulus - w
                        /\ s = v \/ s = v + M \/ s = v + (M + M)
  BY <1>6, <1>9, <1>10, <1>12
<1>14. s % M = v
  BY <1>13, Remainder
<1>15. spiBytesQueued' = v
  BY <1>2, <1>6, <1>11, <1>13, <1>14
<1>16. Queued' = v
  BY <1>6, <1>9, <1>12 DEF Queued
<1>17. (pPc = "count" => committed > 0 /\ sizeOf[committed] = pBytes /\ pBytes \in PayloadSizes)'
  BY <1>2 DEF Counted, producer
<1> QED BY <1>15, <1>16, <1>17 DEF Counted

\* Whenever the main thread is outside CommitTask, spiBytesQueued is what was committed and
\* not yet subtracted, although both threads change it without a lock.
THEOREM BytesAreExact == Spec => []BytesQueuedExact
<1>1. Init => Counted
  <2> SUFFICES ASSUME Init PROVE Counted
    OBVIOUS
  <2>1. sizeOf \in [TaskIds -> Nat] /\ committed = 0 /\ Uncounted = 0 /\ pPc = "ready"
        /\ spiBytesQueued = 0
    BY DEF Init, Uncounted, Released
  <2>2. BytesOf(sizeOf, 0) = 0
    BY <2>1, BytesOfSums
  <2> QED BY <2>1, <2>2 DEF Counted, Queued, Unsubtracted, Uncommitted
<1>2. QueueInv /\ Counted /\ [Next]_vars => Counted'
  <2> SUFFICES ASSUME QueueInv, Counted, [Next]_vars PROVE Counted'
    OBVIOUS
  <2> USE DEF shared, producer, consumer, history
  <2>1. ASSUME NEW bytes \in PayloadSizes, AllocTask(bytes) PROVE Counted'
    BY <2>1, CountedUnchanged DEF AllocTask, Uncounted, Released
  <2>2. CASE WriteSentinel
    BY <2>2, CountedUnchanged DEF WriteSentinel, SentinelWritten, Uncounted, Released
  <2>3. CASE PublishWrap
    BY <2>3, CountedUnchanged DEF PublishWrap, Uncounted, Released
  <2>4. CASE WrapWakeTest
    BY <2>4, CountedUnchanged DEF WrapWakeTest, RestartAtZero, Uncounted, Released
  <2>5. CASE WrapFutexWake
    BY <2>5, CountedUnchanged DEF WrapFutexWake, RestartAtZero, Wake, Uncounted, Released
  <2>6. CASE AllocReturn
    BY <2>6, CountedUnchanged DEF AllocReturn, Uncounted, Released
  <2>7. CASE FillTask
    BY <2>7, FillTaskCounted
  <2>8. CASE PublishTask
    BY <2>8, PublishTaskCounted
  <2>9. CASE CountBytes
    BY <2>9, CountBytesCounted
  <2>10. CASE CommitWakeTest
    BY <2>10, CountedUnchanged DEF CommitWakeTest, Uncounted, Released
  <2>11. CASE CommitFutexWake
    BY <2>11, CountedUnchanged DEF CommitFutexWake, Wake, Uncounted, Released
  <2>12. CASE OuterLoop \/ FutexWait \/ InnerLoop \/ GetTask \/ ReadCmd \/ GetTaskWrap
    BY <2>12, CountedUnchangedProducer
       DEF OuterLoop, FutexWait, InnerLoop, GetTask, ReadCmd, GetTaskWrap, Uncounted, Released
  <2>13. CASE RunSPITask
    <3>1. Len(bus') = Len(bus) + 1 /\ Len(bus) \in Nat
      BY <2>13 DEF RunSPITask, QueueInv, TypeOK
    <3>2. Uncounted' = Uncounted
      BY <2>13, <3>1 DEF RunSPITask, Uncounted, Released
    <3> QED BY <2>13, <3>2, CountedUnchangedProducer DEF RunSPITask
  <2>14. CASE DoneTaskUncount
    BY <2>14, DoneTaskUncountCounted
  <2>15. CASE DoneTaskAdvance
    <3>1. Len(bus) \in Nat
      BY DEF QueueInv, TypeOK
    <3>2. Uncounted' = Uncounted
      BY <2>15, <3>1 DEF DoneTaskAdvance, Uncounted, Released
    <3> QED BY <2>15, <3>2, CountedUnchangedProducer DEF DoneTaskAdvance
  <2>16. CASE AllRun \/ UNCHANGED vars
    BY <2>16, CountedUnchangedProducer DEF AllRun, vars, Uncounted, Released
  <2> QED BY <2>1, <2>2, <2>3, <2>4, <2>5, <2>6, <2>7, <2>8, <2>9, <2>10, <2>11, <2>12, <2>13,
             <2>14, <2>15, <2>16 DEF Next, ProducerStep, ConsumerStep
<1>3. QueueInv /\ Counted => BytesQueuedExact
  <2> SUFFICES ASSUME QueueInv, Counted, pPc # "count"
               PROVE  spiBytesQueued = Unsubtracted
    BY DEF BytesQueuedExact, Unsubtracted
  <2>1. Uncommitted = 0 /\ Unsubtracted \in Nat
    BY CountingFacts DEF Uncommitted
  <2> QED BY <2>1 DEF Counted, Queued
<1> QED BY <1>1, <1>2, <1>3, QueueInvariant, PTL DEF Spec

=============================================================================
