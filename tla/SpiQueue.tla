------------------------------ MODULE SpiQueue ------------------------------
(***************************************************************************)
(* The SPI task queue of fbcp-ili9341: a ring buffer in memory shared by   *)
(* the main thread, which allocates, fills and commits tasks (AllocTask,   *)
(* CommitTask in spi.h), and the SPI thread, which gets, runs and frees    *)
(* them and sleeps on a futex when there are none (GetTask, DoneTask,      *)
(* ExecuteSPITasks and spi_thread in spi.cpp).                             *)
(*                                                                         *)
(* Each access to a location the other thread also uses is a step of its   *)
(* own.  A task is a header of Header cells followed by its payload; it is *)
(* never split at the end of the buffer: a header with cmd = 0 is left     *)
(* there instead and the task goes to offset 0.                            *)
(***************************************************************************)
EXTENDS Naturals, Sequences

CONSTANTS
  QueueSize,     \* SPI_QUEUE_SIZE, in cells
  Header,        \* sizeof(SPITask), in cells
  PayloadSizes,  \* the payload sizes tasks are allocated with
  MaxTasks,      \* bound: the number of tasks the main thread submits
  CounterModulus \* 2^32, the modulus of spiBytesQueued

\* No task may need more than the buffer, with room left for the end-of-buffer
\* header: AllocTask relies on it and does not check it.  The bytes in the buffer
\* can be counted: SPI_QUEUE_SIZE is below 2^32.
ASSUME QueueAssumption ==
  /\ QueueSize \in Nat
  /\ Header \in Nat \ {0} /\ Header < QueueSize
  /\ MaxTasks \in Nat
  /\ CounterModulus \in Nat /\ QueueSize <= CounterModulus
  /\ PayloadSizes \subseteq Nat
  /\ \A s \in PayloadSizes : Header + s + Header < QueueSize

VARIABLES
  \* SharedMemory
  queueHead, queueTail, spiBytesQueued,
  buffer,     \* what each cell holds: the number of the task it was written for, 0 for cmd = 0
  sizeOf,     \* the size field written into the header of each task
  \* the main thread: its place in AllocTask/CommitTask and its locals
  pPc, pTail, pNewTail, pBytes,
  \* the SPI thread: its place in spi_thread and its locals
  cPc, cTail, cTask,
  \* history: tasks committed and where they lie, the last end-of-buffer
  \* header, the tasks that went over the bus (0 for a corrupted one)
  committed, startOf, eob, bus

shared   == <<queueHead, queueTail, spiBytesQueued, buffer, sizeOf>>
producer == <<pPc, pTail, pNewTail, pBytes>>
consumer == <<cPc, cTail, cTask>>
history  == <<committed, startOf, eob, bus>>
vars     == <<shared, producer, consumer, history>>

TaskIds == 1..MaxTasks
Offsets == 0..QueueSize - 1
EndOfBuffer == 0 \* cmd = 0x00

\* InitSPIDisplay has sent some tasks itself, on the main thread, before spi_thread
\* starts: the queue is empty, at an offset that depends on the display.
Init ==
  /\ queueHead \in Offsets \ {0} /\ queueHead + Header < QueueSize
  /\ queueTail = queueHead /\ spiBytesQueued = 0
  /\ buffer = [o \in Offsets |-> EndOfBuffer]
  /\ sizeOf = [i \in TaskIds |-> 0]
  /\ pPc = "ready" /\ pTail = 0 /\ pNewTail = 0 /\ pBytes = 0
  /\ cPc = "outer" /\ cTail = 0 /\ cTask = 0
  /\ committed = 0 /\ startOf = [i \in TaskIds |-> 0] /\ eob = 0 /\ bus = <<>>

Cells(start, size) == start..start + Header + size - 1

\* The size field of the header at offset o, as the SPI thread reads it.
SizeAt(o) == IF buffer[o] \in TaskIds THEN sizeOf[buffer[o]] ELSE 0

\* FUTEX_WAKE on queueTail: only the SPI thread ever waits there.
Wake == cPc' = (IF cPc = "asleep" THEN "outer" ELSE cPc)

-----------------------------------------------------------------------------
(* The main thread: AllocTask *)

\* A bug: the fit test forgets that an end-of-buffer header must still fit behind the task.
AllocTaskNoRoomForHeader(bytes) ==
  /\ pPc = "ready" /\ committed < MaxTasks
  /\ pBytes' = bytes
  /\ pTail' = queueTail
  /\ pNewTail' = queueTail + Header + bytes
  /\ pPc' = IF pNewTail' >= QueueSize THEN "wrapWait" ELSE "fullWait"
  /\ UNCHANGED <<shared, consumer, history>>

\* Read the tail and decide whether the task fits before the end of the buffer.
AllocTask(bytes) ==
  /\ pPc = "ready" /\ committed < MaxTasks
  /\ pBytes' = bytes
  /\ pTail' = queueTail
  /\ pNewTail' = queueTail + Header + bytes
  /\ pPc' = IF pNewTail' + Header >= QueueSize THEN "wrapWait" ELSE "fullWait"
  /\ UNCHANGED <<shared, consumer, history>>

SentinelWritten ==
  /\ buffer' = [buffer EXCEPT ![pTail] = EndOfBuffer]
  /\ eob' = pTail
  /\ pPc' = "wrapPublish"
  /\ UNCHANGED <<queueHead, queueTail, spiBytesQueued, sizeOf, pTail, pNewTail, pBytes,
                 consumer, committed, startOf, bus>>

\* A bug: "Head must move > 0 so that we don't stomp on it" is dropped.
WriteSentinelHeadAtZero == pPc = "wrapWait" /\ ~(queueHead > pTail) /\ SentinelWritten

\* A bug: the loop also waits for a head that has already reached the tail.
WriteSentinelHeadBehind ==
  pPc = "wrapWait" /\ ~(queueHead >= pTail \/ queueHead = 0) /\ SentinelWritten

\* Leave the spin loop once the head is neither in front of the tail nor at 0.
WriteSentinel ==
  /\ pPc = "wrapWait"
  /\ ~(queueHead > pTail \/ queueHead = 0)
  /\ SentinelWritten

PublishWrap ==
  /\ pPc = "wrapPublish"
  /\ queueTail' = 0
  /\ pPc' = "wrapWake"
  /\ UNCHANGED <<queueHead, spiBytesQueued, buffer, sizeOf, pTail, pNewTail, pBytes,
                 consumer, history>>

\* tail = 0, newTail = bytesToAllocate
RestartAtZero ==
  /\ pTail' = 0 /\ pNewTail' = Header + pBytes
  /\ pPc' = "fullWait"

WrapWakeTest ==
  /\ pPc = "wrapWake"
  /\ IF queueHead = pTail
       THEN pPc' = "wrapFutex" /\ UNCHANGED <<pTail, pNewTail>>
       ELSE RestartAtZero
  /\ UNCHANGED <<shared, pBytes, consumer, history>>

WrapFutexWake ==
  /\ pPc = "wrapFutex"
  /\ Wake
  /\ RestartAtZero
  /\ UNCHANGED <<shared, pBytes, cTail, cTask, history>>

\* A bug: the tail may catch up with the head, which makes a full queue look empty.
AllocReturnTailMeetsHead ==
  /\ pPc = "fullWait"
  /\ ~(queueHead > pTail /\ queueHead < pNewTail)
  /\ pPc' = "fill"
  /\ UNCHANGED <<shared, pTail, pNewTail, pBytes, consumer, history>>

\* The queue is full as long as the head lies in the cells about to be taken.
AllocReturn ==
  /\ pPc = "fullWait"
  /\ ~(queueHead > pTail /\ queueHead <= pNewTail)
  /\ pPc' = "fill"
  /\ UNCHANGED <<shared, pTail, pNewTail, pBytes, consumer, history>>

\* AllocTask writes the size, its caller the command and the payload.
FillTask ==
  /\ pPc = "fill"
  /\ buffer' = [o \in Offsets |-> IF o \in Cells(pTail, pBytes) THEN committed + 1 ELSE buffer[o]]
  /\ sizeOf' = [sizeOf EXCEPT ![committed + 1] = pBytes]
  /\ pPc' = "publish"
  /\ UNCHANGED <<queueHead, queueTail, spiBytesQueued, pTail, pNewTail, pBytes, consumer, history>>

(* The main thread: CommitTask *)

\* Here pTail is both the offset of the task and, read again, the tail before it.
PublishTask ==
  /\ pPc = "publish"
  /\ pTail' = queueTail
  /\ queueTail' = pTail + Header + SizeAt(pTail)
  /\ committed' = committed + 1
  /\ startOf' = [startOf EXCEPT ![committed + 1] = pTail]
  /\ pPc' = "count"
  /\ UNCHANGED <<queueHead, spiBytesQueued, buffer, sizeOf, pNewTail, pBytes, consumer, eob, bus>>

\* A bug: the command byte, which DoneTask subtracts, is not added.
CountPayloadOnly ==
  /\ pPc = "count"
  /\ spiBytesQueued' = (spiBytesQueued + pBytes) % CounterModulus
  /\ pPc' = "wake"
  /\ UNCHANGED <<queueHead, queueTail, buffer, sizeOf, pTail, pNewTail, pBytes, consumer, history>>

CountBytes ==
  /\ pPc = "count"
  /\ spiBytesQueued' = (spiBytesQueued + pBytes + 1) % CounterModulus
  /\ pPc' = "wake"
  /\ UNCHANGED <<queueHead, queueTail, buffer, sizeOf, pTail, pNewTail, pBytes, consumer, history>>

\* A bug: the head is compared with the tail as it is after the commit.
CommitWakeTestNewTail ==
  /\ pPc = "wake"
  /\ pPc' = IF queueHead = queueTail THEN "futex" ELSE "ready"
  /\ UNCHANGED <<shared, pTail, pNewTail, pBytes, consumer, history>>

CommitWakeTest ==
  /\ pPc = "wake"
  /\ pPc' = IF queueHead = pTail THEN "futex" ELSE "ready"
  /\ UNCHANGED <<shared, pTail, pNewTail, pBytes, consumer, history>>

CommitFutexWake ==
  /\ pPc = "futex"
  /\ Wake
  /\ pPc' = "ready"
  /\ UNCHANGED <<shared, pTail, pNewTail, pBytes, cTail, cTask, history>>

ProducerStep ==
  \/ WriteSentinel \/ PublishWrap \/ WrapWakeTest \/ WrapFutexWake
  \/ AllocReturn \/ FillTask
  \/ PublishTask \/ CountBytes \/ CommitWakeTest \/ CommitFutexWake

-----------------------------------------------------------------------------
(* The SPI thread *)

\* while(programRunning) in spi_thread: work if there is any, else go to sleep.
OuterLoop ==
  /\ cPc = "outer"
  /\ cPc' = IF queueTail # queueHead THEN "inner" ELSE "wait"
  /\ UNCHANGED <<shared, producer, cTail, cTask, history>>

\* A bug: sleep without comparing the tail again (a condition variable without its lock).
SleepUnconditionally ==
  /\ cPc = "wait"
  /\ cPc' = "asleep"
  /\ UNCHANGED <<shared, producer, cTail, cTask, history>>

\* FUTEX_WAIT: the kernel puts the thread to sleep only if queueTail still has
\* the value of queueHead that was passed.
FutexWait ==
  /\ cPc = "wait"
  /\ cPc' = IF queueTail = queueHead THEN "asleep" ELSE "outer"
  /\ UNCHANGED <<shared, producer, cTail, cTask, history>>

\* The loop of ExecuteSPITasks.
InnerLoop ==
  /\ cPc = "inner"
  /\ cPc' = IF queueTail # queueHead THEN "get" ELSE "outer"
  /\ UNCHANGED <<shared, producer, cTail, cTask, history>>

GetTask ==
  /\ cPc = "get"
  /\ cTail' = queueTail
  /\ cPc' = IF queueHead = queueTail THEN "inner" ELSE "readCmd"
  /\ UNCHANGED <<shared, producer, cTask, history>>

ReadCmd ==
  /\ cPc = "readCmd"
  /\ IF buffer[queueHead] = EndOfBuffer
       THEN cPc' = "wrap" /\ UNCHANGED cTask
       ELSE cPc' = "run" /\ cTask' = queueHead
  /\ UNCHANGED <<shared, producer, cTail, history>>

\* A bug: behind the end of the buffer there is always a task.
GetTaskWrapNoTailTest ==
  /\ cPc = "wrap"
  /\ queueHead' = 0
  /\ cPc' = "run" /\ cTask' = 0
  /\ UNCHANGED <<queueTail, spiBytesQueued, buffer, sizeOf, producer, cTail, history>>

\* The tail tested here is the one read on entry to GetTask.
GetTaskWrap ==
  /\ cPc = "wrap"
  /\ queueHead' = 0
  /\ IF cTail = 0
       THEN cPc' = "inner" /\ UNCHANGED cTask
       ELSE cPc' = "run" /\ cTask' = 0
  /\ UNCHANGED <<queueTail, spiBytesQueued, buffer, sizeOf, producer, cTail, history>>

\* A task reaches the bus whole or, if any cell of it was overwritten, corrupted.
RunSPITask ==
  /\ cPc = "run"
  /\ LET id == buffer[cTask]
         intact == \A o \in Cells(cTask, SizeAt(cTask)) : o \in Offsets /\ buffer[o] = id
     IN  bus' = Append(bus, IF intact THEN id ELSE 0)
  /\ cPc' = "uncount"
  /\ UNCHANGED <<shared, producer, cTail, cTask, committed, startOf, eob>>

DoneTaskUncount ==
  /\ cPc = "uncount"
  /\ spiBytesQueued' =
       (spiBytesQueued + CounterModulus - ((SizeAt(cTask) + 1) % CounterModulus)) % CounterModulus
  /\ cPc' = "advance"
  /\ UNCHANGED <<queueHead, queueTail, buffer, sizeOf, producer, cTail, cTask, history>>

DoneTaskAdvance ==
  /\ cPc = "advance"
  /\ queueHead' = cTask + Header + SizeAt(cTask)
  /\ cPc' = "inner"
  /\ UNCHANGED <<queueTail, spiBytesQueued, buffer, sizeOf, producer, cTail, cTask, history>>

ConsumerStep ==
  \/ OuterLoop \/ FutexWait \/ InnerLoop
  \/ GetTask \/ ReadCmd \/ GetTaskWrap
  \/ RunSPITask \/ DoneTaskUncount \/ DoneTaskAdvance

-----------------------------------------------------------------------------
\* Everything submitted has been run and the SPI thread sleeps until a next
\* task that the bound MaxTasks rules out.
AllRun == pPc = "ready" /\ committed = MaxTasks /\ cPc = "asleep" /\ UNCHANGED vars

Next == (\E bytes \in PayloadSizes : AllocTask(bytes)) \/ ProducerStep \/ ConsumerStep \/ AllRun

Spec == Init /\ [][Next]_vars

\* Both threads keep running once they have work; the main thread may stop
\* submitting for good.
FairSpec == Spec /\ WF_vars(ProducerStep) /\ WF_vars(ConsumerStep)

-----------------------------------------------------------------------------
(* Properties *)

PPcs == {"ready", "wrapWait", "wrapPublish", "wrapWake", "wrapFutex", "fullWait", "fill",
         "publish", "count", "wake", "futex"}
CPcs == {"outer", "wait", "asleep", "inner", "get", "readCmd", "wrap", "run", "uncount", "advance"}

\* Types.  The head and the tail never come closer to the end of the buffer
\* than the header that AllocTask must always be able to write there.
TypeOK ==
  /\ queueHead \in Nat /\ queueHead + Header < QueueSize
  /\ queueTail \in Nat /\ queueTail + Header < QueueSize
  /\ spiBytesQueued \in 0..CounterModulus - 1
  /\ buffer \in [Offsets -> 0..MaxTasks]
  /\ sizeOf \in [TaskIds -> Nat]
  /\ pPc \in PPcs /\ pTail \in Offsets /\ pNewTail \in Nat /\ pBytes \in Nat
  /\ cPc \in CPcs /\ cTail \in Offsets /\ cTask \in Offsets
  /\ committed \in 0..MaxTasks
  /\ startOf \in [TaskIds -> Offsets]
  /\ eob \in Offsets
  /\ bus \in Seq(0..MaxTasks)

\* Tasks whose memory DoneTask has given back.
Released == IF cPc \in {"uncount", "advance"} THEN Len(bus) - 1 ELSE Len(bus)

\* Tasks committed and not yet given back, the one being run included.
Live == Released + 1..committed

EndOf(i) == startOf[i] + Header + sizeOf[i]

\* The main thread never writes (a task, a size field, an end-of-buffer header)
\* over a task that was committed and that DoneTask has not released, and two
\* such tasks never overlap: the two wait loops of AllocTask suffice.
LiveTasksIntact ==
  \A i \in Live : \A o \in Cells(startOf[i], sizeOf[i]) : o \in Offsets /\ buffer[o] = i

\* Across wraps, stale tails and end-of-buffer headers, the SPI thread puts on the
\* bus the tasks that were committed, each once, whole and in order.
TransmittedInOrder ==
  /\ Len(bus) <= committed
  /\ \A i \in 1..Len(bus) : bus[i] = i

\* The SPI thread is never left asleep with work in the queue: when it sleeps on
\* a tail that has moved, the main thread is on its way to a FUTEX_WAKE that its
\* test of queueHead cannot skip.
NoLostWakeup ==
  (cPc = "asleep" /\ queueTail # queueHead) =>
     \/ pPc \in {"wrapWake", "count", "wake"} /\ queueHead = pTail
     \/ pPc \in {"wrapFutex", "futex"}

-----------------------------------------------------------------------------
(* Why the queue is safe: the inductive invariant behind the properties above *)

\* The tail has gone back to offset 0 and the head has not followed yet.
Wrapped == queueTail < queueHead

\* Live tasks lie between the head and the tail or, when the buffer is wrapped,
\* between the head and the end-of-buffer header and between 0 and the tail.
LiveTasksInBounds ==
  \A i \in Live :
     \/ queueHead <= startOf[i] /\ EndOf(i) <= (IF Wrapped THEN eob ELSE queueTail)
     \/ Wrapped /\ EndOf(i) <= queueTail

LiveTasksDisjoint ==
  \A i, j \in Live : i < j =>
     \/ EndOf(i) <= startOf[j]
     \/ Wrapped /\ EndOf(j) <= queueTail /\ queueHead <= startOf[i]

\* Walking from the head over sizes and end-of-buffer headers visits exactly the
\* live tasks, in order, and ends at the tail.
LiveTasksChained ==
  /\ \A i \in Live : i + 1 \in Live =>
        \/ startOf[i + 1] = EndOf(i)
        \/ Wrapped /\ startOf[i + 1] = 0 /\ EndOf(i) = eob
  /\ Released < committed =>
        /\ \/ startOf[Released + 1] = queueHead
           \/ Wrapped /\ startOf[Released + 1] = 0 /\ queueHead = eob
        /\ \/ EndOf(committed) = queueTail
           \/ Wrapped /\ queueTail = 0 /\ EndOf(committed) = eob
  /\ Released = committed =>
        \/ queueHead = queueTail
        \/ Wrapped /\ queueTail = 0 /\ queueHead = eob

SentinelIntact ==
  Wrapped => queueHead <= eob /\ eob + Header < QueueSize /\ buffer[eob] = EndOfBuffer

Layout ==
  /\ LiveTasksIntact /\ LiveTasksInBounds /\ LiveTasksDisjoint
  /\ LiveTasksChained /\ SentinelIntact

\* What AllocTask knows at each of its steps about the space it is going to use.
AllocationSafe ==
  /\ pPc \notin {"ready", "count", "wake", "futex"} =>
        committed < MaxTasks /\ pBytes \in PayloadSizes
  /\ pPc \in {"wrapWait", "wrapPublish", "fullWait", "fill", "publish"} => pTail = queueTail
  /\ pPc \in {"wrapWake", "wrapFutex"} => queueTail = 0
  /\ pPc \in {"fullWait", "fill", "publish"} =>
        pNewTail = pTail + Header + pBytes /\ pNewTail + Header < QueueSize
  /\ pPc \in {"fill", "publish"} => ~(queueHead > pTail /\ queueHead <= pNewTail)
  /\ pPc = "wrapPublish" =>
        /\ 0 < queueHead /\ queueHead <= queueTail
        /\ eob = queueTail /\ buffer[eob] = EndOfBuffer
  /\ pPc = "publish" =>
        /\ sizeOf[committed + 1] = pBytes
        /\ \A o \in Cells(pTail, pBytes) : buffer[o] = committed + 1

\* What GetTask has found: the next task, or the end of the buffer behind which
\* the next task lies at offset 0 once cTail, or any later tail, is not 0.
FetchSafe ==
  LET atTask == Released < committed /\ startOf[Released + 1] = queueHead
      atEnd  == Wrapped /\ queueHead = eob /\ cTail <= queueTail
  IN  /\ cPc = "readCmd" => atTask \/ atEnd
      /\ cPc = "wrap" => atEnd
      /\ cPc \in {"run", "uncount", "advance"} => atTask /\ cTask = queueHead
      /\ cPc \in {"uncount", "advance"} => Len(bus) > 0

\* The invariant that every step preserves, whatever the constants.
QueueInv == TypeOK /\ Layout /\ TransmittedInOrder /\ AllocationSafe /\ FetchSafe

-----------------------------------------------------------------------------
(* Byte accounting, progress and refinement *)

\* What the first n tasks add to and take from spiBytesQueued: payloads and command bytes.
BytesOf(sizes, n) ==
  LET upTo[k \in 0..MaxTasks] == IF k = 0 THEN 0 ELSE (sizes[k] + 1) + upTo[k - 1]
  IN  upTo[n]

\* How many tasks DoneTask has subtracted.
Uncounted == IF cPc = "advance" THEN Released + 1 ELSE Released

\* Whenever the main thread is outside CommitTask, which is when the frame loop
\* reads spiBytesQueued to decide how long to sleep, the counter is exact: the
\* relaxed additions and subtractions of both threads add up.  It is never seen
\* wrapped below zero there, although DoneTask may subtract a task first.
BytesQueuedExact ==
  pPc # "count" => spiBytesQueued = BytesOf(sizeOf, committed) - BytesOf(sizeOf, Uncounted)

\* CommitTask returns and AllocTask's two wait loops end, however full the buffer
\* was and wherever the head stood.
AllocTaskReturns == (pPc # "ready") ~> (pPc = "ready")

\* A committed task is put on the bus in the end, even if it is the last one and
\* the SPI thread was falling asleep when it was committed.
EveryTaskRuns == \A i \in TaskIds : (committed >= i) ~> (Len(bus) >= i)

\* The ring buffer implements the FIFO of TaskFifo: publishing queueTail submits,
\* RunSPITask transmits, and every other step of the two threads is invisible.
Fifo == INSTANCE TaskFifo WITH Tasks <- TaskIds, submitted <- [i \in 1..committed |-> i]
ImplementsFifo == Fifo!FairFifoSpec
=============================================================================
