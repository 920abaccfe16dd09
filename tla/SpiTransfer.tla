---------------------------- MODULE SpiTransfer ----------------------------
(***************************************************************************)
(* How a task gets from the queue to the display: RunSPITask and           *)
(* SPIDMATransfer drive the SPI peripheral (two FIFOs of bytes, the status *)
(* bits of its control register cs), the data/control line of the display  *)
(* and two DMA channels, all of which run on beside the program.           *)
(*                                                                         *)
(* The builds differ in who runs the tasks and how:                        *)
(*   thread_polled   SPI thread, every byte written by the program         *)
(*   thread_dma      SPI thread, long payloads by DMA                      *)
(*   single_polled   no SPI thread: main runs each task it commits         *)
(*   single_dma      the same, ALL_TASKS_SHOULD_DMA                        *)
(*   kernel          PumpSPI, called by the timer of the kernel module     *)
(*                                                                         *)
(* A payload is counted in units: a byte on the bus, a word in the memory  *)
(* the DMA channels read.  Unit 0 of a task is its command.                *)
(***************************************************************************)
EXTENDS Integers, Sequences

CONSTANTS
  Builds,         \* the builds to look at
  TaskKinds,      \* tasks: [dma: its command may go by DMA, size: units of payload]
  MaxTasks,       \* bound: tasks before the program quits
  ExitTasks,      \* those of DeinitSPIDisplay: ClearScreen, display off
  FifoSize,       \* units in each FIFO of the peripheral: 16
  RxNeedsReading, \* RXR is set from this many on: 12
  DmaIsFaster,    \* DMA_IS_FASTER_THAN_POLLED_SPI
  MinDma,         \* TASK_SIZE_TO_USE_DMA
  MaxChunk,       \* MAX_DMA_SPI_TASK_SIZE
  SourceSize,     \* dmaSourceBuffer
  NumCbs,         \* NUM_DMA_CBS
  PumpLimit       \* tasks in one call of PumpSPI: 500

AllBuilds == {"thread_polled", "thread_dma", "single_polled", "single_dma", "kernel"}

\* What SPIDMATransfer needs for n chunks: addresses, headers and payload; control blocks.
SourceUnits(n, size) == (n - 1) + n + size
NumCbsFor(n) == 5 * n - 3
MostChunks(size) == (size + MaxChunk - 1) \div MaxChunk

\* The largest task fits into the memory of the DMA transfers.
ASSUME TransferAssumption ==
  /\ Builds \subseteq AllBuilds
  /\ MaxTasks \in Nat /\ PumpLimit \in Nat /\ DmaIsFaster \in Nat
  /\ FifoSize \in Nat /\ RxNeedsReading \in 1..FifoSize - 1
  /\ MaxChunk \in Nat \ {0} /\ MinDma \in Nat \ {0}
  /\ SourceSize \in Nat /\ NumCbs \in Nat
  /\ TaskKinds \subseteq [dma : BOOLEAN, size : Nat] /\ ExitTasks \in Seq(TaskKinds)
  /\ \A t \in TaskKinds :
       /\ SourceUnits(MostChunks(t.size), t.size) < SourceSize
       /\ NumCbsFor(MostChunks(t.size)) < NumCbs

VARIABLES
  build, chipSelect,          \* the build; DISPLAY_NEEDS_CHIP_SELECT_SIGNAL
  running, exiting,           \* programRunning; main is in DeinitSPI
  tasks, done,                \* tasks committed so far, how many were run
  pc, ret,                    \* the driver; where WaitForDMAFinished returns to
  sent,                       \* units of the payload that were written to the FIFO
  pumped,                     \* tasks run in this batch
  previousTaskWasSPI, dmaSourceEnd, firstFreeCB, source, cbs0, \* memory of dma.cpp
  ta, dmaen, tx, rx,          \* the peripheral: TA, DMAEN, units in the TX and RX FIFO
  dc,                         \* the data/control line: high for data
  mem, cb,                    \* dmaSourceBuffer, dmaCb
  txDma, rxDma, txAddr,       \* the channels; the address register of the TX channel
  received                    \* what the display has got, and with which level of dc

config  == <<build, chipSelect>>
queue   == <<tasks, done>>
driver  == <<ret, sent, pumped, previousTaskWasSPI>>
memory  == <<dmaSourceEnd, firstFreeCB, source, cbs0, mem, cb>>
spi     == <<ta, dmaen, tx, rx>>
dma     == <<txDma, rxDma, txAddr>>
vars    == <<config, running, exiting, queue, pc, driver, memory, spi, dc, dma, received>>

task == tasks[done + 1]

\* Only ALL_TASKS_SHOULD_DMA splits a task.
Chunk  == IF build = "single_dma" THEN MaxChunk ELSE task.size
Chunks == (task.size + Chunk - 1) \div Chunk

Unit(t, k) == [kind |-> "unit", of |-> t, nr |-> k]
Header     == [kind |-> "header", of |-> 0, nr |-> 0]
Address(c) == [kind |-> "address", of |-> 0, nr |-> c]

\* A control block: what it does, with how much, and the next one or -1.
Block(op, src, len, next) == [op |-> op, src |-> src, len |-> len, next |-> next]

Polled  == build \in {"thread_polled", "single_polled", "kernel"}
Batches == build \in {"thread_polled", "kernel"}   \* BEGIN and END around each batch
Single  == build \in {"single_polled", "single_dma"}

\* InitDMA: both channels idle, their memory all free.
InitDMA ==
  /\ dmaSourceEnd = 0 /\ firstFreeCB = 0 /\ source = 0 /\ cbs0 = 0
  /\ mem = [a \in 0..SourceSize - 1 |-> Header]
  /\ cb = [c \in 0..NumCbs - 1 |-> Block("none", 0, 0, -1)]
  /\ txDma = [active |-> FALSE, src |-> 0, left |-> 0]
  /\ rxDma = [active |-> FALSE, cb |-> 0, left |-> 0]
  /\ txAddr = 0

Init ==
  /\ build \in Builds
  /\ chipSelect \in IF build = "single_dma" THEN {FALSE} ELSE BOOLEAN
  /\ running = TRUE /\ exiting = FALSE /\ tasks = <<>> /\ done = 0
  /\ pc = "asleep" /\ ret = "asleep" /\ sent = 0 /\ pumped = 0
  /\ previousTaskWasSPI = TRUE
  /\ InitDMA
  \* InitSPIDisplay ends its transfer unless the build uses DMA; main without a thread
  \* begins one for good.
  /\ ta = ~Batches /\ dmaen = FALSE /\ tx = <<>> /\ rx = 0
  /\ dc = TRUE
  /\ received = <<>>

-----------------------------------------------------------------------------
(* The SPI peripheral, as the program uses it *)

RXD  == rx > 0
RXR  == rx >= RxNeedsReading      \* and RXF, which is set later
TXD  == Len(tx) < FifoSize
DONE == ta /\ tx = <<>>

\* A write to cs: TA, DMAEN and the FIFOs that are cleared.
WriteCs(active, enableDma, clear) ==
  /\ ta' = active /\ dmaen' = enableDma
  /\ tx' = IF "tx" \in clear THEN <<>> ELSE tx
  /\ rx' = IF "rx" \in clear THEN 0 ELSE rx

\* What is written to a full FIFO is lost.
WriteFifo(unit) ==
  /\ tx' = IF TXD THEN Append(tx, unit) ELSE tx
  /\ UNCHANGED <<ta, dmaen, rx>>

\* A unit goes out while another comes in; a full RX FIFO stops the clock.
Clock ==
  /\ ta /\ tx # <<>> /\ rx < FifoSize
  /\ received' = Append(received, [unit |-> Head(tx), dc |-> dc])
  /\ tx' = Tail(tx) /\ rx' = rx + 1
  /\ UNCHANGED <<config, running, exiting, queue, pc, driver, memory, ta, dmaen, dc, dma>>

-----------------------------------------------------------------------------
(* The DMA channels *)

\* The TX channel loads a control block.
LoadTx(c) == txDma' = [active |-> TRUE, src |-> cb[c].src, left |-> cb[c].len]

\* With TA clear, the first word sets DLEN and TA; the others go to the TX FIFO.
TxMove ==
  /\ txDma.active /\ dmaen
  /\ IF ta THEN TXD /\ tx' = Append(tx, mem[txDma.src]) /\ UNCHANGED ta
           ELSE ta' = TRUE /\ UNCHANGED tx
  /\ txDma' = [active |-> txDma.left > 1, src |-> txDma.src + 1, left |-> txDma.left - 1]
  /\ UNCHANGED <<config, running, exiting, queue, pc, driver, memory, dmaen, rx, dc, rxDma, txAddr,
                 received>>

\* The RX channel goes on to control block c, if there is one.
GoOn(c) ==
  rxDma' = IF c = -1 THEN [rxDma EXCEPT !.active = FALSE, !.left = 0]
           ELSE [active |-> TRUE, cb |-> c, left |-> cb[c].len]

Op == cb[rxDma.cb].op
NextCb == cb[rxDma.cb].next

RxMove ==
  /\ rxDma.active /\ Op = "rx" /\ dmaen /\ rx > 0
  /\ rx' = rx - 1
  /\ IF rxDma.left > 1 THEN rxDma' = [rxDma EXCEPT !.left = rxDma.left - 1] ELSE GoOn(NextCb)
  /\ UNCHANGED <<config, running, exiting, queue, pc, driver, memory, ta, dmaen, tx, dc, txDma, txAddr,
                 received>>

SetDMATxAddress ==
  /\ rxDma.active /\ Op = "setDMATxAddress"
  /\ txAddr' = mem[cb[rxDma.cb].src].nr
  /\ GoOn(NextCb)
  /\ UNCHANGED <<config, running, exiting, queue, pc, driver, memory, spi, dc, txDma, received>>

\* As it would be if the chain started the TX channel with the transfer still active.
StayActive ==
  /\ rxDma.active /\ Op = "disableTransferActive"
  /\ GoOn(NextCb)
  /\ UNCHANGED <<config, running, exiting, queue, pc, driver, memory, spi, dc, txDma, txAddr,
                 received>>

\* It writes DMAEN to cs, and thereby clears TA.
DisableTransferActive ==
  /\ rxDma.active /\ Op = "disableTransferActive"
  /\ WriteCs(FALSE, TRUE, {})
  /\ GoOn(NextCb)
  /\ UNCHANGED <<config, running, exiting, queue, pc, driver, memory, dc, txDma, txAddr, received>>

StartDMATxChannel ==
  /\ rxDma.active /\ Op = "startDMATxChannel"
  /\ LoadTx(txAddr)
  /\ GoOn(NextCb)
  /\ UNCHANGED <<config, running, exiting, queue, pc, driver, memory, spi, dc, txAddr, received>>

Dma == TxMove \/ RxMove \/ SetDMATxAddress \/ DisableTransferActive \/ StartDMATxChannel

-----------------------------------------------------------------------------
(* Who runs the tasks *)

\* Main commits a task; without a thread it runs it before it goes on.
Commit ==
  /\ running /\ Len(tasks) < MaxTasks
  /\ Single => pc = "asleep" /\ done = Len(tasks)
  /\ \E t \in TaskKinds : tasks' = Append(tasks, t)
  /\ UNCHANGED <<config, running, exiting, done, pc, driver, memory, spi, dc, dma, received>>

\* A signal.  The kernel module is unloaded by other means.
Quit ==
  /\ running /\ build # "kernel"
  /\ running' = FALSE
  /\ UNCHANGED <<config, exiting, queue, pc, driver, memory, spi, dc, dma, received>>

\* Without an SPI thread CommitTask runs the task itself.
RunCommitted ==
  /\ pc = "asleep" /\ Single /\ running /\ done < Len(tasks)
  /\ pc' = "fetch"
  /\ UNCHANGED <<config, running, exiting, queue, driver, memory, spi, dc, dma, received>>

\* ExecuteSPITasks, PumpSPI: BEGIN_SPI_COMMUNICATION unless DMA is used.
BeginBatch ==
  /\ pc = "asleep" /\ ~Single /\ running /\ done < Len(tasks)
  /\ IF Batches THEN WriteCs(TRUE, FALSE, {}) ELSE UNCHANGED spi
  /\ pumped' = 0
  /\ pc' = "fetch"
  /\ UNCHANGED <<config, running, exiting, queue, ret, sent, previousTaskWasSPI, memory, dc,
                 dma, received>>

\* DeinitSPIDisplay, called by main after the thread has gone, runs its own tasks; what is
\* left in the queue is skipped.
BeginExit ==
  /\ pc = "asleep" /\ ~running
  /\ exiting' = TRUE
  /\ tasks' = SubSeq(tasks, 1, done) \o ExitTasks
  /\ pc' = "fetch"
  /\ UNCHANGED <<config, running, done, driver, memory, spi, dc, dma, received>>

MoreTasks ==
  /\ done < Len(tasks)
  /\ running \/ Single \/ exiting
  /\ build = "kernel" => pumped < PumpLimit

FetchTask ==
  /\ pc = "fetch" /\ MoreTasks
  /\ sent' = 0 /\ pumped' = IF build = "kernel" THEN pumped + 1 ELSE pumped
  /\ pc' = "start"
  /\ UNCHANGED <<config, running, exiting, queue, ret, previousTaskWasSPI, memory, spi, dc,
                 dma, received>>

EndBatch ==
  /\ pc = "fetch" /\ ~MoreTasks
  /\ pc' = IF ~exiting THEN IF Batches THEN "endBatch" ELSE "asleep"
           ELSE IF Polled THEN "deinit" ELSE "finishTx"
  /\ ret' = IF exiting THEN "deinit" ELSE ret
  /\ UNCHANGED <<config, running, exiting, queue, sent, pumped, previousTaskWasSPI, memory, spi,
                 dc, dma, received>>

-----------------------------------------------------------------------------
(* RunSPITask, written by the program *)

SentByDma ==
  \/ build = "single_dma" /\ task.dma /\ task.size >= MinDma
  \/ build = "thread_dma" /\ task.size > DmaIsFaster

StartTask ==
  /\ pc = "start"
  /\ IF previousTaskWasSPI \/ build # "single_dma" THEN pc' = "wait" /\ UNCHANGED ret
     ELSE IF SentByDma THEN pc' = "grabSource" /\ UNCHANGED ret
     ELSE pc' = "finishTx" /\ ret' = "restore"
  /\ UNCHANGED <<config, running, exiting, queue, sent, pumped, previousTaskWasSPI, memory, spi,
                 dc, dma, received>>

\* As it would be if they only waited.
OnlyWait == FALSE

\* The loops of WaitForPolledSPITransferToFinish and END_SPI_COMMUNICATION: while TA is set
\* and DONE is not, a filled RX FIFO is cleared, for the clock to go on.
FlushRx ==
  /\ pc \in {"wait", "deselect", "endBatch"}
  /\ ta /\ ~DONE /\ RXR
  /\ WriteCs(TRUE, FALSE, {"rx"})
  /\ UNCHANGED <<config, running, exiting, queue, pc, driver, memory, dc, dma, received>>

\* WaitForPolledSPITransferToFinish returns: RXD must tell of the next command only.
PolledFinished ==
  /\ pc = "wait" /\ ~(ta /\ ~DONE)
  /\ IF RXD THEN WriteCs(TRUE, FALSE, {"rx"}) ELSE UNCHANGED spi
  /\ pc' = IF build = "single_dma" /\ SentByDma THEN "grabSource"
           ELSE IF chipSelect THEN "select" ELSE "dcLow"
  /\ UNCHANGED <<config, running, exiting, queue, driver, memory, dc, dma, received>>

\* The first task by polling after one by DMA.
RestorePolled ==
  /\ pc = "restore"
  /\ WriteCs(TRUE, FALSE, {"tx"})
  /\ pc' = "dcLow"
  /\ UNCHANGED <<config, running, exiting, queue, driver, memory, dc, dma, received>>

\* BEGIN_SPI_COMMUNICATION for each task.
Select ==
  /\ pc = "select"
  /\ WriteCs(TRUE, FALSE, {})
  /\ pc' = "dcLow"
  /\ UNCHANGED <<config, running, exiting, queue, driver, memory, dc, dma, received>>

DcLow ==
  /\ pc = "dcLow"
  /\ dc' = FALSE
  /\ pc' = "command"
  /\ UNCHANGED <<config, running, exiting, queue, driver, memory, spi, dma, received>>

WriteCommand ==
  /\ pc = "command"
  /\ WriteFifo(Unit(done + 1, 0))
  /\ pc' = "clocked"
  /\ UNCHANGED <<config, running, exiting, queue, driver, memory, dc, dma, received>>

\* The data/control line may rise when the command is out.
DcHigh ==
  /\ pc = "clocked" /\ (RXD \/ DONE)
  /\ dc' = TRUE
  /\ pc' = IF SentByDma THEN "startDma" ELSE "prefill"
  /\ UNCHANGED <<config, running, exiting, queue, driver, memory, spi, dma, received>>

Least(a, b) == IF a <= b THEN a ELSE b

\* "tPrefillEnd": the FIFO has room for that many, TXD is not looked at.
Prefill ==
  /\ pc = "prefill"
  /\ IF sent < Least(FifoSize - 1, task.size)
       THEN WriteFifo(Unit(done + 1, sent + 1)) /\ sent' = sent + 1 /\ UNCHANGED pc
       ELSE pc' = "push" /\ UNCHANGED <<spi, sent>>
  /\ UNCHANGED <<config, running, exiting, queue, ret, pumped, previousTaskWasSPI, memory, dc,
                 dma, received>>

\* As it would be if the loop left the RX FIFO to the next task.
PushOnly ==
  /\ pc = "push" /\ sent < task.size
  /\ WriteFifo(Unit(done + 1, sent + 1)) /\ TXD
  /\ sent' = sent + 1
  /\ UNCHANGED <<config, running, exiting, queue, pc, ret, pumped, previousTaskWasSPI, memory, dc,
                 dma, received>>

\* One round of the loop, with one reading of cs.
PushUnit ==
  /\ pc = "push" /\ sent < task.size
  /\ TXD \/ RXR
  /\ IF TXD THEN tx' = Append(tx, Unit(done + 1, sent + 1)) /\ sent' = sent + 1
            ELSE UNCHANGED <<tx, sent>>
  /\ IF RXR THEN rx' = 0 /\ ta' = TRUE /\ dmaen' = FALSE ELSE UNCHANGED <<rx, ta, dmaen>>
  /\ UNCHANGED <<config, running, exiting, queue, pc, ret, pumped, previousTaskWasSPI, memory, dc,
                 dma, received>>

EndPush ==
  /\ pc = "push" /\ sent = task.size
  /\ previousTaskWasSPI' = TRUE
  /\ pc' = IF chipSelect THEN "deselect" ELSE "done"
  /\ UNCHANGED <<config, running, exiting, queue, ret, sent, pumped, memory, spi, dc, dma,
                 received>>

\* As it would be without the wait for DONE.
EndAtOnce ==
  /\ pc \in {"deselect", "endBatch"}
  /\ WriteCs(FALSE, FALSE, {"rx"})
  /\ pc' = IF pc = "deselect" THEN "done" ELSE "asleep"
  /\ UNCHANGED <<config, running, exiting, queue, driver, memory, dc, dma, received>>

\* The end of END_SPI_COMMUNICATION, for a task or for a batch.
EndCommunication ==
  /\ pc \in {"deselect", "endBatch"} /\ ~(ta /\ ~DONE)
  /\ WriteCs(FALSE, FALSE, {"rx"})
  /\ pc' = IF pc = "deselect" THEN "done" ELSE "asleep"
  /\ UNCHANGED <<config, running, exiting, queue, driver, memory, dc, dma, received>>

DoneTask ==
  /\ pc = "done"
  /\ done' = done + 1
  /\ pc' = "fetch"
  /\ UNCHANGED <<config, running, exiting, tasks, driver, memory, spi, dc, dma, received>>

-----------------------------------------------------------------------------
(* dma.cpp *)

\* WaitForDMAFinished and the waits in SPIDMATransfer; with an SPI thread the latter do not
\* test programRunning.
StopsWaiting == ~running /\ (build = "single_dma" \/ ret = "deinit")

FinishTx ==
  /\ pc = "finishTx" /\ (txDma.active => StopsWaiting)
  /\ pc' = "finishRx"
  /\ UNCHANGED <<config, running, exiting, queue, driver, memory, spi, dc, dma, received>>

FinishRx ==
  /\ pc = "finishRx" /\ (rxDma.active => StopsWaiting)
  /\ pc' = ret
  /\ UNCHANGED <<config, running, exiting, queue, driver, memory, spi, dc, dma, received>>

\* As it would be if it went on behind the end after the wait.
GrabWithoutReset ==
  LET units == SourceUnits(Chunks, task.size) IN
  /\ pc \in {"grabSource", "sourceWrapped"}
  /\ IF pc = "grabSource" /\ dmaSourceEnd + units >= SourceSize
       THEN pc' = "finishTx" /\ ret' = "sourceWrapped" /\ UNCHANGED <<source, dmaSourceEnd>>
       ELSE /\ source' = dmaSourceEnd
            /\ dmaSourceEnd' = source' + units
            /\ pc' = "grabCbs" /\ UNCHANGED ret
  /\ UNCHANGED <<config, running, exiting, queue, sent, pumped, previousTaskWasSPI, firstFreeCB,
                 cbs0, mem, cb, spi, dc, dma, received>>

\* GrabFreeDMASourceBytes; "sourceWrapped": after the wait it starts again from the beginning.
GrabFreeDMASourceBytes ==
  LET units == SourceUnits(Chunks, task.size) IN
  /\ pc \in {"grabSource", "sourceWrapped"}
  /\ IF pc = "grabSource" /\ dmaSourceEnd + units >= SourceSize
       THEN pc' = "finishTx" /\ ret' = "sourceWrapped" /\ UNCHANGED <<source, dmaSourceEnd>>
       ELSE /\ source' = IF pc = "grabSource" THEN dmaSourceEnd ELSE 0
            /\ dmaSourceEnd' = source' + units
            /\ pc' = "grabCbs" /\ UNCHANGED ret
  /\ UNCHANGED <<config, running, exiting, queue, sent, pumped, previousTaskWasSPI, firstFreeCB,
                 cbs0, mem, cb, spi, dc, dma, received>>

GrabFreeCBs ==
  LET num == NumCbsFor(Chunks) IN
  /\ pc \in {"grabCbs", "cbsWrapped"}
  /\ IF pc = "grabCbs" /\ firstFreeCB + num >= NumCbs
       THEN pc' = "finishTx" /\ ret' = "cbsWrapped" /\ UNCHANGED <<cbs0, firstFreeCB>>
       ELSE /\ cbs0' = IF pc = "grabCbs" THEN firstFreeCB ELSE 0
            /\ firstFreeCB' = cbs0' + num
            /\ pc' = "prepare" /\ UNCHANGED ret
  /\ UNCHANGED <<config, running, exiting, queue, sent, pumped, previousTaskWasSPI, dmaSourceEnd,
                 source, mem, cb, spi, dc, dma, received>>

\* The chain: chunk 0 has a control block for each channel; behind each further pair are
\* the three that the RX channel goes through first, to start the TX channel again.
TxCb(i) == IF i = 0 THEN cbs0 ELSE cbs0 + 5 * i - 3
RxCb(i) == TxCb(i) + 1

\* Where the header of chunk i is; before the first are the addresses for setDMATxAddress.
HeaderOf(i) == source + Chunks - 1 + i * (1 + Chunk)

ChunkSize(i) == Least(Chunk, task.size - i * Chunk)

\* What the task puts into cell a of the source memory.
SourceCell(a) ==
  LET k == a - HeaderOf(0)
  IN  IF k < 0 THEN Address(TxCb(a - source + 1))
      ELSE IF k % (1 + Chunk) = 0 THEN Header
      ELSE Unit(done + 1, ((k \div (1 + Chunk)) * Chunk) + (k % (1 + Chunk)))

ControlBlock(c) ==
  LET i == (c - cbs0 + 3) \div 5                  \* the chunk
  IN  CASE c = TxCb(i) -> Block("tx", HeaderOf(i), 1 + ChunkSize(i), -1)
        [] c = RxCb(i) -> Block("rx", 0, ChunkSize(i), IF i < Chunks - 1 THEN RxCb(i + 1) + 1 ELSE -1)
        [] c = RxCb(i) + 1 -> Block("setDMATxAddress", source + i - 1, 1, c + 1)
        [] c = RxCb(i) + 2 -> Block("disableTransferActive", 0, 1, c + 1)
        [] c = RxCb(i) + 3 -> Block("startDMATxChannel", 0, 1, RxCb(i))

\* ALL_TASKS_SHOULD_DMA: the copy into uncached memory and the chain of control blocks,
\* while the channels may still be busy with the task before.
PrepareChain ==
  /\ pc = "prepare" /\ build = "single_dma"
  /\ mem' = [a \in DOMAIN mem |-> IF a \in source..source + SourceUnits(Chunks, task.size) - 1
                                  THEN SourceCell(a) ELSE mem[a]]
  /\ cb' = [c \in DOMAIN cb |-> IF c \in cbs0..cbs0 + NumCbsFor(Chunks) - 1
                                THEN ControlBlock(c) ELSE cb[c]]
  /\ pc' = "finishTx" /\ ret' = "sendCommand"
  /\ UNCHANGED <<config, running, exiting, queue, sent, pumped, previousTaskWasSPI, dmaSourceEnd,
                 firstFreeCB, source, cbs0, spi, dc, dma, received>>

\* With an SPI thread: one control block for each channel, always the first ones, and the
\* header and the payload at the start of the source memory.
PrepareTransfer ==
  /\ pc = "prepare" /\ build = "thread_dma"
  /\ mem' = [a \in DOMAIN mem |-> IF a > task.size THEN mem[a]
                                  ELSE IF a = 0 THEN Header ELSE Unit(done + 1, a)]
  /\ cb' = [cb EXCEPT ![0] = Block("tx", 0, 1 + task.size, -1), ![1] = Block("rx", 0, task.size, -1)]
  /\ pc' = "startTx"
  /\ UNCHANGED <<config, running, exiting, queue, driver, dmaSourceEnd, firstFreeCB, source, cbs0,
                 spi, dc, dma, received>>

\* ALL_TASKS_SHOULD_DMA: the command goes by polling; a program that quits sends nothing.
SendCommand ==
  /\ pc = "sendCommand"
  /\ IF running
       THEN WriteCs(TRUE, FALSE, {"tx", "rx"}) /\ pc' = "dcLow" /\ UNCHANGED previousTaskWasSPI
       ELSE previousTaskWasSPI' = FALSE /\ pc' = "done" /\ UNCHANGED spi
  /\ UNCHANGED <<config, running, exiting, queue, ret, sent, pumped, memory, dc, dma, received>>

\* The peripheral is switched over to DMA.  With an SPI thread the memory is filled only
\* then, always from the same place.
StartDma ==
  /\ pc = "startDma"
  /\ WriteCs(FALSE, TRUE, {"tx", "rx"})
  /\ pc' = IF build = "single_dma" THEN "startTx" ELSE "prepare"
  /\ UNCHANGED <<config, running, exiting, queue, driver, memory, dc, dma, received>>

StartTx ==
  /\ pc = "startTx"
  /\ LoadTx(TxCb(0))
  /\ pc' = "startRx"
  /\ UNCHANGED <<config, running, exiting, queue, driver, memory, spi, dc, rxDma, txAddr,
                 received>>

\* With an SPI thread the transfer is waited for.
StartRx ==
  /\ pc = "startRx"
  /\ GoOn(RxCb(0))
  /\ IF build = "single_dma"
       THEN pc' = "done" /\ previousTaskWasSPI' = FALSE /\ UNCHANGED ret
       ELSE pc' = "finishTx" /\ ret' = "dmaDone" /\ UNCHANGED previousTaskWasSPI
  /\ UNCHANGED <<config, running, exiting, queue, sent, pumped, memory, spi, dc, txDma, txAddr,
                 received>>

DmaDone ==
  /\ pc = "dmaDone"
  /\ WriteCs(TRUE, FALSE, {"tx", "rx"})
  /\ pc' = IF chipSelect THEN "deselect" ELSE "done"
  /\ UNCHANGED <<config, running, exiting, queue, driver, memory, dc, dma, received>>

\* As it would be if DeinitDMA relied on WaitForDMAFinished.
DeinitWithoutReset ==
  /\ pc = "deinit"
  /\ WriteCs(FALSE, FALSE, {"tx", "rx"})
  /\ pc' = "gone"
  /\ UNCHANGED <<config, running, exiting, queue, driver, memory, dc, dma, received>>

ResetDMAChannels ==
  /\ txDma' = [txDma EXCEPT !.active = FALSE] /\ rxDma' = [rxDma EXCEPT !.active = FALSE]
  /\ UNCHANGED txAddr

\* DeinitDMA resets the channels and frees their memory, DeinitSPI clears cs.
Deinit ==
  /\ pc = "deinit"
  /\ ResetDMAChannels
  /\ WriteCs(FALSE, FALSE, {"tx", "rx"})
  /\ pc' = "gone"
  /\ UNCHANGED <<config, running, exiting, queue, driver, memory, dc, received>>

-----------------------------------------------------------------------------
Driver ==
  \/ RunCommitted \/ BeginBatch \/ BeginExit \/ FetchTask \/ EndBatch
  \/ StartTask \/ FlushRx \/ PolledFinished \/ RestorePolled \/ Select \/ DcLow \/ WriteCommand
  \/ DcHigh \/ Prefill \/ PushUnit \/ EndPush \/ EndCommunication \/ DoneTask
  \/ FinishTx \/ FinishRx \/ GrabFreeDMASourceBytes \/ GrabFreeCBs \/ PrepareChain \/ PrepareTransfer
  \/ SendCommand \/ StartDma \/ StartTx \/ StartRx \/ DmaDone \/ Deinit

\* All tasks are run, or the program waits for something that never comes.
Stopped == Len(tasks) >= MaxTasks \/ ~running

Next ==
  \/ Commit \/ Quit
  \/ Driver
  \/ Clock
  \/ Dma
  \/ (Stopped /\ UNCHANGED vars)

Spec == Init /\ [][Next]_vars

\* The thread that runs the tasks goes on, and so does the hardware; nobody must commit a
\* task or quit.
FairSpec == Spec /\ WF_vars(Driver) /\ WF_vars(Clock) /\ WF_vars(TxMove) /\ WF_vars(Dma)

-----------------------------------------------------------------------------
(* Properties *)

\* Types; the channels never leave their memory, nor do the allocators.
TypeOK ==
  /\ build \in AllBuilds /\ chipSelect \in BOOLEAN /\ running \in BOOLEAN /\ exiting \in BOOLEAN
  /\ tasks \in Seq([dma : BOOLEAN, size : Nat]) /\ done \in 0..Len(tasks)
  /\ sent \in Nat /\ previousTaskWasSPI \in BOOLEAN
  /\ dmaSourceEnd \in 0..SourceSize /\ firstFreeCB \in 0..NumCbs
  /\ ta \in BOOLEAN /\ dmaen \in BOOLEAN /\ dc \in BOOLEAN
  /\ Len(tx) <= FifoSize /\ rx \in 0..FifoSize
  /\ txDma.active => txDma.src \in DOMAIN mem /\ txDma.left > 0
  /\ rxDma.active => rxDma.cb \in DOMAIN cb

\* The unit that must come after r.
Follows(r, q) ==
  \/ q.of = r.of /\ q.nr = r.nr + 1
  \/ q.of = r.of + 1 /\ q.nr = 0 /\ r.nr = tasks[r.of].size

\* The display gets the tasks whole and in the order of the queue, the command with the
\* data/control line low and the payload with the line high, however the SPI clock and the
\* DMA channels run against the program: nothing is lost in a full FIFO, sent twice, taken
\* from memory that was filled again, or clocked out on the wrong side of a change of the
\* line.  (ALL_TASKS_SHOULD_DMA no longer waits for DMA once the program quits.)
TasksSentInOrder ==
  running \/ build # "single_dma" =>
    \A i \in 1..Len(received) :
      /\ received[i].unit.kind = "unit"
      /\ received[i].dc = (received[i].unit.nr > 0)
      /\ IF i = 1 THEN received[i].unit = Unit(1, 0)
                  ELSE Follows(received[i - 1].unit, received[i].unit)

\* Where END_SPI_COMMUNICATION follows the last task, nothing of it is left in a FIFO when
\* the thread sleeps.  (Else it is flushed by the next task.)
SleepsWithBusIdle ==
  pc = "asleep" /\ (Batches \/ chipSelect) /\ done > 0 =>
    Len(received) > 0 /\ received[Len(received)].unit = Unit(done, tasks[done].size)

\* No DMA channel runs on in memory that was freed.
FreedMemoryIdle == pc = "gone" => ~txDma.active /\ ~rxDma.active

\* A committed task is run, if the program does not quit: no loop of the driver waits for a
\* FIFO or a channel that stands still.
TasksRun == \A k \in 1..MaxTasks : Len(tasks) >= k /\ running ~> done >= k \/ ~running

\* In this build the thread clears TA before it ends, and DeinitSPIDisplay runs its tasks outside
\* a transfer: nothing is clocked out, and RunSPITask waits for ever.
HangsAtExit == build = "thread_polled" /\ ~chipSelect /\ exiting /\ ~ta

\* A program that quits ends, from whatever it was waiting for, or gets at least as far as the
\* tasks of DeinitSPIDisplay that hang.
QuitEnds == ~running ~> (pc = "gone" \/ HangsAtExit)
=============================================================================
