-------------------------- MODULE SpiTransferProofs --------------------------
(***************************************************************************)
(* TLAPS proofs about SpiTransfer, for FIFOs of any size and any tasks     *)
(* that fit into the memory of dma.cpp: whatever the program, the clock of *)
(* the bus and the DMA channels do to the FIFOs, the display gets the      *)
(* tasks whole and in order.                                               *)
(*                                                                         *)
(* The invariant follows the units: which was written last to the TX FIFO  *)
(* (by the driver, or by the channel), that the FIFO holds the ones before *)
(* it without a gap, and that the display has got the one before those.    *)
(* With ALL_TASKS_SHOULD_DMA, ChainInv adds where the header and the       *)
(* control blocks of each chunk of the chain under way are in the memory   *)
(* of dma.cpp, and that what the next task takes of it lies behind them.   *)
(***************************************************************************)
EXTENDS SpiTransfer, SequenceTheorems, TLAPS

\* A transfer of an SPI thread finds room for the task in the memory of dma.cpp.
TaskFits(t) == t.size > 0 => t.size + 1 < SourceSize /\ 2 < NumCbs

Units == [kind : {"unit"}, of : Nat, nr : Nat]

-----------------------------------------------------------------------------
(* The invariant *)

\* The driver waits for the transfer of an SPI thread.
Transferring == pc \in {"finishTx", "finishRx"} /\ ret = "dmaDone"

\* The places where part of the task has been written, its command at least.
Writing ==
  \/ pc \in {"clocked", "prefill", "push", "deselect", "done", "startDma", "prepare", "startTx",
             "startRx", "dmaDone"}
  \/ Transferring

\* The task, and the unit of it, that was written last to the FIFO: by the driver, or by the
\* TX channel, whose first word is the header.
At == IF Writing THEN done + 1 ELSE done
Moved == IF txDma.src = 0 THEN 0 ELSE txDma.src - 1
Nr ==
  IF pc \in {"clocked", "startDma", "prepare", "startTx"} THEN 0
  ELSE IF pc \in {"prefill", "push"} THEN sent
  ELSE IF pc = "startRx" \/ Transferring THEN Moved
  ELSE IF At = 0 THEN 0 ELSE tasks[At].size

Kinds ==
  /\ build \in AllBuilds \ {"single_dma"} /\ chipSelect \in BOOLEAN
  /\ running \in BOOLEAN /\ exiting \in BOOLEAN /\ (exiting => ~running)
  /\ pc \in {"deinit", "gone"} \/ ret = "deinit" => exiting
  /\ tasks \in Seq([dma : BOOLEAN, size : Nat]) /\ done \in 0..Len(tasks)
  /\ \A n \in 1..Len(tasks) : TaskFits(tasks[n])
  /\ pc \in {"asleep", "fetch", "start", "wait", "select", "dcLow", "command", "clocked", "prefill",
             "push", "deselect", "done", "endBatch", "startDma", "prepare", "startTx", "startRx",
             "finishTx", "finishRx", "dmaDone", "deinit", "gone"}
  /\ ret \in {"asleep", "dmaDone", "deinit"}
  /\ pc \in {"finishTx", "finishRx"} => ret # "asleep"
  /\ sent \in Nat /\ previousTaskWasSPI = TRUE
  /\ dmaSourceEnd = 0 /\ firstFreeCB = 0 /\ cbs0 = 0
  /\ ta \in BOOLEAN /\ dmaen \in BOOLEAN /\ dc \in BOOLEAN
  /\ tx \in Seq(Units) /\ Len(tx) <= FifoSize /\ rx \in 0..FifoSize
  /\ received \in Seq([unit : Units, dc : BOOLEAN])
  /\ DOMAIN mem = 0..SourceSize - 1 /\ DOMAIN cb = 0..NumCbs - 1

\* A task is at hand while it is run.
HasTask ==
  /\ Writing \/ pc \in {"start", "wait", "select", "dcLow", "command"} => done < Len(tasks)
  /\ pc \in {"start", "wait", "select", "dcLow", "command", "clocked"} => sent = 0
  /\ pc \in {"prefill", "push"} => sent <= task.size
  /\ pc \in {"deselect", "done"} => At = done + 1
  /\ pc \in {"asleep", "endBatch"} => ~exiting

\* The last units written are in the TX FIFO, ...
Fifo ==
  /\ \A i \in 1..Len(tx) : tx[i] = Unit(At, Nr - Len(tx) + i)
  /\ Len(tx) <= Nr \/ (pc = "clocked" /\ Len(tx) = 1)

\* ... and the one before them is what the display has got last.
LastReceived ==
  /\ At = 0 => received = <<>>
  /\ At > 0 /\ Len(tx) <= Nr =>
       Len(received) > 0 /\ received[Len(received)].unit = Unit(At, Nr - Len(tx))
  /\ At > 0 /\ Len(tx) > Nr =>
       IF At = 1 THEN received = <<>>
       ELSE Len(received) > 0 /\ received[Len(received)].unit = Unit(At - 1, tasks[At - 1].size)

\* The FIFOs and the line around the command.
Phases ==
  /\ ~ta => IF pc = "clocked" THEN rx = 0 ELSE tx = <<>>
  /\ (dc <=> pc \notin {"command", "clocked"})
  /\ pc \in {"select", "dcLow", "command"} => tx = <<>> /\ rx = 0
  /\ pc = "clocked" => Len(tx) + rx = 1
  /\ pc = "prefill" => ta /\ Len(tx) <= sent
  /\ pc \in {"push", "dmaDone"} => ta
  /\ chipSelect /\ ~Writing => tx = <<>>
  /\ chipSelect /\ pc = "done" => tx = <<>>
  /\ Batches /\ pc = "asleep" => tx = <<>>

\* What the channels are given: the header and the payload, a control block for each.
Prepared ==
  /\ mem[0] = Header /\ \A a \in 1..task.size : mem[a] = Unit(done + 1, a)
  /\ cb[0] = Block("tx", 0, 1 + task.size, -1) /\ cb[1] = Block("rx", 0, task.size, -1)

\* What the TX channel has moved, and what it has to move yet.
TxChannel ==
  /\ dmaen /\ txDma.src \in Nat /\ txDma.left \in Nat
  /\ txDma.src + txDma.left = 1 + task.size
  /\ (txDma.active <=> txDma.left > 0)
  /\ (ta <=> txDma.src > 0)

\* What the RX channel has to take yet: what it has taken, and what is in the FIFOs, is what
\* the TX channel has moved.
RxChannel ==
  /\ rxDma.cb = 1 /\ rxDma.left \in 0..task.size /\ (rxDma.active <=> rxDma.left > 0)
  /\ task.size - rxDma.left + (rx + Len(tx)) = Moved

Transfer ==
  /\ pc \in {"startDma", "prepare", "startTx", "startRx", "dmaDone"} \/ Transferring =>
       build = "thread_dma" /\ task.size > 0
  /\ pc \in {"startDma", "prepare", "startTx"} => tx = <<>>
  /\ pc \in {"prepare", "startTx"} => ~ta /\ dmaen /\ rx = 0
  /\ pc \in {"startTx", "startRx"} \/ Transferring => Prepared
  /\ pc = "startRx" \/ Transferring => TxChannel
  /\ pc = "startRx" => rx + Len(tx) = Moved
  /\ Transferring => RxChannel
  /\ pc = "finishRx" => ~txDma.active
  /\ pc = "dmaDone" => tx = <<>> /\ rx = 0

Idle ==
  /\ txDma \in [active : BOOLEAN, src : Nat, left : Nat]
  /\ rxDma \in [active : BOOLEAN, cb : Nat, left : Nat]
  /\ ~Transferring /\ pc # "startRx" => ~txDma.active
  /\ ~Transferring => ~rxDma.active

\* What the display has got is in order.
InOrder ==
  \A i \in 1..Len(received) :
    /\ received[i].unit.kind = "unit"
    /\ received[i].dc = (received[i].unit.nr > 0)
    /\ received[i].unit.of \in 1..At
    /\ IF i = 1 THEN received[i].unit = Unit(1, 0)
                ELSE Follows(received[i - 1].unit, received[i].unit)

Sequences == Fifo /\ LastReceived /\ InOrder

PolledInv ==
  /\ Kinds /\ HasTask /\ Phases /\ Transfer /\ Idle
  /\ IF pc = "gone" THEN ~ta /\ InOrder ELSE Sequences

-----------------------------------------------------------------------------
(* Lemmas: a task fits, the units have their numbers *)

\* What the assumption on the memory of dma.cpp gives for one task.
LEMMA KindsFit ==
  ASSUME NEW t \in TaskKinds
  PROVE  t \in [dma : BOOLEAN, size : Nat] /\ TaskFits(t)
<1>1. /\ t \in [dma : BOOLEAN, size : Nat] /\ t.size \in Nat /\ MaxChunk \in Nat \ {0}
      /\ SourceSize \in Nat /\ NumCbs \in Nat
  BY TransferAssumption
<1>2. ASSUME t.size > 0 PROVE MostChunks(t.size) \in Nat \ {0}
  <2>1. t.size + MaxChunk - 1 \in Nat /\ t.size + MaxChunk - 1 >= MaxChunk
    BY <1>1, <1>2
  <2>2. \A a \in Nat, b \in Nat \ {0} : a >= b => a \div b \in Nat \ {0}
    <3>1. ASSUME NEW a \in Nat, NEW b \in Nat \ {0}, a >= b PROVE a \div b \in Nat \ {0}
      BY <3>1, Z3
    <3> QED BY <3>1
  <2> QED BY <1>1, <2>1, <2>2 DEF MostChunks
<1>3. SourceUnits(MostChunks(t.size), t.size) < SourceSize /\ NumCbsFor(MostChunks(t.size)) < NumCbs
  BY TransferAssumption
<1>4. ASSUME t.size > 0 PROVE t.size + 1 < SourceSize /\ 2 < NumCbs
  <2>1. PICK n \in Nat \ {0} : n = MostChunks(t.size)
    BY <1>2, <1>4
  <2> QED BY <1>1, <1>3, <2>1 DEF SourceUnits, NumCbsFor
<1> QED BY <1>1, <1>4 DEF TaskFits

\* The unit written last is one of a task that was committed.
LEMMA AtNr ==
  ASSUME Kinds, HasTask, Transfer
  PROVE  /\ At \in 0..Len(tasks) /\ Nr \in Nat /\ done \in Nat /\ Len(tasks) \in Nat
         /\ \A n \in 1..Len(tasks) : tasks[n] \in [dma : BOOLEAN, size : Nat] /\ tasks[n].size \in Nat
<1>1. /\ Len(tasks) \in Nat /\ done \in Nat /\ done <= Len(tasks) /\ sent \in Nat
      /\ \A n \in 1..Len(tasks) : tasks[n] \in [dma : BOOLEAN, size : Nat] /\ tasks[n].size \in Nat
  <2>1. /\ tasks \in Seq([dma : BOOLEAN, size : Nat]) /\ done \in 0..Len(tasks) /\ sent \in Nat
        /\ Len(tasks) \in Nat
    BY DEF Kinds
  <2>2. ASSUME NEW n \in 1..Len(tasks) PROVE tasks[n] \in [dma : BOOLEAN, size : Nat]
    BY <2>1, <2>2, ElementOfSeq, Zenon
  <2> QED BY <2>1, <2>2
<1>2. At \in 0..Len(tasks)
  BY <1>1 DEF At, HasTask
<1>3. Nr \in Nat
  BY <1>1, <1>2 DEF Nr, Moved, Transfer, TxChannel
<1> QED BY <1>1, <1>2, <1>3

-----------------------------------------------------------------------------
(* Lemmas: what a step does to the units *)

\* What the display has got stays in order, as long as its tasks stay where they are.
LEMMA InOrderKept ==
  ASSUME Kinds, InOrder, At \in Nat, At' \in Nat, At <= At', received' = received,
         \A n \in 1..At : tasks'[n] = tasks[n]
  PROVE  InOrder'
<1> SUFFICES ASSUME NEW i \in 1..Len(received)
             PROVE  /\ received[i].unit.kind = "unit"
                    /\ received[i].dc = (received[i].unit.nr > 0)
                    /\ received[i].unit.of \in 1..At'
                    /\ i = 1 => received[i].unit = Unit(1, 0)
                    /\ i # 1 => Follows(received[i - 1].unit, received[i].unit)'
  BY DEF InOrder, Unit, Follows
<1>1. /\ received[i].unit.kind = "unit"
      /\ received[i].dc = (received[i].unit.nr > 0)
      /\ received[i].unit.of \in 1..At
      /\ i = 1 => received[i].unit = Unit(1, 0)
      /\ i # 1 => Follows(received[i - 1].unit, received[i].unit)
  BY DEF InOrder
<1>2. received[i].unit.of \in 1..At'
  BY <1>1
<1>3. ASSUME i # 1 PROVE Follows(received[i - 1].unit, received[i].unit)'
  <2>1. i - 1 \in 1..Len(received) BY <1>3 DEF Kinds
  <2>2. received[i - 1].unit.of \in 1..At BY <2>1 DEF InOrder
  <2>3. tasks'[received[i - 1].unit.of] = tasks[received[i - 1].unit.of] BY <2>2
  <2> QED BY <1>1, <1>3, <2>3 DEF Follows
<1> QED BY <1>1, <1>2, <1>3

\* The FIFO and the display are left alone, and so is the unit written last.
LEMMA SameUnits ==
  ASSUME Kinds, HasTask, Transfer, Sequences, tx' = tx, received' = received,
         At' = At, Nr' = Nr, \A n \in 1..At : tasks'[n] = tasks[n],
         pc' = "clocked" \/ ~(pc = "clocked" /\ Len(tx) > Nr)
  PROVE  Sequences'
<1>1. /\ At \in 0..Len(tasks) /\ Nr \in Nat /\ Len(tx) \in Nat
      /\ At = 0 \/ At \in 1..At
      /\ At - 1 = 0 \/ At - 1 \in 1..At \/ At = 0
  BY AtNr DEF Kinds
<1>2. Fifo'
  BY <1>1 DEF Fifo, Sequences, Unit
<1>3. LastReceived'
  BY <1>1 DEF LastReceived, Sequences, Unit
<1>4. InOrder'
  <2>1. At \in Nat /\ At' \in Nat /\ At <= At' /\ InOrder BY <1>1 DEF Sequences
  <2> QED BY <2>1, InOrderKept
<1> QED BY <1>2, <1>3, <1>4 DEF Sequences

\* The next unit of the task is written.
LEMMA OneMore ==
  ASSUME Kinds, HasTask, Transfer, Sequences, At > 0, Len(tx) <= Nr,
         tx' = Append(tx, Unit(At, Nr + 1)), received' = received,
         At' = At, Nr' = Nr + 1, \A n \in 1..At : tasks'[n] = tasks[n]
  PROVE  Sequences' /\ tx' \in Seq(Units) /\ Len(tx') = Len(tx) + 1
<1>1. At \in 0..Len(tasks) /\ Nr \in Nat /\ Len(tx) \in Nat /\ At \in Nat /\ tx \in Seq(Units)
  BY AtNr DEF Kinds
<1>2. Unit(At, Nr + 1) \in Units
  BY <1>1 DEF Unit, Units
<1>3. /\ tx' \in Seq(Units) /\ Len(tx') = Len(tx) + 1
      /\ \A i \in 1..Len(tx) : tx'[i] = tx[i]
      /\ tx'[Len(tx) + 1] = Unit(At, Nr + 1)
  BY <1>1, <1>2
<1>4. Fifo'
  <2>1. ASSUME NEW i \in 1..Len(tx') PROVE tx'[i] = Unit(At', Nr' - Len(tx') + i)
    <3>1. CASE i = Len(tx) + 1
      BY <1>1, <1>3, <3>1
    <3>2. CASE i \in 1..Len(tx)
      <4>1. tx[i] = Unit(At, Nr - Len(tx) + i) BY <3>2 DEF Sequences, Fifo
      <4>2. Nr' - Len(tx') + i = Nr - Len(tx) + i BY <1>1, <1>3, <3>2
      <4> QED BY <1>3, <3>2, <4>1, <4>2
    <3> QED BY <1>1, <1>3, <3>1, <3>2
  <2>2. Len(tx') <= Nr' BY <1>1, <1>3
  <2> QED BY <2>1, <2>2 DEF Fifo
<1>5. LastReceived'
  <2>1. Nr' - Len(tx') = Nr - Len(tx) /\ Len(tx') <= Nr' BY <1>1, <1>3
  <2> QED BY <1>1, <2>1 DEF LastReceived, Sequences, Unit
<1>6. InOrder'
  <2>1. At \in Nat /\ At' \in Nat /\ At <= At' /\ InOrder BY <1>1 DEF Sequences
  <2> QED BY <2>1, InOrderKept
<1> QED BY <1>3, <1>4, <1>5, <1>6 DEF Sequences

\* The command of the next task is written to the empty FIFO.
LEMMA NextTask ==
  ASSUME Kinds, HasTask, Transfer, Sequences, pc' = "clocked", tx = <<>>,
         tx' = Append(tx, Unit(At + 1, 0)), received' = received,
         At' = At + 1, Nr' = 0, Nr = IF At = 0 THEN 0 ELSE tasks[At].size, tasks' = tasks
  PROVE  Sequences' /\ tx' \in Seq(Units) /\ Len(tx') = 1
<1>1. At \in 0..Len(tasks) /\ Nr \in Nat /\ At \in Nat /\ tx \in Seq(Units) /\ Len(tx) = 0
  BY AtNr DEF Kinds
<1>2. Unit(At + 1, 0) \in Units
  BY <1>1 DEF Unit, Units
<1>3. tx' \in Seq(Units) /\ Len(tx') = 1 /\ tx'[1] = Unit(At + 1, 0)
  BY <1>1, <1>2
<1>4. Fifo'
  BY <1>1, <1>3 DEF Fifo
<1>5. LastReceived'
  BY <1>1, <1>3 DEF LastReceived, Sequences
<1>6. InOrder'
  <2>1. At \in Nat /\ At' \in Nat /\ At <= At' /\ InOrder BY <1>1 DEF Sequences
  <2> QED BY <2>1, InOrderKept
<1> QED BY <1>3, <1>4, <1>5, <1>6 DEF Sequences

\* The display gets the unit at the head of the FIFO: the one that comes next.
LEMMA ClockOut ==
  ASSUME Kinds, HasTask, Transfer, Phases, Sequences, tx # <<>>, pc' = pc, tasks' = tasks,
         tx' = Tail(tx), received' = Append(received, [unit |-> Head(tx), dc |-> dc]),
         At' = At, Nr' = Nr
  PROVE  /\ Sequences' /\ tx' \in Seq(Units) /\ Len(tx') = Len(tx) - 1
         /\ received' \in Seq([unit : Units, dc : BOOLEAN])
<1> DEFINE last == Len(received)
           r == [unit |-> Head(tx), dc |-> dc]
<1>1. /\ At \in 0..Len(tasks) /\ Nr \in Nat /\ At \in Nat /\ tx \in Seq(Units)
      /\ Len(tx) \in Nat \ {0} /\ last \in Nat
      /\ received \in Seq([unit : Units, dc : BOOLEAN]) /\ dc \in BOOLEAN
  BY AtNr, EmptySeq DEF Kinds
<1>2. /\ tx' \in Seq(Units) /\ Len(tx') = Len(tx) - 1 /\ \A i \in 1..Len(tx') : tx'[i] = tx[i + 1]
  BY <1>1, HeadTailProperties
<1>3. Head(tx) = tx[1] /\ tx[1] \in Units /\ tx[1] = Unit(At, Nr - Len(tx) + 1)
  <2>1. Head(tx) = tx[1] BY <1>1
  <2>2. 1 \in 1..Len(tx) BY <1>1
  <2>3. tx[1] \in Units BY <1>1, <2>2, ElementOfSeq
  <2> QED BY <2>1, <2>2, <2>3 DEF Sequences, Fifo
<1>4. r \in [unit : Units, dc : BOOLEAN]
  BY <1>1, <1>3
<1>5. /\ received' \in Seq([unit : Units, dc : BOOLEAN]) /\ Len(received') = last + 1
      /\ \A i \in 1..last : received'[i] = received[i]
      /\ received'[last + 1] = r
  BY <1>1, <1>4
<1>6. /\ Len(tx) <= Nr \/ (pc = "clocked" /\ Len(tx) = 1 /\ Nr = 0)
      /\ pc = "clocked" => Nr = 0 /\ At > 0
      /\ At = 0 => Nr = 0
      /\ pc # "command"
  <2>1. Len(tx) <= Nr \/ (pc = "clocked" /\ Len(tx) = 1) BY DEF Sequences, Fifo
  <2>2. pc = "clocked" => Nr = 0 BY DEF Nr
  <2>3. pc = "clocked" => At = done + 1 /\ done \in Nat BY DEF At, Writing, Kinds
  <2>4. At = 0 => Nr = 0
    <3>1. ASSUME At = 0 PROVE ~Writing
      BY <3>1 DEF At, Kinds
    <3>2. ASSUME At = 0, ~Writing PROVE Nr = 0
      BY <3>2 DEF Nr, Writing
    <3> QED BY <3>1, <3>2
  <2>5. pc # "command" BY DEF Phases
  <2> QED BY <1>1, <2>1, <2>2, <2>3, <2>4, <2>5
<1>7. At > 0
  BY <1>1, <1>6
<1>8. Fifo'
  <2>1. ASSUME NEW i \in 1..Len(tx') PROVE tx'[i] = Unit(At', Nr' - Len(tx') + i)
    <3>1. i + 1 \in 1..Len(tx) BY <1>1, <1>2
    <3>2. tx[i + 1] = Unit(At, Nr - Len(tx) + (i + 1)) BY <3>1 DEF Sequences, Fifo
    <3>3. Nr' - Len(tx') + i = Nr - Len(tx) + (i + 1) BY <1>1, <1>2
    <3> QED BY <1>2, <3>2, <3>3
  <2>2. Len(tx') <= Nr' BY <1>1, <1>2, <1>6
  <2> QED BY <2>1, <2>2 DEF Fifo
<1>9. LastReceived'
  <2>1. Nr' - Len(tx') = Nr - Len(tx) + 1 /\ Len(tx') <= Nr'
    <3>1. PICK n \in Nat, k \in Nat \ {0} : n = Nr /\ k = Len(tx) BY <1>1
    <3>2. Nr' = n /\ Len(tx') = k - 1 BY <1>2, <3>1
    <3>3. k <= n \/ (k = 1 /\ n = 0) BY <1>6, <3>1
    <3>4. k - 1 <= n BY <3>3
    <3> QED BY <3>1, <3>2, <3>4
  <2>2. received'[Len(received')].unit = Unit(At', Nr' - Len(tx')) BY <1>3, <1>5, <2>1
  <2> QED BY <1>1, <1>5, <1>7, <2>1, <2>2 DEF LastReceived
<1>10. InOrder'
  <2>1. r.unit = Unit(At, Nr - Len(tx) + 1) /\ r.dc = dc BY <1>3
  <2>2. r.unit.kind = "unit" /\ r.unit.of = At /\ r.unit.nr = Nr - Len(tx) + 1
    BY <2>1 DEF Unit
  <2>3. dc = (Nr - Len(tx) + 1 > 0)
    BY <1>1, <1>6 DEF Phases
  <2>4. IF last = 0 THEN r.unit = Unit(1, 0) ELSE Follows(received[last].unit, r.unit)
    <3>1. CASE Len(tx) <= Nr
      <4>1. last > 0 /\ received[last].unit = Unit(At, Nr - Len(tx))
        BY <1>7, <3>1 DEF Sequences, LastReceived
      <4> QED BY <1>1, <2>2, <4>1 DEF Follows, Unit
    <3>2. CASE Len(tx) = 1 /\ Nr = 0 /\ At = 1
      <4>1. received = <<>> BY <3>2 DEF Sequences, LastReceived
      <4>2. last = 0 BY <4>1
      <4>3. r.unit = Unit(1, 0) BY <2>1, <3>2
      <4> QED BY <4>2, <4>3
    <3>3. CASE Len(tx) = 1 /\ Nr = 0 /\ At > 1
      <4>1. last > 0 /\ received[last].unit = Unit(At - 1, tasks[At - 1].size)
        <5>1. At > 0 /\ At # 1 /\ Len(tx) > Nr BY <1>1, <3>3
        <5> QED BY <5>1 DEF Sequences, LastReceived
      <4> QED BY <1>1, <2>2, <3>3, <4>1 DEF Follows, Unit
    <3> QED BY <1>1, <1>6, <1>7, <3>1, <3>2, <3>3
  <2>5. \A q, u : Follows(q, u)' = Follows(q, u)
    BY DEF Follows
  <2>6. ASSUME NEW i \in 1..Len(received')
        PROVE  /\ received'[i].unit.kind = "unit"
               /\ received'[i].dc = (received'[i].unit.nr > 0)
               /\ received'[i].unit.of \in 1..At'
               /\ i = 1 => received'[i].unit = Unit(1, 0)
               /\ i # 1 => Follows(received'[i - 1].unit, received'[i].unit)
    <3>1. CASE i = last + 1
      <4>1. received'[i] = r BY <1>5, <3>1
      <4>2. i = 1 <=> last = 0 BY <1>1, <3>1
      <4>3. i # 1 => i - 1 = last /\ last \in 1..last BY <1>1, <3>1
      <4>4. i # 1 => received'[i - 1] = received[last] BY <1>5, <4>3
      <4>5. i = 1 => r.unit = Unit(1, 0) BY <2>4, <4>2
      <4>6. i # 1 => Follows(received[last].unit, r.unit) BY <2>4, <4>2
      <4>7. r.unit.of \in 1..At' BY <1>1, <1>7, <2>2
      <4>8. r.dc = (r.unit.nr > 0) BY <2>1, <2>2, <2>3
      <4> QED BY <2>2, <4>1, <4>4, <4>5, <4>6, <4>7, <4>8
    <3>2. CASE i \in 1..last
      <4>1. received'[i] = received[i] BY <1>5, <3>2
      <4>2. i # 1 => i - 1 \in 1..last BY <1>1, <3>2
      <4>3. i # 1 => received'[i - 1] = received[i - 1] BY <1>5, <4>2
      <4> QED BY <3>2, <4>1, <4>3 DEF Sequences, InOrder
    <3> QED BY <1>1, <1>5, <3>1, <3>2
  <2>7. ASSUME NEW i \in 1..Len(received'), i # 1
        PROVE  Follows(received[i - 1].unit, received[i].unit)'
    BY <2>6, <2>7 DEF Follows
  <2> QED BY <2>6, <2>7 DEF InOrder, Unit
<1> QED BY <1>2, <1>5, <1>8, <1>9, <1>10 DEF Sequences

-----------------------------------------------------------------------------
(* The steps *)

Alive == pc # "gone" /\ Kinds /\ HasTask /\ Phases /\ Transfer /\ Idle /\ Sequences

LEMMA AliveTypes ==
  ASSUME Alive
  PROVE  /\ At \in Nat /\ At <= Len(tasks) /\ Nr \in Nat /\ done \in Nat /\ Len(tasks) \in Nat
         /\ \A n \in 1..Len(tasks) : tasks[n] \in [dma : BOOLEAN, size : Nat] /\ tasks[n].size \in Nat
         /\ done < Len(tasks) => task.size \in Nat
         /\ Len(tx) \in Nat /\ (tx = <<>> <=> Len(tx) = 0) /\ rx \in Nat
         /\ FifoSize \in Nat /\ FifoSize > 1 /\ DmaIsFaster \in Nat
<1>1. Kinds /\ HasTask /\ Transfer
  BY DEF Alive
<1>2. /\ At \in 0..Len(tasks) /\ Nr \in Nat /\ done \in Nat /\ Len(tasks) \in Nat
      /\ \A n \in 1..Len(tasks) : tasks[n] \in [dma : BOOLEAN, size : Nat] /\ tasks[n].size \in Nat
  BY <1>1, AtNr
<1>3. Len(tx) \in Nat /\ (tx = <<>> <=> Len(tx) = 0)
  BY <1>1, EmptySeq DEF Kinds
<1>4. FifoSize \in Nat /\ FifoSize > 1 /\ rx \in Nat /\ DmaIsFaster \in Nat
  BY <1>1, TransferAssumption DEF Kinds
<1>5. done < Len(tasks) => task.size \in Nat
  BY <1>2 DEF task
<1> QED BY <1>2, <1>3, <1>4, <1>5

\* A signal.
LEMMA QuitStep ==
  ASSUME Alive, Quit
  PROVE  Alive'
<1> USE DEF Alive, Quit, config, queue, driver, memory, spi, dma
<1>1. Kinds'
  <2>1. running' \in BOOLEAN /\ ~running' OBVIOUS
  <2>2. UNCHANGED <<build, chipSelect, exiting, tasks, done, pc, ret, sent, previousTaskWasSPI,
                    dmaSourceEnd, firstFreeCB, cbs0, ta, dmaen, tx, rx, dc, mem, cb, received>>
    OBVIOUS
  <2> HIDE DEF Quit
  <2> QED BY <2>1, <2>2 DEF Kinds
<1>2. HasTask'
  BY DEF Kinds, HasTask, At, Writing, Transferring, task
<1>3. At' = At /\ Nr' = Nr
  BY DEF Kinds, HasTask, Transfer, TxChannel, At, Nr, Writing, Transferring, Moved, task
<1>4. tx' = tx /\ received' = received /\ tasks' = tasks
      /\ (pc' = "clocked" \/ ~(pc = "clocked" /\ Len(tx) > Nr))
  BY DEF Phases, Transfer
<1>5. Sequences'
  BY <1>3, <1>4, SameUnits
<1>6. Phases'
  BY DEF Kinds, HasTask, Phases, At, Writing, Transferring, task, Batches, DONE, RXD
<1>7. Transfer'
  BY DEF Kinds, HasTask, Phases, Transfer, Transferring, Prepared, TxChannel, RxChannel, Moved, task
<1>8. Idle'
  BY DEF Kinds, HasTask, Idle, Transferring
<1> QED BY <1>1, <1>2, <1>5, <1>6, <1>7, <1>8

\* The program runs the task it committed.
LEMMA RunCommittedStep ==
  ASSUME Alive, RunCommitted
  PROVE  Alive'
<1> USE DEF Alive, RunCommitted, config, queue, driver, memory, spi, dma
<1>1. Kinds'
  BY DEF Kinds
<1>2. HasTask'
  BY DEF Kinds, HasTask, At, Writing, Transferring, task
<1>3. At' = At /\ Nr' = Nr
  BY DEF Kinds, HasTask, Transfer, TxChannel, At, Nr, Writing, Transferring, Moved, task
<1>4. tx' = tx /\ received' = received /\ tasks' = tasks
      /\ (pc' = "clocked" \/ ~(pc = "clocked" /\ Len(tx) > Nr))
  BY DEF Phases, Transfer
<1>5. Sequences'
  BY <1>3, <1>4, SameUnits
<1>6. Phases'
  BY DEF Kinds, HasTask, Phases, At, Writing, Transferring, task, Batches, DONE, RXD
<1>7. Transfer'
  BY DEF Kinds, HasTask, Phases, Transfer, Transferring, Prepared, TxChannel, RxChannel, Moved, task
<1>8. Idle'
  BY DEF Kinds, HasTask, Idle, Transferring
<1> QED BY <1>1, <1>2, <1>5, <1>6, <1>7, <1>8

\* A batch begins.
LEMMA BeginBatchStep ==
  ASSUME Alive, BeginBatch
  PROVE  Alive'
<1> USE DEF Alive, BeginBatch, WriteCs, Batches, Single, config, queue, driver, memory, spi, dma
<1>1. Kinds'
  BY DEF Kinds
<1>2. HasTask'
  BY DEF Kinds, HasTask, At, Writing, Transferring, task
<1>3. At' = At /\ Nr' = Nr
  BY DEF Kinds, HasTask, Transfer, TxChannel, At, Nr, Writing, Transferring, Moved, task
<1>4. tx' = tx /\ received' = received /\ tasks' = tasks
      /\ (pc' = "clocked" \/ ~(pc = "clocked" /\ Len(tx) > Nr))
  BY DEF Phases, Transfer
<1>5. Sequences'
  BY <1>3, <1>4, SameUnits
<1>6. Phases'
  BY DEF Kinds, HasTask, Phases, At, Writing, Transferring, task, Batches, DONE, RXD
<1>7. Transfer'
  BY DEF Kinds, HasTask, Phases, Transfer, Transferring, Prepared, TxChannel, RxChannel, Moved, task
<1>8. Idle'
  BY DEF Kinds, HasTask, Idle, Transferring
<1> QED BY <1>1, <1>2, <1>5, <1>6, <1>7, <1>8

\* The next task of the batch.
LEMMA FetchTaskStep ==
  ASSUME Alive, FetchTask
  PROVE  Alive'
<1> USE DEF Alive, FetchTask, MoreTasks, config, queue, driver, memory, spi, dma
<1>1. Kinds'
  BY DEF Kinds
<1>2. HasTask'
  BY DEF Kinds, HasTask, At, Writing, Transferring, task
<1>3. At' = At /\ Nr' = Nr
  BY DEF Kinds, HasTask, Transfer, TxChannel, At, Nr, Writing, Transferring, Moved, task
<1>4. tx' = tx /\ received' = received /\ tasks' = tasks
      /\ (pc' = "clocked" \/ ~(pc = "clocked" /\ Len(tx) > Nr))
  BY DEF Phases, Transfer
<1>5. Sequences'
  BY <1>3, <1>4, SameUnits
<1>6. Phases'
  BY DEF Kinds, HasTask, Phases, At, Writing, Transferring, task, Batches, DONE, RXD
<1>7. Transfer'
  BY DEF Kinds, HasTask, Phases, Transfer, Transferring, Prepared, TxChannel, RxChannel, Moved, task
<1>8. Idle'
  BY DEF Kinds, HasTask, Idle, Transferring
<1> QED BY <1>1, <1>2, <1>5, <1>6, <1>7, <1>8

\* The end of a batch, or of the program.
LEMMA EndBatchStep ==
  ASSUME Alive, EndBatch
  PROVE  Alive'
<1> USE DEF Alive, EndBatch, MoreTasks, Batches, Polled, config, queue, driver, memory, spi, dma
<1>1. Kinds'
  BY DEF Kinds
<1>2. HasTask'
  BY DEF Kinds, HasTask, At, Writing, Transferring, task
<1>3. At' = At /\ Nr' = Nr
  BY DEF Kinds, HasTask, Transfer, TxChannel, At, Nr, Writing, Transferring, Moved, task
<1>4. tx' = tx /\ received' = received /\ tasks' = tasks
      /\ (pc' = "clocked" \/ ~(pc = "clocked" /\ Len(tx) > Nr))
  BY DEF Phases, Transfer
<1>5. Sequences'
  BY <1>3, <1>4, SameUnits
<1>6. Phases'
  BY DEF Kinds, HasTask, Phases, At, Writing, Transferring, task, Batches, DONE, RXD
<1>7. Transfer'
  BY DEF Kinds, HasTask, Phases, Transfer, Transferring, Prepared, TxChannel, RxChannel, Moved, task
<1>8. Idle'
  BY DEF Kinds, HasTask, Idle, Transferring
<1> QED BY <1>1, <1>2, <1>5, <1>6, <1>7, <1>8

\* A task is begun.
LEMMA StartTaskStep ==
  ASSUME Alive, StartTask
  PROVE  Alive'
<1> USE DEF Alive, StartTask, SentByDma, config, queue, driver, memory, spi, dma
<1>1. Kinds'
  BY DEF Kinds
<1>2. HasTask'
  BY DEF Kinds, HasTask, At, Writing, Transferring, task
<1>3. At' = At /\ Nr' = Nr
  BY DEF Kinds, HasTask, Transfer, TxChannel, At, Nr, Writing, Transferring, Moved, task
<1>4. tx' = tx /\ received' = received /\ tasks' = tasks
      /\ (pc' = "clocked" \/ ~(pc = "clocked" /\ Len(tx) > Nr))
  BY DEF Phases, Transfer
<1>5. Sequences'
  BY <1>3, <1>4, SameUnits
<1>6. Phases'
  BY DEF Kinds, HasTask, Phases, At, Writing, Transferring, task, Batches, DONE, RXD
<1>7. Transfer'
  BY DEF Kinds, HasTask, Phases, Transfer, Transferring, Prepared, TxChannel, RxChannel, Moved, task
<1>8. Idle'
  BY DEF Kinds, HasTask, Idle, Transferring
<1> QED BY <1>1, <1>2, <1>5, <1>6, <1>7, <1>8

\* The RX FIFO is cleared while the driver waits for the transfer.
LEMMA FlushRxStep ==
  ASSUME Alive, FlushRx
  PROVE  Alive'
<1> USE DEF Alive, FlushRx, WriteCs, RXR, DONE, config, queue, driver, memory, spi, dma
<1>0. /\ At \in Nat /\ At <= Len(tasks) /\ Nr \in Nat /\ done \in Nat /\ Len(tasks) \in Nat
      /\ done < Len(tasks) => task.size \in Nat
      /\ Len(tx) \in Nat /\ (tx = <<>> <=> Len(tx) = 0) /\ rx \in Nat
      /\ FifoSize \in Nat /\ FifoSize > 1 /\ 0 \in 0..FifoSize /\ DmaIsFaster \in Nat
  BY AliveTypes
<1>1. tx' = tx /\ rx' = 0 /\ ta' = TRUE /\ dmaen' = FALSE
  BY <1>0 
<1>2. Kinds'
  <2>1. rx' \in 0..FifoSize /\ ta' \in BOOLEAN /\ dmaen' \in BOOLEAN
    BY <1>0, <1>1, Zenon
  <2> QED BY <1>0, <1>1, <2>1 DEF Kinds
<1>3. HasTask'
  BY <1>0, <1>1 DEF Kinds, HasTask, At, Writing, Transferring, task
<1>4. At' = At /\ Nr' = Nr
  BY <1>0, <1>1 DEF Kinds, HasTask, Transfer, TxChannel, At, Nr, Writing, Transferring, Moved, task
<1>5. tx' = tx /\ received' = received /\ tasks' = tasks
      /\ (pc' = "clocked" \/ ~(pc = "clocked" /\ Len(tx) > Nr))
  BY <1>0, <1>1 DEF Phases, Transfer
<1>6. Sequences'
  BY <1>4, <1>5, SameUnits
<1>7. Phases'
  BY <1>0, <1>1 DEF Kinds, HasTask, Phases, At, Writing, Transferring, task, Batches, DONE, RXD
<1>8. Transfer'
  BY <1>0, <1>1 DEF Kinds, HasTask, Phases, Transfer, Transferring, Prepared, TxChannel, RxChannel, Moved, task
<1>9. Idle'
  BY <1>0, <1>1 DEF Kinds, HasTask, Idle, Transferring
<1> QED BY <1>2, <1>3, <1>6, <1>7, <1>8, <1>9

\* The wait for the transfer of the last task is over.
LEMMA PolledFinishedStep ==
  ASSUME Alive, PolledFinished
  PROVE  Alive'
<1> USE DEF Alive, PolledFinished, WriteCs, RXD, DONE, SentByDma, config, queue, driver, memory, spi, dma
<1>0. /\ At \in Nat /\ At <= Len(tasks) /\ Nr \in Nat /\ done \in Nat /\ Len(tasks) \in Nat
      /\ done < Len(tasks) => task.size \in Nat
      /\ Len(tx) \in Nat /\ (tx = <<>> <=> Len(tx) = 0) /\ rx \in Nat
      /\ FifoSize \in Nat /\ FifoSize > 1 /\ 0 \in 0..FifoSize /\ DmaIsFaster \in Nat
  BY AliveTypes
<1>1. tx' = tx /\ rx' = 0 /\ ta' \in BOOLEAN /\ dmaen' \in BOOLEAN
  <2>1. CASE RXD
    BY <2>1 DEF Kinds
  <2>2. CASE ~RXD
    <3>1. rx = 0
      BY <1>0, <2>2
    <3> QED BY <2>2, <3>1 DEF Kinds
  <2> QED BY <2>1, <2>2
<1>2. Kinds'
  BY <1>0, <1>1 DEF Kinds
<1>3. HasTask'
  BY <1>0, <1>1 DEF Kinds, HasTask, At, Writing, Transferring, task
<1>4. At' = At /\ Nr' = Nr
  BY <1>0, <1>1 DEF Kinds, HasTask, Transfer, TxChannel, At, Nr, Writing, Transferring, Moved, task
<1>5. tx' = tx /\ received' = received /\ tasks' = tasks
      /\ (pc' = "clocked" \/ ~(pc = "clocked" /\ Len(tx) > Nr))
  BY <1>0, <1>1 DEF Phases, Transfer
<1>6. Sequences'
  BY <1>4, <1>5, SameUnits
<1>7. Phases'
  BY <1>0, <1>1 DEF Kinds, HasTask, Phases, At, Writing, Transferring, task, Batches, DONE, RXD
<1>8. Transfer'
  BY <1>0, <1>1 DEF Kinds, HasTask, Phases, Transfer, Transferring, Prepared, TxChannel, RxChannel, Moved, task
<1>9. Idle'
  BY <1>0, <1>1 DEF Kinds, HasTask, Idle, Transferring
<1> QED BY <1>2, <1>3, <1>6, <1>7, <1>8, <1>9

\* The transfer of a task is begun.
LEMMA SelectStep ==
  ASSUME Alive, Select
  PROVE  Alive'
<1> USE DEF Alive, Select, WriteCs, config, queue, driver, memory, spi, dma
<1>1. Kinds'
  BY DEF Kinds
<1>2. HasTask'
  BY DEF Kinds, HasTask, At, Writing, Transferring, task
<1>3. At' = At /\ Nr' = Nr
  BY DEF Kinds, HasTask, Transfer, TxChannel, At, Nr, Writing, Transferring, Moved, task
<1>4. tx' = tx /\ received' = received /\ tasks' = tasks
      /\ (pc' = "clocked" \/ ~(pc = "clocked" /\ Len(tx) > Nr))
  BY DEF Phases, Transfer
<1>5. Sequences'
  BY <1>3, <1>4, SameUnits
<1>6. Phases'
  BY DEF Kinds, HasTask, Phases, At, Writing, Transferring, task, Batches, DONE, RXD
<1>7. Transfer'
  BY DEF Kinds, HasTask, Phases, Transfer, Transferring, Prepared, TxChannel, RxChannel, Moved, task
<1>8. Idle'
  BY DEF Kinds, HasTask, Idle, Transferring
<1> QED BY <1>1, <1>2, <1>5, <1>6, <1>7, <1>8

\* The line falls for the command.
LEMMA DcLowStep ==
  ASSUME Alive, DcLow
  PROVE  Alive'
<1> USE DEF Alive, DcLow, config, queue, driver, memory, spi, dma
<1>1. Kinds'
  BY DEF Kinds
<1>2. HasTask'
  BY DEF Kinds, HasTask, At, Writing, Transferring, task
<1>3. At' = At /\ Nr' = Nr
  BY DEF Kinds, HasTask, Transfer, TxChannel, At, Nr, Writing, Transferring, Moved, task
<1>4. tx' = tx /\ received' = received /\ tasks' = tasks
      /\ (pc' = "clocked" \/ ~(pc = "clocked" /\ Len(tx) > Nr))
  BY DEF Phases, Transfer
<1>5. Sequences'
  BY <1>3, <1>4, SameUnits
<1>6. Phases'
  BY DEF Kinds, HasTask, Phases, At, Writing, Transferring, task, Batches, DONE, RXD
<1>7. Transfer'
  BY DEF Kinds, HasTask, Phases, Transfer, Transferring, Prepared, TxChannel, RxChannel, Moved, task
<1>8. Idle'
  BY DEF Kinds, HasTask, Idle, Transferring
<1> QED BY <1>1, <1>2, <1>5, <1>6, <1>7, <1>8

\* The line rises for the payload.
LEMMA DcHighStep ==
  ASSUME Alive, DcHigh
  PROVE  Alive'
<1> USE DEF Alive, DcHigh, RXD, DONE, SentByDma, config, queue, driver, memory, spi, dma
<1>0. /\ At \in Nat /\ At <= Len(tasks) /\ Nr \in Nat /\ done \in Nat /\ Len(tasks) \in Nat
      /\ done < Len(tasks) => task.size \in Nat
      /\ Len(tx) \in Nat /\ (tx = <<>> <=> Len(tx) = 0) /\ rx \in Nat
      /\ FifoSize \in Nat /\ FifoSize > 1 /\ 0 \in 0..FifoSize /\ DmaIsFaster \in Nat
  BY AliveTypes
<1>1. /\ tx = <<>> /\ ta /\ done < Len(tasks) /\ sent = 0
      /\ pc' = "prefill" \/ (pc' = "startDma" /\ build = "thread_dma" /\ task.size > 0)
  BY <1>0 DEF Kinds, HasTask, Phases, Writing
<1>2. Kinds'
  BY <1>0, <1>1 DEF Kinds
<1>3. HasTask'
  BY <1>0, <1>1 DEF Kinds, HasTask, At, Writing, Transferring, task
<1>4. At' = At /\ Nr' = Nr
  BY <1>0, <1>1 DEF Kinds, HasTask, Transfer, TxChannel, At, Nr, Writing, Transferring, Moved, task, Phases
<1>5. tx' = tx /\ received' = received /\ tasks' = tasks
      /\ (pc' = "clocked" \/ ~(pc = "clocked" /\ Len(tx) > Nr))
  BY <1>0, <1>1 DEF Phases, Transfer
<1>6. Sequences'
  BY <1>4, <1>5, SameUnits
<1>7. Phases'
  BY <1>0, <1>1 DEF Kinds, HasTask, Phases, At, Writing, Transferring, task, Batches, DONE, RXD
<1>8. Transfer'
  BY <1>0, <1>1 DEF Kinds, HasTask, Phases, Transfer, Transferring, Prepared, TxChannel, RxChannel, Moved, task
<1>9. Idle'
  BY <1>0, <1>1 DEF Kinds, HasTask, Idle, Transferring
<1> QED BY <1>2, <1>3, <1>6, <1>7, <1>8, <1>9

\* All of the payload is written.
LEMMA EndPushStep ==
  ASSUME Alive, EndPush
  PROVE  Alive'
<1> USE DEF Alive, EndPush, config, queue, driver, memory, spi, dma
<1>0. /\ At \in Nat /\ At <= Len(tasks) /\ Nr \in Nat /\ done \in Nat /\ Len(tasks) \in Nat
      /\ done < Len(tasks) => task.size \in Nat
      /\ Len(tx) \in Nat /\ (tx = <<>> <=> Len(tx) = 0) /\ rx \in Nat
      /\ FifoSize \in Nat /\ FifoSize > 1 /\ 0 \in 0..FifoSize /\ DmaIsFaster \in Nat
  BY AliveTypes
<1>1. Kinds'
  BY <1>0 DEF Kinds
<1>2. HasTask'
  BY <1>0 DEF Kinds, HasTask, At, Writing, Transferring, task
<1>3. At' = At /\ Nr' = Nr
  BY <1>0 DEF Kinds, HasTask, Transfer, TxChannel, At, Nr, Writing, Transferring, Moved, task
<1>4. tx' = tx /\ received' = received /\ tasks' = tasks
      /\ (pc' = "clocked" \/ ~(pc = "clocked" /\ Len(tx) > Nr))
  BY <1>0 DEF Phases, Transfer
<1>5. Sequences'
  BY <1>3, <1>4, SameUnits
<1>6. Phases'
  BY <1>0 DEF Kinds, HasTask, Phases, At, Writing, Transferring, task, Batches, DONE, RXD
<1>7. Transfer'
  BY <1>0 DEF Kinds, HasTask, Phases, Transfer, Transferring, Prepared, TxChannel, RxChannel, Moved, task
<1>8. Idle'
  BY <1>0 DEF Kinds, HasTask, Idle, Transferring
<1> QED BY <1>1, <1>2, <1>5, <1>6, <1>7, <1>8

\* The transfer of a task, or of a batch, is ended.
LEMMA EndCommunicationStep ==
  ASSUME Alive, EndCommunication
  PROVE  Alive'
<1> USE DEF Alive, EndCommunication, WriteCs, DONE, config, queue, driver, memory, spi, dma
<1>0. /\ At \in Nat /\ At <= Len(tasks) /\ Nr \in Nat /\ done \in Nat /\ Len(tasks) \in Nat
      /\ done < Len(tasks) => task.size \in Nat
      /\ Len(tx) \in Nat /\ (tx = <<>> <=> Len(tx) = 0) /\ rx \in Nat
      /\ FifoSize \in Nat /\ FifoSize > 1 /\ 0 \in 0..FifoSize /\ DmaIsFaster \in Nat
  BY AliveTypes
<1>1. tx' = tx /\ rx' = 0 /\ ta' = FALSE /\ dmaen' = FALSE
  BY <1>0 
<1>2. Kinds'
  <2>1. rx' \in 0..FifoSize /\ ta' \in BOOLEAN /\ dmaen' \in BOOLEAN
    BY <1>0, <1>1, Zenon
  <2> QED BY <1>0, <1>1, <2>1 DEF Kinds
<1>3. HasTask'
  BY <1>0, <1>1 DEF Kinds, HasTask, At, Writing, Transferring, task
<1>4. At' = At /\ Nr' = Nr
  BY <1>0, <1>1 DEF Kinds, HasTask, Transfer, TxChannel, At, Nr, Writing, Transferring, Moved, task
<1>5. tx' = tx /\ received' = received /\ tasks' = tasks
      /\ (pc' = "clocked" \/ ~(pc = "clocked" /\ Len(tx) > Nr))
  BY <1>0, <1>1 DEF Phases, Transfer
<1>6. Sequences'
  BY <1>4, <1>5, SameUnits
<1>7. Phases'
  BY <1>0, <1>1 DEF Kinds, HasTask, Phases, At, Writing, Transferring, task, Batches, DONE, RXD
<1>8. Transfer'
  BY <1>0, <1>1 DEF Kinds, HasTask, Phases, Transfer, Transferring, Prepared, TxChannel, RxChannel, Moved, task
<1>9. Idle'
  BY <1>0, <1>1 DEF Kinds, HasTask, Idle, Transferring
<1> QED BY <1>2, <1>3, <1>6, <1>7, <1>8, <1>9

\* A task is done.
LEMMA DoneTaskStep ==
  ASSUME Alive, DoneTask
  PROVE  Alive'
<1> USE DEF Alive, DoneTask, config, queue, driver, memory, spi, dma
<1>0. /\ At \in Nat /\ At <= Len(tasks) /\ Nr \in Nat /\ done \in Nat /\ Len(tasks) \in Nat
      /\ done < Len(tasks) => task.size \in Nat
      /\ Len(tx) \in Nat /\ (tx = <<>> <=> Len(tx) = 0) /\ rx \in Nat
      /\ FifoSize \in Nat /\ FifoSize > 1 /\ 0 \in 0..FifoSize /\ DmaIsFaster \in Nat
  BY AliveTypes
<1>1. Kinds'
  BY <1>0 DEF Kinds, HasTask, Writing
<1>2. HasTask'
  BY <1>0 DEF Kinds, HasTask, At, Writing, Transferring, task
<1>3. At' = At /\ Nr' = Nr
  BY <1>0 DEF Kinds, HasTask, Transfer, TxChannel, At, Nr, Writing, Transferring, Moved, task
<1>4. tx' = tx /\ received' = received /\ tasks' = tasks
      /\ (pc' = "clocked" \/ ~(pc = "clocked" /\ Len(tx) > Nr))
  BY <1>0 DEF Phases, Transfer
<1>5. Sequences'
  BY <1>3, <1>4, SameUnits
<1>6. Phases'
  BY <1>0 DEF Kinds, HasTask, Phases, At, Writing, Transferring, task, Batches, DONE, RXD
<1>7. Transfer'
  BY <1>0 DEF Kinds, HasTask, Phases, Transfer, Transferring, Prepared, TxChannel, RxChannel, Moved, task
<1>8. Idle'
  BY <1>0 DEF Kinds, HasTask, Idle, Transferring
<1> QED BY <1>1, <1>2, <1>5, <1>6, <1>7, <1>8

\* The TX channel has finished.
LEMMA FinishTxStep ==
  ASSUME Alive, FinishTx
  PROVE  Alive'
<1> USE DEF Alive, FinishTx, StopsWaiting, config, queue, driver, memory, spi, dma
<1>0. /\ At \in Nat /\ At <= Len(tasks) /\ Nr \in Nat /\ done \in Nat /\ Len(tasks) \in Nat
      /\ done < Len(tasks) => task.size \in Nat
      /\ Len(tx) \in Nat /\ (tx = <<>> <=> Len(tx) = 0) /\ rx \in Nat
      /\ FifoSize \in Nat /\ FifoSize > 1 /\ 0 \in 0..FifoSize /\ DmaIsFaster \in Nat
  BY AliveTypes
<1>1. Kinds'
  BY <1>0 DEF Kinds
<1>2. HasTask'
  BY <1>0 DEF Kinds, HasTask, At, Writing, Transferring, task
<1>3. At' = At /\ Nr' = Nr
  BY <1>0 DEF Kinds, HasTask, Transfer, TxChannel, At, Nr, Writing, Transferring, Moved, task
<1>4. tx' = tx /\ received' = received /\ tasks' = tasks
      /\ (pc' = "clocked" \/ ~(pc = "clocked" /\ Len(tx) > Nr))
  BY <1>0 DEF Phases, Transfer
<1>5. Sequences'
  BY <1>3, <1>4, SameUnits
<1>6. Phases'
  BY <1>0 DEF Kinds, HasTask, Phases, At, Writing, Transferring, task, Batches, DONE, RXD
<1>7. Transfer'
  BY <1>0 DEF Kinds, HasTask, Phases, Transfer, Transferring, Prepared, TxChannel, RxChannel, Moved, task, Idle
<1>8. Idle'
  BY <1>0 DEF Kinds, HasTask, Idle, Transferring
<1> QED BY <1>1, <1>2, <1>5, <1>6, <1>7, <1>8

\* The RX channel has finished.
LEMMA FinishRxStep ==
  ASSUME Alive, FinishRx
  PROVE  Alive'
<1> USE DEF Alive, FinishRx, config, queue, driver, memory, spi, dma
<1>0. /\ At \in Nat /\ At <= Len(tasks) /\ Nr \in Nat /\ done \in Nat /\ Len(tasks) \in Nat
      /\ done < Len(tasks) => task.size \in Nat
      /\ Len(tx) \in Nat /\ (tx = <<>> <=> Len(tx) = 0) /\ rx \in Nat
  BY AliveTypes
<1>1. /\ pc' = ret /\ ret \in {"dmaDone", "deinit"} /\ ret # "asleep"
      /\ ret = "deinit" => exiting
  BY DEF Kinds
\* A thread in a transfer waits for the last unit.
<1>2. ASSUME ret = "dmaDone"
      PROVE  /\ Transferring /\ Writing /\ done < Len(tasks) /\ task.size \in Nat \ {0}
             /\ ~rxDma.active /\ ~txDma.active /\ rxDma.left = 0 /\ txDma.left = 0
             /\ Moved = task.size /\ tx = <<>> /\ rx = 0 /\ ta /\ build = "thread_dma"
  <2>1. Transferring /\ Writing /\ done < Len(tasks)
    BY <1>2 DEF Transferring, Writing, HasTask
  <2>2. ~rxDma.active /\ ~txDma.active
    BY <1>2, <2>1 DEF Transfer, TxChannel, RxChannel, StopsWaiting, Kinds
  <2>3. /\ task.size \in Nat /\ task.size > 0 /\ build = "thread_dma"
        /\ txDma.src \in Nat /\ txDma.left \in Nat /\ txDma.src + txDma.left = 1 + task.size
        /\ rxDma.left \in Nat /\ task.size - rxDma.left + rx + Len(tx) = Moved
        /\ (ta <=> txDma.src > 0)
    BY <1>0, <2>1 DEF Transfer, TxChannel, RxChannel
  <2>4. rxDma.left = 0 /\ txDma.left = 0
    BY <1>2, <2>1, <2>2, <2>3 DEF Transfer, TxChannel, RxChannel
  <2>5. Moved = task.size
    <3>1. txDma.src = 1 + task.size BY <2>3, <2>4
    <3> QED BY <2>3, <3>1 DEF Moved
  <2>6. rx = 0 /\ Len(tx) = 0
    BY <1>0, <2>3, <2>4, <2>5
  <2>7. ta
    <3>1. txDma.src > 0 BY <2>3, <2>4
    <3> QED BY <2>3, <3>1
  <2> QED BY <1>0, <2>1, <2>2, <2>3, <2>4, <2>5, <2>6, <2>7
<1>3. CASE ret = "deinit"
  <2> USE <1>1, <1>3
  <2>1. ~Transferring /\ ~Transferring' /\ ~Writing /\ ~Writing'
    BY DEF Transferring, Writing
  <2>2. Kinds' BY DEF Kinds
  <2>3. HasTask' BY <2>1 DEF HasTask
  <2>4. At' = At /\ Nr' = Nr BY <2>1 DEF At, Nr
  <2>5. Sequences' BY <1>0, <2>4, SameUnits
  <2>6. Phases' BY <2>1 DEF Phases, Batches
  <2>7. Transfer' BY <2>1 DEF Transfer, TxChannel, RxChannel
  <2>8. Idle' BY <2>1 DEF Idle
  <2> QED BY <2>2, <2>3, <2>5, <2>6, <2>7, <2>8
<1>4. CASE ret = "dmaDone"
  <2> USE <1>1, <1>4
  <2>1. ~Transferring' /\ Writing'
    BY DEF Transferring, Writing
  <2>2. Kinds' BY DEF Kinds
  <2>3. HasTask' BY <1>2 DEF HasTask, task
  <2>4. At = done + 1 /\ At' = done + 1 BY <1>2, <2>1 DEF At
  <2>5. Nr' = Nr
    <3>1. Nr = task.size BY <1>2 DEF Nr
    <3>2. Nr' = tasks[At].size BY <1>0, <2>1, <2>4 DEF Nr
    <3> QED BY <2>4, <3>1, <3>2 DEF task
  <2>6. Sequences' BY <2>4, <2>5, SameUnits
  <2>7. Phases' BY <1>2, <2>1 DEF Phases, Batches
  <2>8. Transfer' BY <1>2, <2>1 DEF Transfer, task
  <2>9. Idle' BY <1>2 DEF Idle
  <2> QED BY <2>2, <2>3, <2>6, <2>7, <2>8, <2>9
<1> QED BY <1>1, <1>3, <1>4

\* The payload is copied for the channels.
LEMMA PrepareTransferStep ==
  ASSUME Alive, PrepareTransfer
  PROVE  Alive'
<1> USE DEF Alive, PrepareTransfer, config, queue, driver, memory, spi, dma
<1>0. /\ At \in Nat /\ At <= Len(tasks) /\ Nr \in Nat /\ done \in Nat /\ Len(tasks) \in Nat
      /\ done < Len(tasks) => task.size \in Nat
      /\ Len(tx) \in Nat /\ (tx = <<>> <=> Len(tx) = 0) /\ rx \in Nat
      /\ FifoSize \in Nat /\ FifoSize > 1 /\ 0 \in 0..FifoSize /\ DmaIsFaster \in Nat
  BY AliveTypes
<1>1. Kinds'
  BY <1>0 DEF Kinds
<1>2. HasTask'
  BY <1>0 DEF Kinds, HasTask, At, Writing, Transferring, task
<1>3. At' = At /\ Nr' = Nr
  BY <1>0 DEF Kinds, HasTask, Transfer, TxChannel, At, Nr, Writing, Transferring, Moved, task
<1>4. tx' = tx /\ received' = received /\ tasks' = tasks
      /\ (pc' = "clocked" \/ ~(pc = "clocked" /\ Len(tx) > Nr))
  BY <1>0 DEF Phases, Transfer
<1>5. Sequences'
  BY <1>3, <1>4, SameUnits
<1>6. Phases'
  BY <1>0 DEF Kinds, HasTask, Phases, At, Writing, Transferring, task, Batches, DONE, RXD
<1>7. Transfer'
  <2>1. /\ build = "thread_dma" /\ task.size \in Nat \ {0} /\ tx = <<>> /\ ~ta /\ dmaen /\ rx = 0
        /\ task' = task /\ ~Transferring'
    BY <1>0 DEF Transfer, HasTask, Writing, Transferring, task
  <2>2. task.size + 1 < SourceSize /\ 2 < NumCbs /\ SourceSize \in Nat /\ NumCbs \in Nat
    <3>1. done + 1 \in 1..Len(tasks) BY <1>0 DEF HasTask, Writing
    <3>2. TaskFits(task) BY <3>1 DEF Kinds, task
    <3> QED BY <2>1, <3>2, TransferAssumption DEF TaskFits
  <2>3. DOMAIN mem = 0..SourceSize - 1 /\ DOMAIN cb = 0..NumCbs - 1
    BY DEF Kinds
  <2>4. mem'[0] = Header
    <3>1. 0 \in DOMAIN mem /\ ~(0 > task.size) BY <2>1, <2>2, <2>3
    <3> QED BY <3>1
  <2>5. ASSUME NEW a \in 1..task.size PROVE mem'[a] = Unit(done + 1, a)
    <3>1. a \in DOMAIN mem /\ ~(a > task.size) /\ a # 0 BY <2>1, <2>2, <2>3
    <3> QED BY <3>1
  <2>6. cb'[0] = Block("tx", 0, 1 + task.size, -1) /\ cb'[1] = Block("rx", 0, task.size, -1)
    <3>1. 0 \in DOMAIN cb /\ 1 \in DOMAIN cb BY <2>2, <2>3
    <3> QED BY <3>1
  <2>7. Prepared'
    BY <2>1, <2>4, <2>5, <2>6 DEF Prepared
  <2> QED BY <2>1, <2>7 DEF Transfer
<1>8. Idle'
  BY <1>0 DEF Kinds, HasTask, Idle, Transferring
<1> QED BY <1>1, <1>2, <1>5, <1>6, <1>7, <1>8

\* The peripheral is switched over to DMA.
LEMMA StartDmaStep ==
  ASSUME Alive, StartDma
  PROVE  Alive'
<1> USE DEF Alive, StartDma, WriteCs, config, queue, driver, memory, spi, dma
<1>0. /\ At \in Nat /\ At <= Len(tasks) /\ Nr \in Nat /\ done \in Nat /\ Len(tasks) \in Nat
      /\ done < Len(tasks) => task.size \in Nat
      /\ Len(tx) \in Nat /\ (tx = <<>> <=> Len(tx) = 0) /\ rx \in Nat
      /\ FifoSize \in Nat /\ FifoSize > 1 /\ 0 \in 0..FifoSize /\ DmaIsFaster \in Nat
  BY AliveTypes
<1>1. tx' = <<>> /\ tx = <<>> /\ rx' = 0 /\ ta' = FALSE /\ dmaen' = TRUE
  BY <1>0 DEF Transfer
<1>2. Kinds'
  <2>1. rx' \in 0..FifoSize /\ ta' \in BOOLEAN /\ dmaen' \in BOOLEAN
    BY <1>0, <1>1, Zenon
  <2> QED BY <1>0, <1>1, <2>1 DEF Kinds
<1>3. HasTask'
  BY <1>0, <1>1 DEF Kinds, HasTask, At, Writing, Transferring, task
<1>4. At' = At /\ Nr' = Nr
  BY <1>0, <1>1 DEF Kinds, HasTask, Transfer, TxChannel, At, Nr, Writing, Transferring, Moved, task
<1>5. tx' = tx /\ received' = received /\ tasks' = tasks
      /\ (pc' = "clocked" \/ ~(pc = "clocked" /\ Len(tx) > Nr))
  BY <1>0, <1>1 DEF Phases, Transfer
<1>6. Sequences'
  BY <1>4, <1>5, SameUnits
<1>7. Phases'
  BY <1>0, <1>1 DEF Kinds, HasTask, Phases, At, Writing, Transferring, task, Batches, DONE, RXD
<1>8. Transfer'
  BY <1>0, <1>1 DEF Kinds, HasTask, Phases, Transfer, Transferring, Prepared, TxChannel, RxChannel, Moved, task
<1>9. Idle'
  BY <1>0, <1>1 DEF Kinds, HasTask, Idle, Transferring
<1> QED BY <1>2, <1>3, <1>6, <1>7, <1>8, <1>9

\* The TX channel is started.
LEMMA StartTxStep ==
  ASSUME Alive, StartTx
  PROVE  Alive'
<1> USE DEF Alive, StartTx, LoadTx, TxCb, Block, config, queue, driver, memory, spi, dma
<1>0. /\ At \in Nat /\ At <= Len(tasks) /\ Nr \in Nat /\ done \in Nat /\ Len(tasks) \in Nat
      /\ done < Len(tasks) => task.size \in Nat
      /\ Len(tx) \in Nat /\ (tx = <<>> <=> Len(tx) = 0) /\ rx \in Nat
      /\ FifoSize \in Nat /\ FifoSize > 1 /\ 0 \in 0..FifoSize /\ DmaIsFaster \in Nat
  BY AliveTypes
<1>1. Kinds'
  BY <1>0 DEF Kinds
<1>2. HasTask'
  BY <1>0 DEF Kinds, HasTask, At, Writing, Transferring, task
<1>3. At' = At /\ Nr' = Nr
  BY <1>0 DEF Kinds, HasTask, Transfer, Prepared, At, Nr, Writing, Transferring, Moved, task
<1>4. tx' = tx /\ received' = received /\ tasks' = tasks
      /\ (pc' = "clocked" \/ ~(pc = "clocked" /\ Len(tx) > Nr))
  BY <1>0 DEF Phases, Transfer
<1>5. Sequences'
  BY <1>3, <1>4, SameUnits
<1>6. Phases'
  BY <1>0 DEF Kinds, HasTask, Phases, At, Writing, Transferring, task, Batches, DONE, RXD
<1>7. Transfer'
  <2>1. /\ build = "thread_dma" /\ task.size \in Nat \ {0} /\ tx = <<>> /\ ~ta /\ dmaen /\ rx = 0
        /\ task' = task /\ ~Transferring' /\ Prepared /\ cbs0 = 0
    BY <1>0 DEF Transfer, HasTask, Writing, Transferring, task, Kinds
  <2>2. cb[0].src = 0 /\ cb[0].len = 1 + task.size
    BY <2>1 DEF Prepared
  <2>3. txDma' = [active |-> TRUE, src |-> 0, left |-> 1 + task.size]
    BY <2>1, <2>2
  <2>4. Prepared'
    BY <2>1 DEF Prepared
  <2>5. TxChannel' /\ Moved' = 0
    BY <2>1, <2>3 DEF TxChannel, Moved
  <2> QED BY <1>0, <2>1, <2>4, <2>5 DEF Transfer
<1>8. Idle'
  <2>1. Prepared /\ cbs0 = 0 /\ task.size \in Nat
    BY <1>0 DEF Transfer, Kinds, HasTask, Writing
  <2>2. txDma' = [active |-> TRUE, src |-> 0, left |-> 1 + task.size]
    <3>1. cb[0].src = 0 /\ cb[0].len = 1 + task.size BY <2>1 DEF Prepared
    <3> QED BY <2>1, <3>1
  <2> QED BY <2>1, <2>2 DEF Idle, Transferring
<1> QED BY <1>1, <1>2, <1>5, <1>6, <1>7, <1>8

\* The RX channel is started.
LEMMA StartRxStep ==
  ASSUME Alive, StartRx
  PROVE  Alive'
<1> USE DEF Alive, StartRx, GoOn, RxCb, TxCb, Block, config, queue, driver, memory, spi, dma
<1>0. /\ At \in Nat /\ At <= Len(tasks) /\ Nr \in Nat /\ done \in Nat /\ Len(tasks) \in Nat
      /\ done < Len(tasks) => task.size \in Nat
      /\ Len(tx) \in Nat /\ (tx = <<>> <=> Len(tx) = 0) /\ rx \in Nat
      /\ FifoSize \in Nat /\ FifoSize > 1 /\ 0 \in 0..FifoSize /\ DmaIsFaster \in Nat
  BY AliveTypes
<1>1. Kinds'
  BY <1>0 DEF Kinds
<1>2. HasTask'
  BY <1>0 DEF Kinds, HasTask, At, Writing, Transferring, task
<1>3. At' = At /\ Nr' = Nr
  BY <1>0 DEF Kinds, HasTask, Transfer, TxChannel, At, Nr, Writing, Transferring, Moved, task
<1>4. tx' = tx /\ received' = received /\ tasks' = tasks
      /\ (pc' = "clocked" \/ ~(pc = "clocked" /\ Len(tx) > Nr))
  BY <1>0 DEF Phases, Transfer
<1>5. Sequences'
  BY <1>3, <1>4, SameUnits
<1>6. Phases'
  BY <1>0 DEF Kinds, HasTask, Phases, At, Writing, Transferring, task, Batches, DONE, RXD
<1>7. Transfer'
  <2>1. /\ build = "thread_dma" /\ task.size \in Nat \ {0} /\ rx + Len(tx) = Moved
        /\ task' = task /\ Transferring' /\ Prepared /\ TxChannel /\ cbs0 = 0
    <3>1. build = "thread_dma" /\ cbs0 = 0 /\ done < Len(tasks)
      BY DEF Transfer, Kinds, HasTask, Writing
    <3> QED BY <1>0, <3>1 DEF Transfer, Transferring, task
  <2>2. cb[1].len = task.size
    BY <2>1 DEF Prepared
  <2>3. rxDma' = [active |-> TRUE, cb |-> 1, left |-> task.size]
    <3>1. RxCb(0) = 1 BY <2>1
    <3>2. 1 # -1 OBVIOUS
    <3>3. rxDma' = [active |-> TRUE, cb |-> 1, left |-> cb[1].len] BY <3>1, <3>2
    <3> QED BY <2>2, <3>3
  <2>4. Prepared' /\ TxChannel'
    BY <2>1 DEF Prepared, TxChannel
  <2>5. Moved' = Moved
    BY DEF Moved
  <2>6. RxChannel'
    BY <1>0, <2>1, <2>3, <2>5 DEF RxChannel
  <2> QED BY <2>1, <2>4, <2>6 DEF Transfer
<1>8. Idle'
  <2>1. Prepared /\ cbs0 = 0 /\ task.size \in Nat /\ build = "thread_dma"
    BY <1>0 DEF Transfer, Kinds, HasTask, Writing
  <2>2. RxCb(0) = 1 /\ 1 # -1
    BY <2>1
  <2>3. rxDma' = [active |-> TRUE, cb |-> 1, left |-> task.size]
    <3>1. cb[1].len = task.size BY <2>1 DEF Prepared
    <3>2. rxDma' = [active |-> TRUE, cb |-> 1, left |-> cb[1].len] BY <2>2
    <3> QED BY <3>1, <3>2
  <2>4. rxDma' \in [active : BOOLEAN, cb : Nat, left : Nat] /\ Transferring'
    BY <2>1, <2>3 DEF Transferring
  <2> QED BY <2>4 DEF Idle
<1> QED BY <1>1, <1>2, <1>5, <1>6, <1>7, <1>8

\* The peripheral is switched back.
LEMMA DmaDoneStep ==
  ASSUME Alive, DmaDone
  PROVE  Alive'
<1> USE DEF Alive, DmaDone, WriteCs, config, queue, driver, memory, spi, dma
<1>0. /\ At \in Nat /\ At <= Len(tasks) /\ Nr \in Nat /\ done \in Nat /\ Len(tasks) \in Nat
      /\ done < Len(tasks) => task.size \in Nat
      /\ Len(tx) \in Nat /\ (tx = <<>> <=> Len(tx) = 0) /\ rx \in Nat
      /\ FifoSize \in Nat /\ FifoSize > 1 /\ 0 \in 0..FifoSize /\ DmaIsFaster \in Nat
  BY AliveTypes
<1>1. tx' = <<>> /\ tx = <<>> /\ rx' = 0 /\ ta' = TRUE /\ dmaen' = FALSE
  BY <1>0 DEF Transfer
<1>2. Kinds'
  <2>1. rx' \in 0..FifoSize /\ ta' \in BOOLEAN /\ dmaen' \in BOOLEAN
    BY <1>0, <1>1, Zenon
  <2> QED BY <1>0, <1>1, <2>1 DEF Kinds
<1>3. HasTask'
  BY <1>0, <1>1 DEF Kinds, HasTask, At, Writing, Transferring, task
<1>4. At' = At /\ Nr' = Nr
  BY <1>0, <1>1 DEF Kinds, HasTask, Transfer, TxChannel, At, Nr, Writing, Transferring, Moved, task
<1>5. tx' = tx /\ received' = received /\ tasks' = tasks
      /\ (pc' = "clocked" \/ ~(pc = "clocked" /\ Len(tx) > Nr))
  BY <1>0, <1>1 DEF Phases, Transfer
<1>6. Sequences'
  BY <1>4, <1>5, SameUnits
<1>7. Phases'
  BY <1>0, <1>1 DEF Kinds, HasTask, Phases, At, Writing, Transferring, task, Batches, DONE, RXD
<1>8. Transfer'
  BY <1>0, <1>1 DEF Kinds, HasTask, Phases, Transfer, Transferring, Prepared, TxChannel, RxChannel, Moved, task
<1>9. Idle'
  BY <1>0, <1>1 DEF Kinds, HasTask, Idle, Transferring
<1> QED BY <1>2, <1>3, <1>6, <1>7, <1>8, <1>9

\* The RX channel takes a unit.
LEMMA RxMoveStep ==
  ASSUME Alive, RxMove
  PROVE  Alive'
<1> USE DEF Alive, RxMove, config, queue, driver, memory, dma
<1>0. /\ done \in Nat /\ Len(tasks) \in Nat
      /\ done < Len(tasks) => task.size \in Nat
      /\ Len(tx) \in Nat /\ rx \in Nat /\ rx \in 0..FifoSize /\ FifoSize \in Nat
  BY AliveTypes DEF Kinds
<1>1. Transferring /\ rxDma.active
  BY DEF Idle
<1>2. /\ build = "thread_dma" /\ done < Len(tasks) /\ task.size \in Nat \ {0} /\ task' = task
      /\ Transferring' /\ Writing /\ Writing' /\ Prepared /\ TxChannel /\ RxChannel
      /\ (pc = "finishRx" => ~txDma.active)
  BY <1>0, <1>1 DEF Transferring, Writing, HasTask, Transfer, task
<1>3. rx > 0 /\ rx' = rx - 1 /\ rx' \in 0..FifoSize
  BY <1>0
<1>4. /\ rxDma'.cb = 1 /\ rxDma'.left = rxDma.left - 1 /\ (rxDma'.active <=> rxDma'.left > 0)
      /\ rxDma'.left \in 0..task.size /\ rxDma' \in [active : BOOLEAN, cb : Nat, left : Nat]
  <2>1. rxDma.left \in Nat /\ rxDma.left > 0 /\ rxDma.left <= task.size /\ rxDma.cb = 1
    BY <1>1, <1>2 DEF RxChannel
  <2>2. cb[1].op = "rx" /\ cb[1].next = -1
    BY <1>2 DEF Prepared, Block
  <2>3. CASE rxDma.left > 1
    <3>1. rxDma' = [rxDma EXCEPT !.left = rxDma.left - 1] BY <2>3
    <3>2. rxDma \in [active : BOOLEAN, cb : Nat, left : Nat] BY DEF Idle
    <3>3. rxDma'.cb = 1 /\ rxDma'.left = rxDma.left - 1 /\ rxDma'.active = rxDma.active
      BY <2>1, <3>1, <3>2
    <3>4. rxDma' \in [active : BOOLEAN, cb : Nat, left : Nat]
      <4>1. rxDma.left - 1 \in Nat BY <2>1
      <4> HIDE DEF Alive, RxMove
      <4> QED BY <3>1, <3>2, <4>1
    <3> QED BY <1>1, <1>2, <2>1, <2>3, <3>3, <3>4
  <2>4. CASE ~(rxDma.left > 1)
    <3>1. rxDma' = [rxDma EXCEPT !.active = FALSE, !.left = 0]
      BY <2>1, <2>2, <2>4 DEF GoOn, NextCb
    <3>2. rxDma \in [active : BOOLEAN, cb : Nat, left : Nat] BY DEF Idle
    <3>3. rxDma'.cb = 1 /\ rxDma'.left = 0 /\ rxDma'.active = FALSE
      BY <2>1, <3>1, <3>2
    <3>4. rxDma' \in [active : BOOLEAN, cb : Nat, left : Nat]
      <4> HIDE DEF Alive, RxMove
      <4> QED BY <3>1, <3>2
    <3> QED BY <1>2, <2>1, <2>4, <3>3, <3>4
  <2> QED BY <2>3, <2>4
<1>5. Kinds'
  BY <1>3 DEF Kinds
<1>6. HasTask'
  BY <1>2 DEF HasTask, Transferring, At
<1>7. At' = At /\ Nr' = Nr
  BY <1>2 DEF At, Nr, Transferring, Moved
<1>8. Sequences'
  <2>1. pc # "clocked" BY <1>1 DEF Transferring
  <2> QED BY <1>7, <2>1, SameUnits
<1>9. Phases'
  BY <1>1, <1>2 DEF Phases, Transferring, Batches
<1>10. Transfer'
  <2>1. Prepared' /\ TxChannel' /\ Moved' = Moved
    BY <1>2 DEF Prepared, TxChannel, Moved
  <2>2. Moved \in Int
    BY <1>2 DEF TxChannel, Moved
  <2>3. task.size - rxDma.left + (rx + Len(tx)) = Moved /\ rxDma.left \in Nat
    BY <1>2 DEF RxChannel
  <2>4. task.size - rxDma'.left + (rx' + Len(tx)) = Moved'
    <3>1. /\ task.size \in Nat /\ Len(tx) \in Nat /\ rx \in Nat /\ rx' = rx - 1
          /\ rxDma'.left = rxDma.left - 1 /\ rxDma.left \in Nat
      BY <1>0, <1>2, <1>3, <1>4, <2>3
    <3> HIDE DEF Alive, RxMove
    <3> QED BY <2>1, <2>2, <2>3, <3>1
  <2>5. RxChannel'
    BY <1>2, <1>4, <2>4 DEF RxChannel
  <2> QED BY <1>1, <1>2, <2>1, <2>5 DEF Transfer, Transferring
<1>11. Idle'
  BY <1>2, <1>4 DEF Idle, Transferring
<1> QED BY <1>5, <1>6, <1>8, <1>9, <1>10, <1>11

\* The command of the task is written to the TX FIFO.
LEMMA WriteCommandStep ==
  ASSUME Alive, WriteCommand
  PROVE  Alive'
<1> USE DEF Alive, WriteCommand, config, queue, driver, memory, dma
<1>0. /\ At \in Nat /\ Nr \in Nat /\ done \in Nat /\ Len(tasks) \in Nat
      /\ FifoSize \in Nat /\ FifoSize > 1 /\ Len(tx) = 0 /\ tx = <<>> /\ rx = 0
      /\ ~Writing /\ ~Transferring /\ At = done /\ done < Len(tasks)
  <2>1. tx = <<>> /\ rx = 0 /\ ~Writing /\ ~Transferring /\ At = done /\ done < Len(tasks)
    BY DEF Phases, Writing, Transferring, At, HasTask
  <2> QED BY <2>1, AliveTypes
<1>1. /\ pc' = "clocked" /\ tx' = Append(tx, Unit(At + 1, 0)) /\ ta' = ta /\ dmaen' = dmaen /\ rx' = rx
      /\ received' = received /\ tasks' = tasks /\ Writing' /\ ~Transferring'
  BY <1>0 DEF WriteFifo, TXD, Writing, Transferring
<1>2. At' = At + 1 /\ Nr' = 0
  BY <1>0, <1>1 DEF At, Nr
<1>3. Nr = IF At = 0 THEN 0 ELSE tasks[At].size
  BY <1>0 DEF Nr
<1>4. Sequences' /\ tx' \in Seq(Units) /\ Len(tx') = 1
  BY <1>0, <1>1, <1>2, <1>3, NextTask
<1>5. Kinds'
  BY <1>0, <1>1, <1>4 DEF Kinds
<1>6. HasTask'
  BY <1>0, <1>1 DEF HasTask
<1>7. Phases'
  BY <1>0, <1>1, <1>4 DEF Phases, Batches
<1>8. Transfer'
  BY <1>1 DEF Transfer
<1>9. Idle'
  BY <1>0, <1>1 DEF Idle
<1> QED BY <1>4, <1>5, <1>6, <1>7, <1>8, <1>9

\* The payload goes to the FIFO while it has room for it without a look at TXD.
LEMMA PrefillStep ==
  ASSUME Alive, Prefill
  PROVE  Alive'
<1> USE DEF Alive, config, queue, driver, memory, dma
<1>0. /\ At = done + 1 /\ Nr = sent /\ done \in Nat /\ Len(tasks) \in Nat /\ done < Len(tasks)
      /\ sent \in Nat /\ task.size \in Nat /\ sent <= task.size /\ ta /\ FifoSize \in Nat
      /\ Len(tx) \in Nat /\ Len(tx) <= sent /\ ~Transferring /\ Writing /\ pc = "prefill"
  <2>1. /\ pc = "prefill" /\ Writing /\ ~Transferring /\ done < Len(tasks) /\ At = done + 1 /\ Nr = sent
        /\ sent <= task.size /\ ta /\ Len(tx) <= sent /\ sent \in Nat
    BY DEF Prefill, Writing, Transferring, HasTask, At, Nr, Phases, Kinds
  <2> QED BY <2>1, AliveTypes
<1>1. CASE sent < Least(FifoSize - 1, task.size)
  <2>1. sent < FifoSize - 1 /\ sent < task.size
    BY <1>0, <1>1 DEF Least
  <2>2. /\ tx' = Append(tx, Unit(At, Nr + 1)) /\ ta' = ta /\ dmaen' = dmaen /\ rx' = rx /\ sent' = sent + 1
        /\ pc' = "prefill" /\ received' = received /\ tasks' = tasks /\ done' = done
        /\ UNCHANGED <<config, running, exiting, ret, previousTaskWasSPI, memory, dc, dma>>
    BY <1>0, <1>1, <2>1 DEF Prefill, WriteFifo, TXD
  <2>3. At' = At /\ Nr' = Nr + 1 /\ Writing' /\ ~Transferring' /\ task' = task
    BY <1>0, <2>2 DEF At, Nr, Writing, Transferring, task
  <2>4. At > 0 /\ Len(tx) <= Nr /\ \A n \in 1..At : tasks'[n] = tasks[n]
    BY <1>0, <2>2
  <2>5. Sequences' /\ tx' \in Seq(Units) /\ Len(tx') = Len(tx) + 1
    BY <2>2, <2>3, <2>4, OneMore
  <2>6. Len(tx') <= FifoSize /\ Len(tx') <= sent' /\ sent' \in Nat /\ sent' <= task.size
    BY <1>0, <2>1, <2>2, <2>5
  <2>7. Kinds'
    BY <1>0, <2>2, <2>5, <2>6 DEF Kinds
  <2>8. HasTask'
    BY <1>0, <2>2, <2>3, <2>6 DEF HasTask
  <2>9. Phases'
    BY <1>0, <2>2, <2>3, <2>6 DEF Phases, Batches
  <2>10. Transfer'
    BY <2>2, <2>3 DEF Transfer
  <2>11. Idle'
    BY <1>0, <2>2, <2>3 DEF Idle
  <2> QED BY <2>2, <2>5, <2>7, <2>8, <2>9, <2>10, <2>11
<1>2. CASE ~(sent < Least(FifoSize - 1, task.size))
  <2>1. pc' = "push" /\ UNCHANGED <<spi, sent, config, running, exiting, queue, ret, previousTaskWasSPI, memory, dc, dma, received>>
    BY <1>2 DEF Prefill
  <2>2. UNCHANGED <<ta, dmaen, tx, rx>>
    BY <2>1 DEF spi
  <2>3. At' = At /\ Nr' = Nr /\ Writing' /\ ~Transferring' /\ task' = task
    BY <1>0, <2>1 DEF At, Nr, Writing, Transferring, task
  <2>4. Sequences'
    BY <1>0, <2>1, <2>2, <2>3, SameUnits
  <2>5. Kinds'
    BY <2>1, <2>2 DEF Kinds
  <2>6. HasTask'
    BY <1>0, <2>1, <2>3 DEF HasTask
  <2>7. Phases'
    BY <1>0, <2>1, <2>2, <2>3 DEF Phases, Batches
  <2>8. Transfer'
    BY <2>1, <2>3 DEF Transfer
  <2>9. Idle'
    BY <1>0, <2>1, <2>3 DEF Idle
  <2> QED BY <2>1, <2>4, <2>5, <2>6, <2>7, <2>8, <2>9
<1> QED BY <1>1, <1>2

\* One round of the loop that pushes the payload, with one reading of cs.
LEMMA PushUnitStep ==
  ASSUME Alive, PushUnit
  PROVE  Alive'
<1> USE DEF Alive, config, queue, driver, memory, dma
<1>0. /\ At = done + 1 /\ Nr = sent /\ done \in Nat /\ Len(tasks) \in Nat /\ done < Len(tasks)
      /\ sent \in Nat /\ task.size \in Nat /\ sent < task.size /\ ta /\ FifoSize \in Nat
      /\ Len(tx) \in Nat /\ Len(tx) <= sent /\ ~Transferring /\ Writing /\ pc = "push"
      /\ 0 \in 0..FifoSize
  <2>1. /\ pc = "push" /\ Writing /\ ~Transferring /\ done < Len(tasks) /\ At = done + 1 /\ Nr = sent
        /\ sent < task.size /\ ta /\ sent \in Nat
    BY DEF PushUnit, Writing, Transferring, HasTask, At, Nr, Phases, Kinds
  <2>2. Len(tx) <= sent
    BY <2>1 DEF Sequences, Fifo
  <2> QED BY <2>1, <2>2, AliveTypes
<1>1. /\ pc' = "push" /\ received' = received /\ tasks' = tasks /\ done' = done
      /\ UNCHANGED <<config, running, exiting, ret, previousTaskWasSPI, memory, dc, dma>>
      /\ At' = done + 1 /\ Nr' = sent' /\ Writing' /\ ~Transferring' /\ task' = task
  BY <1>0 DEF PushUnit, At, Nr, Writing, Transferring, task
<1>2. /\ ta' \in BOOLEAN /\ ta' /\ dmaen' \in BOOLEAN /\ rx' \in 0..FifoSize
  <2>1. CASE RXR
    <3>1. ta' = TRUE /\ dmaen' = FALSE /\ rx' = 0 BY <2>1 DEF PushUnit
    <3> QED BY <1>0, <3>1, Zenon
  <2>2. CASE ~RXR
    <3>1. ta' = ta /\ dmaen' = dmaen /\ rx' = rx BY <2>2 DEF PushUnit
    <3> QED BY <1>0, <3>1 DEF Kinds
  <2> QED BY <2>1, <2>2
<1>3. /\ Sequences' /\ tx' \in Seq(Units) /\ Len(tx') <= FifoSize
      /\ sent' \in Nat /\ sent' <= task.size
  <2>1. CASE TXD
    <3>1. tx' = Append(tx, Unit(At, Nr + 1)) /\ sent' = sent + 1 /\ Len(tx) < FifoSize
      BY <1>0, <2>1 DEF PushUnit, TXD
    <3>2. At > 0 /\ Len(tx) <= Nr /\ \A n \in 1..At : tasks'[n] = tasks[n]
      BY <1>0, <1>1
    <3>3. At' = At /\ Nr' = Nr + 1
      BY <1>0, <1>1, <3>1
    <3>4. Sequences' /\ tx' \in Seq(Units) /\ Len(tx') = Len(tx) + 1
      BY <1>1, <3>1, <3>2, <3>3, OneMore
    <3> QED BY <1>0, <3>1, <3>4
  <2>2. CASE ~TXD
    <3>1. tx' = tx /\ sent' = sent
      BY <2>2 DEF PushUnit
    <3>2. Sequences'
      BY <1>0, <1>1, <3>1, SameUnits
    <3> QED BY <1>0, <3>1, <3>2 DEF Kinds
  <2> QED BY <2>1, <2>2
<1>4. Kinds'
  BY <1>0, <1>1, <1>2, <1>3 DEF Kinds
<1>5. HasTask'
  BY <1>0, <1>1, <1>3 DEF HasTask
<1>6. Phases'
  BY <1>0, <1>1, <1>2 DEF Phases, Batches
<1>7. Transfer'
  BY <1>1 DEF Transfer
<1>8. Idle'
  BY <1>0, <1>1 DEF Idle
<1> QED BY <1>1, <1>3, <1>4, <1>5, <1>6, <1>7, <1>8

\* A unit goes out on the bus, another comes in.
LEMMA ClockStep ==
  ASSUME Alive, Clock
  PROVE  Alive'
<1> USE DEF Alive, Clock, config, queue, driver, memory, dma
<1>0. /\ FifoSize \in Nat /\ rx \in 0..FifoSize /\ rx < FifoSize /\ Len(tx) \in Nat
      /\ Len(tx) <= FifoSize /\ tx # <<>> /\ Len(tx) > 0
  BY AliveTypes DEF Kinds
<1>1. At' = At /\ Nr' = Nr /\ (Writing' <=> Writing) /\ (Transferring' <=> Transferring) /\ task' = task
      /\ Moved' = Moved
  BY DEF At, Nr, Writing, Transferring, Moved, task
<1>2. /\ Sequences' /\ tx' \in Seq(Units) /\ Len(tx') = Len(tx) - 1
      /\ received' \in Seq([unit : Units, dc : BOOLEAN])
  BY <1>0, <1>1, ClockOut
<1>3. /\ Len(tx') <= FifoSize /\ rx' \in 0..FifoSize /\ rx' + Len(tx') = rx + Len(tx)
  BY <1>0, <1>2
<1>4. Kinds'
  BY <1>2, <1>3 DEF Kinds
<1>5. HasTask'
  BY <1>1 DEF HasTask
<1>6. Phases'
  <2>1. pc # "select" /\ pc # "dcLow" /\ pc # "command" /\ ~(chipSelect /\ ~Writing)
        /\ ~(chipSelect /\ pc = "done") /\ ~(Batches /\ pc = "asleep") /\ ta
    BY <1>0 DEF Phases
  <2>2. pc = "prefill" => Len(tx') <= sent
    <3>1. pc = "prefill" => Len(tx) <= sent /\ sent \in Nat BY DEF Phases, Kinds
    <3> QED BY <1>0, <1>2, <3>1
  <2>3. pc = "clocked" => Len(tx') + rx' = 1
    <3>1. pc = "clocked" => Len(tx) + rx = 1 BY DEF Phases
    <3> QED BY <1>0, <1>2, <3>1
  <2> QED BY <1>1, <2>1, <2>2, <2>3 DEF Phases, Batches
<1>7. Transfer'
  <2>1. ~(pc \in {"startDma", "prepare", "startTx", "dmaDone"})
    BY <1>0 DEF Transfer
  <2>2. (Prepared => Prepared') /\ (TxChannel => TxChannel')
    BY <1>1 DEF Prepared, TxChannel
  <2>3. RxChannel => RxChannel'
    BY <1>1, <1>3 DEF RxChannel
  <2> QED BY <1>1, <1>3, <2>1, <2>2, <2>3 DEF Transfer
<1>8. Idle'
  BY <1>1 DEF Idle
<1> QED BY <1>2, <1>4, <1>5, <1>6, <1>7, <1>8

\* The TX channel writes a word: the header, which begins the transfer, or a unit.
LEMMA TxMoveStep ==
  ASSUME Alive, TxMove
  PROVE  Alive'
<1> USE DEF Alive, TxMove, config, queue, driver, memory
<1>0. pc = "startRx" \/ Transferring
  BY DEF Idle
<1>1. /\ TxChannel /\ Prepared /\ Writing /\ done < Len(tasks) /\ build = "thread_dma"
      /\ At = done + 1 /\ Nr = Moved /\ pc # "finishRx" /\ pc # "clocked" /\ pc # "dmaDone"
  BY <1>0 DEF Transfer, Writing, Transferring, HasTask, At, Nr
<1>2. /\ task.size \in Nat /\ done \in Nat /\ Len(tasks) \in Nat /\ Len(tx) \in Nat /\ rx \in Nat
      /\ FifoSize \in Nat /\ txDma.src \in Nat /\ txDma.left \in Nat /\ txDma.left > 0
      /\ txDma.src + txDma.left = 1 + task.size /\ (ta <=> txDma.src > 0)
  BY <1>1, AliveTypes DEF TxChannel
<1>3. /\ txDma'.src = txDma.src + 1 /\ txDma'.left = txDma.left - 1
      /\ txDma'.src \in Nat /\ txDma'.left \in Nat
      /\ (txDma'.active <=> txDma'.left > 0)
      /\ txDma' \in [active : BOOLEAN, src : Nat, left : Nat]
      /\ txDma'.src + txDma'.left = 1 + task.size /\ txDma'.src > 0
  <2>1. txDma' = [active |-> txDma.left > 1, src |-> txDma.src + 1, left |-> txDma.left - 1]
    OBVIOUS
  <2>2. PICK a \in Nat, l \in Nat : a = txDma.src /\ l = txDma.left /\ l > 0
    BY <1>2
  <2>3. /\ a + 1 \in Nat /\ l - 1 \in Nat /\ a + 1 > 0 /\ (a + 1) + (l - 1) = a + l
        /\ (l > 1 <=> l - 1 > 0)
    <3> HIDE DEF Alive, TxMove
    <3>1. l > 0 BY <2>2
    <3> QED BY <3>1
  <2> HIDE DEF Alive, TxMove
  <2>4. txDma' = [active |-> l > 1, src |-> a + 1, left |-> l - 1]
    BY <2>1, <2>2
  <2>5. txDma'.src = a + 1 /\ txDma'.left = l - 1 /\ (txDma'.active <=> l > 1)
    BY <2>4
  <2>6. txDma' \in [active : BOOLEAN, src : Nat, left : Nat]
    BY <2>3, <2>4
  <2> QED BY <1>2, <2>2, <2>3, <2>5, <2>6
<1>4. /\ Writing' /\ (Transferring' <=> Transferring) /\ task' = task /\ Moved' = txDma.src
      /\ At' = At /\ Nr' = Moved'
  <2>1. Writing' /\ (Transferring' <=> Transferring) /\ task' = task
    BY <1>0, <1>1 DEF Writing, Transferring, task
  <2>2. Moved' = txDma.src
    <3>1. Moved' = txDma'.src - 1 BY <1>3 DEF Moved
    <3> QED BY <1>2, <1>3, <3>1
  <2> QED BY <1>0, <1>1, <2>1, <2>2 DEF At, Nr, Transferring
<1>5. CASE ta
  <2>1. txDma.src \in 1..task.size /\ mem[txDma.src] = Unit(done + 1, txDma.src) /\ Moved = txDma.src - 1
    <3>1. txDma.src \in 1..task.size BY <1>2, <1>5
    <3>2. mem[txDma.src] = Unit(done + 1, txDma.src) BY <1>1, <3>1 DEF Prepared
    <3>3. Moved = txDma.src - 1 BY <1>2, <1>5 DEF Moved
    <3> QED BY <3>1, <3>2, <3>3
  <2>2. tx' = Append(tx, Unit(At, Nr + 1)) /\ Nr' = Nr + 1 /\ Len(tx) < FifoSize /\ ta' = ta
    <3>1. tx' = Append(tx, Unit(done + 1, txDma.src)) /\ Len(tx) < FifoSize /\ ta' = ta
      BY <1>5, <2>1 DEF TXD
    <3>2. txDma.src = Nr + 1 /\ Nr' = Nr + 1
      BY <1>1, <1>2, <1>4, <2>1
    <3> QED BY <1>1, <3>1, <3>2
  <2>3. At > 0 /\ Len(tx) <= Nr /\ \A n \in 1..At : tasks'[n] = tasks[n]
    BY <1>1, <1>2 DEF Sequences, Fifo
  <2>4. Sequences' /\ tx' \in Seq(Units) /\ Len(tx') = Len(tx) + 1
    BY <1>4, <2>2, <2>3, OneMore
  <2>5. Len(tx') <= FifoSize
    BY <1>2, <2>2, <2>4
  <2>6. TxChannel'
    BY <1>1, <1>3, <1>4, <1>5, <2>2 DEF TxChannel
  <2>7. rx' + Len(tx') = (rx + Len(tx)) + 1 /\ Moved' = Moved + 1 /\ Moved \in Nat
    BY <1>2, <1>4, <2>1, <2>4
  <2>8. RxChannel => RxChannel'
    <3>1. ASSUME RxChannel PROVE task.size - rxDma.left + (rx' + Len(tx')) = Moved'
      <4>1. task.size - rxDma.left + (rx + Len(tx)) = Moved /\ rxDma.left \in Nat
        BY <1>2, <3>1 DEF RxChannel
      <4>2. rx' = rx /\ Len(tx') \in Nat /\ Moved' \in Nat BY <1>2, <1>4, <2>4
      <4> HIDE DEF Alive, TxMove
      <4> QED BY <1>2, <2>7, <4>1, <4>2
    <3> QED BY <1>4, <3>1 DEF RxChannel, dma
  <2>9. Kinds' BY <2>2, <2>4, <2>5 DEF Kinds
  <2>10. HasTask' BY <1>1, <1>4 DEF HasTask
  <2>11. Phases' BY <1>0, <1>4, <1>5, <2>2 DEF Phases, Transferring, Batches
  <2>12. Transfer'
    <3>1. Prepared' BY <1>1, <1>4 DEF Prepared
    <3> QED BY <1>0, <1>1, <1>2, <1>4, <2>6, <2>7, <2>8, <3>1 DEF Transfer, Transferring
  <2>13. Idle' BY <1>0, <1>3, <1>4 DEF Idle, Transferring
  <2> QED BY <2>4, <2>9, <2>10, <2>11, <2>12, <2>13
<1>6. CASE ~ta
  <2>1. txDma.src = 0 /\ Moved = 0 /\ Moved' = 0
    BY <1>2, <1>4, <1>6 DEF Moved
  <2>2. ta' = TRUE /\ tx' = tx
    BY <1>6
  <2>3. Sequences'
    BY <1>1, <1>4, <2>1, <2>2, SameUnits
  <2>4. TxChannel'
    BY <1>1, <1>3, <1>4, <2>2 DEF TxChannel
  <2>5. RxChannel => RxChannel'
    BY <1>4, <2>1, <2>2 DEF RxChannel
  <2>6. Kinds' BY <2>2 DEF Kinds
  <2>7. HasTask' BY <1>1, <1>4 DEF HasTask
  <2>8. Phases' BY <1>0, <1>4, <2>2 DEF Phases, Transferring, Batches
  <2>9. Transfer'
    <3>1. Prepared' BY <1>1, <1>4 DEF Prepared
    <3> QED BY <1>0, <1>1, <1>2, <1>4, <2>1, <2>2, <2>4, <2>5, <3>1 DEF Transfer, Transferring
  <2>10. Idle' BY <1>0, <1>3, <1>4 DEF Idle, Transferring
  <2> QED BY <2>3, <2>6, <2>7, <2>8, <2>9, <2>10
<1> QED BY <1>5, <1>6

\* Main commits a task: the ones before it stay where they are.
LEMMA CommitStep ==
  ASSUME Alive, Commit
  PROVE  Alive'
<1> USE DEF Alive, config, driver, memory, spi, dma
<1>0. /\ At \in Nat /\ At <= Len(tasks) /\ Nr \in Nat /\ done \in Nat /\ Len(tasks) \in Nat
      /\ done <= Len(tasks) /\ tasks \in Seq([dma : BOOLEAN, size : Nat])
  BY AliveTypes DEF Kinds
<1>1. PICK t \in TaskKinds : tasks' = Append(tasks, t)
  BY DEF Commit
<1>2. UNCHANGED <<config, running, exiting, done, pc, driver, memory, spi, dc, dma, received>>
  BY DEF Commit
<1>3. t \in [dma : BOOLEAN, size : Nat] /\ TaskFits(t)
  BY KindsFit
<1>4. /\ tasks' \in Seq([dma : BOOLEAN, size : Nat]) /\ Len(tasks') = Len(tasks) + 1
      /\ \A n \in 1..Len(tasks) : tasks'[n] = tasks[n]
      /\ tasks'[Len(tasks) + 1] = t
  BY <1>0, <1>1, <1>3
<1>5. /\ (Writing' <=> Writing) /\ (Transferring' <=> Transferring) /\ At' = At /\ Moved' = Moved
      /\ done < Len(tasks) => task' = task
  <2>1. (Writing' <=> Writing) /\ (Transferring' <=> Transferring) /\ Moved' = Moved
    BY <1>2 DEF Writing, Transferring, Moved
  <2>2. At' = At
    BY <1>2, <2>1 DEF At
  <2>3. ASSUME done < Len(tasks) PROVE task' = task
    <3>1. done + 1 \in 1..Len(tasks) BY <1>0, <2>3
    <3> QED BY <1>2, <1>4, <3>1 DEF task
  <2> QED BY <2>1, <2>2, <2>3
<1>6. \A n \in 1..At : tasks'[n] = tasks[n]
  BY <1>0, <1>4
<1>7. Nr' = Nr
  <2>1. At = 0 \/ At \in 1..At BY <1>0
  <2> QED BY <1>2, <1>5, <1>6, <2>1 DEF Nr
<1>8. Sequences'
  BY <1>2, <1>5, <1>6, <1>7, SameUnits
<1>9. Kinds'
  <2>1. done' \in 0..Len(tasks') BY <1>0, <1>2, <1>4
  <2>2. ASSUME NEW n \in 1..Len(tasks') PROVE TaskFits(tasks'[n])
    <3>1. n \in 1..Len(tasks) \/ n = Len(tasks) + 1 BY <1>0, <1>4
    <3>2. \A k \in 1..Len(tasks) : TaskFits(tasks[k]) BY DEF Kinds
    <3> QED BY <1>3, <1>4, <3>1, <3>2
  <2> QED BY <1>2, <1>4, <2>1, <2>2 DEF Kinds
<1>10. HasTask'
  <2>1. done < Len(tasks) => done' < Len(tasks') BY <1>0, <1>2, <1>4
  <2>2. pc \in {"prefill", "push"} => sent <= task.size /\ done < Len(tasks)
    BY DEF HasTask, Writing
  <2> QED BY <1>2, <1>5, <2>1, <2>2 DEF HasTask
<1>11. Phases'
  BY <1>2, <1>5 DEF Phases, Batches
<1>12. Transfer'
  <2>1. \/ ~(pc \in {"startDma", "prepare", "startTx", "startRx", "dmaDone"} \/ Transferring)
        \/ task' = task
    BY <1>5 DEF HasTask, Writing
  <2>2. CASE task' = task
    <3>1. (Prepared => Prepared') /\ (TxChannel => TxChannel') /\ (RxChannel => RxChannel')
      BY <1>2, <1>5, <2>2 DEF Prepared, TxChannel, RxChannel
    <3> QED BY <1>2, <1>5, <2>2, <3>1 DEF Transfer
  <2>3. CASE ~(pc \in {"startDma", "prepare", "startTx", "startRx", "dmaDone"} \/ Transferring)
    BY <1>2, <1>5, <2>3 DEF Transfer, Transferring
  <2> QED BY <2>1, <2>2, <2>3
<1>13. Idle'
  BY <1>2, <1>5 DEF Idle
<1> QED BY <1>2, <1>8, <1>9, <1>10, <1>11, <1>12, <1>13

\* Main runs the tasks of DeinitSPIDisplay instead of those that are left in the queue.
LEMMA BeginExitStep ==
  ASSUME Alive, BeginExit
  PROVE  Alive'
<1> DEFINE first == SubSeq(tasks, 1, done)
           K == [dma : BOOLEAN, size : Nat]
<1> USE DEF Alive, BeginExit, config, driver, memory, spi, dma
<1>0. /\ At = done /\ done \in Nat /\ Len(tasks) \in Nat /\ done <= Len(tasks) /\ tasks \in Seq(K)
      /\ ~Writing /\ ~Writing' /\ ~Transferring /\ ~Transferring'
  <2>1. ~Writing /\ ~Writing' /\ ~Transferring /\ ~Transferring'
    BY DEF Writing, Transferring
  <2> QED BY <2>1, AliveTypes DEF Kinds, At
<1>1. ExitTasks \in Seq(K) /\ Len(ExitTasks) \in Nat
      /\ \A n \in 1..Len(ExitTasks) : TaskFits(ExitTasks[n])
  <2>1. ExitTasks \in Seq(TaskKinds) /\ TaskKinds \subseteq K /\ Len(ExitTasks) \in Nat
    BY TransferAssumption
  <2>2. ExitTasks \in Seq(K)
    BY <2>1, SeqMonotonic
  <2>3. ASSUME NEW n \in 1..Len(ExitTasks) PROVE TaskFits(ExitTasks[n])
    <3>1. ExitTasks[n] \in TaskKinds BY <2>1, ElementOfSeq
    <3> QED BY <3>1, KindsFit
  <2> QED BY <2>1, <2>2, <2>3
<1>2. first \in Seq(K) /\ Len(first) = done /\ \A n \in 1..done : first[n] = tasks[n]
  <2>1. \A n \in 1..done : tasks[n] \in K
    <3>1. ASSUME NEW n \in 1..done PROVE tasks[n] \in K
      <4>1. n \in 1..Len(tasks) BY <1>0
      <4> QED BY <1>0, <4>1, ElementOfSeq
    <3> QED BY <3>1
  <2>2. /\ first \in Seq(K)
        /\ Len(first) = IF 1 <= done THEN done - 1 + 1 ELSE 0
        /\ \A n \in 1..done - 1 + 1 : first[n] = tasks[1 + n - 1]
    BY <1>0, <2>1, SubSeqProperties
  <2> QED BY <1>0, <2>2
<1>3. /\ tasks' \in Seq(K) /\ Len(tasks') = done + Len(ExitTasks)
      /\ \A n \in 1..done : tasks'[n] = tasks[n]
      /\ \A n \in 1..Len(tasks') : n > done => tasks'[n] = ExitTasks[n - done]
  <2>1. tasks' = first \o ExitTasks
    OBVIOUS
  <2>2. first \in Seq(K) /\ ExitTasks \in Seq(K)
    BY <1>1, <1>2
  <2> HIDE DEF first, K
  <2>3. /\ first \o ExitTasks \in Seq(K)
        /\ Len(first \o ExitTasks) = Len(first) + Len(ExitTasks)
        /\ \A n \in 1..Len(first) + Len(ExitTasks) :
             (first \o ExitTasks)[n] = IF n <= Len(first) THEN first[n] ELSE ExitTasks[n - Len(first)]
    BY <2>2, ConcatProperties, Zenon
  <2>4. /\ tasks' \in Seq(K) /\ Len(tasks') = done + Len(ExitTasks)
        /\ \A n \in 1..done + Len(ExitTasks) :
             tasks'[n] = IF n <= done THEN first[n] ELSE ExitTasks[n - done]
    BY <1>2, <2>1, <2>3, Zenon
  <2>5. ASSUME NEW n \in 1..done PROVE tasks'[n] = tasks[n]
    <3>1. n \in 1..done + Len(ExitTasks) /\ n <= done BY <1>0, <1>1
    <3> QED BY <1>2, <2>4, <3>1
  <2>6. ASSUME NEW n \in 1..Len(tasks'), n > done PROVE tasks'[n] = ExitTasks[n - done]
    <3>1. n \in 1..done + Len(ExitTasks) /\ ~(n <= done) BY <1>0, <1>1, <2>4, <2>6
    <3> QED BY <2>4, <3>1
  <2> QED BY <2>4, <2>5, <2>6
<1>4. At' = At /\ (Nr' = Nr) /\ \A n \in 1..At : tasks'[n] = tasks[n]
  <2>1. At' = At BY <1>0 DEF At
  <2>2. At = 0 \/ At \in 1..At BY <1>0
  <2> QED BY <1>0, <1>3, <2>1, <2>2 DEF Nr
<1>5. Sequences'
  BY <1>4, SameUnits
<1>6. Kinds'
  <2>1. done' \in 0..Len(tasks') BY <1>0, <1>1, <1>3
  <2>2. ASSUME NEW n \in 1..Len(tasks') PROVE TaskFits(tasks'[n])
    <3>1. CASE n \in 1..done
      <4>1. n \in 1..Len(tasks) BY <1>0, <3>1
      <4> QED BY <1>3, <3>1, <4>1 DEF Kinds
    <3>2. CASE n > done
      <4>1. n - done \in 1..Len(ExitTasks)
        <5>1. PICK e \in Nat : e = Len(ExitTasks) BY <1>1
        <5>2. n \in Nat /\ n <= done + e BY <1>0, <1>3, <5>1
        <5> HIDE DEF Alive, BeginExit
        <5> QED BY <1>0, <3>2, <5>1, <5>2
      <4> QED BY <1>1, <1>3, <3>2, <4>1
    <3>3. n \in 1..done \/ n > done BY <1>0, <1>1, <1>3
    <3> QED BY <3>1, <3>2, <3>3
  <2> QED BY <1>3, <2>1, <2>2 DEF Kinds
<1>7. HasTask'
  BY <1>0 DEF HasTask
<1>8. Phases'
  BY <1>0 DEF Phases, Batches
<1>9. Transfer'
  BY <1>0 DEF Transfer
<1>10. Idle'
  BY <1>0 DEF Idle
<1> QED BY <1>5, <1>6, <1>7, <1>8, <1>9, <1>10

\* The end: the channels are reset, the FIFOs are cleared.
LEMMA DeinitStep ==
  ASSUME Alive, Deinit
  PROVE  PolledInv'
<1> USE DEF Alive, Deinit, ResetDMAChannels, WriteCs, config, queue, driver, memory
<1>0. /\ At \in Nat /\ 0 \in 0..FifoSize /\ FifoSize \in Nat /\ ~Writing /\ ~Writing'
      /\ ~Transferring /\ ~Transferring' /\ At = done /\ At' = done
  BY AliveTypes DEF Writing, Transferring, At
<1>1. tx' = <<>> /\ rx' = 0 /\ ta' = FALSE /\ dmaen' = FALSE
  OBVIOUS
<1>2. Kinds'
  <2>1. rx' \in 0..FifoSize /\ ta' \in BOOLEAN /\ dmaen' \in BOOLEAN BY <1>0, <1>1, Zenon
  <2>2. tx' \in Seq(Units) /\ Len(tx') = 0 BY <1>1, EmptySeq
  <2>3. Len(tx') <= FifoSize BY <1>0, <2>2
  <2> QED BY <2>1, <2>2, <2>3 DEF Kinds
<1>3. HasTask'
  BY <1>0 DEF HasTask
<1>4. Phases'
  BY <1>0, <1>1 DEF Phases, Batches
<1>5. Transfer'
  BY <1>0 DEF Transfer
<1>6. Idle'
  <2>1. /\ txDma' = [txDma EXCEPT !.active = FALSE] /\ rxDma' = [rxDma EXCEPT !.active = FALSE]
        /\ txDma \in [active : BOOLEAN, src : Nat, left : Nat]
        /\ rxDma \in [active : BOOLEAN, cb : Nat, left : Nat]
    BY DEF Idle
  <2> HIDE DEF Alive, Deinit
  <2>2. /\ txDma' \in [active : BOOLEAN, src : Nat, left : Nat] /\ ~txDma'.active
        /\ rxDma' \in [active : BOOLEAN, cb : Nat, left : Nat] /\ ~rxDma'.active
    BY <2>1
  <2> QED BY <2>2 DEF Idle
<1>7. InOrder'
  <2>1. InOrder /\ At' \in Nat /\ At <= At' /\ \A n \in 1..At : tasks'[n] = tasks[n]
    BY <1>0 DEF Sequences
  <2> QED BY <1>0, <2>1, InOrderKept
<1> QED BY <1>1, <1>2, <1>3, <1>4, <1>5, <1>6, <1>7 DEF PolledInv

-----------------------------------------------------------------------------
(* Every step *)

\* The driver, in a build that does not leave the transfers to a chain of control blocks.
LEMMA DriverStep ==
  ASSUME Alive, Driver
  PROVE  PolledInv'
<1>1. ~(RestorePolled \/ GrabFreeDMASourceBytes \/ GrabFreeCBs \/ PrepareChain \/ SendCommand)
  BY DEF Alive, Kinds, RestorePolled, GrabFreeDMASourceBytes, GrabFreeCBs, PrepareChain, SendCommand
<1>2. Alive' => PolledInv'
  BY DEF Alive, PolledInv
<1>3. CASE Deinit
  BY <1>3, DeinitStep
<1>4. CASE RunCommitted
  BY <1>2, <1>4, RunCommittedStep
<1>5. CASE BeginBatch
  BY <1>2, <1>5, BeginBatchStep
<1>6. CASE BeginExit
  BY <1>2, <1>6, BeginExitStep
<1>7. CASE FetchTask
  BY <1>2, <1>7, FetchTaskStep
<1>8. CASE EndBatch
  BY <1>2, <1>8, EndBatchStep
<1>9. CASE StartTask
  BY <1>2, <1>9, StartTaskStep
<1>10. CASE FlushRx
  BY <1>2, <1>10, FlushRxStep
<1>11. CASE PolledFinished
  BY <1>2, <1>11, PolledFinishedStep
<1>12. CASE Select
  BY <1>2, <1>12, SelectStep
<1>13. CASE DcLow
  BY <1>2, <1>13, DcLowStep
<1>14. CASE WriteCommand
  BY <1>2, <1>14, WriteCommandStep
<1>15. CASE DcHigh
  BY <1>2, <1>15, DcHighStep
<1>16. CASE Prefill
  BY <1>2, <1>16, PrefillStep
<1>17. CASE PushUnit
  BY <1>2, <1>17, PushUnitStep
<1>18. CASE EndPush
  BY <1>2, <1>18, EndPushStep
<1>19. CASE EndCommunication
  BY <1>2, <1>19, EndCommunicationStep
<1>20. CASE DoneTask
  BY <1>2, <1>20, DoneTaskStep
<1>21. CASE FinishTx
  BY <1>2, <1>21, FinishTxStep
<1>22. CASE FinishRx
  BY <1>2, <1>22, FinishRxStep
<1>23. CASE PrepareTransfer
  BY <1>2, <1>23, PrepareTransferStep
<1>24. CASE StartDma
  BY <1>2, <1>24, StartDmaStep
<1>25. CASE StartTx
  BY <1>2, <1>25, StartTxStep
<1>26. CASE StartRx
  BY <1>2, <1>26, StartRxStep
<1>27. CASE DmaDone
  BY <1>2, <1>27, DmaDoneStep
<1> QED BY <1>1, <1>3, <1>4, <1>5, <1>6, <1>7, <1>8, <1>9, <1>10, <1>11, <1>12, <1>13, <1>14, <1>15, <1>16, <1>17, <1>18, <1>19, <1>20, <1>21, <1>22, <1>23, <1>24, <1>25, <1>26, <1>27 DEF Driver

\* The RX channel of such a build never comes to the control blocks of a chain.
LEMMA DmaStep ==
  ASSUME Alive, Dma
  PROVE  Alive'
<1>1. ASSUME rxDma.active PROVE Op = "rx"
  <2>1. rxDma.cb = 1 /\ cb[1] = Block("rx", 0, task.size, -1)
    BY <1>1 DEF Alive, Idle, Transfer, RxChannel, Prepared
  <2> QED BY <2>1 DEF Op, Block
<1>2. ~(SetDMATxAddress \/ DisableTransferActive \/ StartDMATxChannel)
  BY <1>1 DEF SetDMATxAddress, DisableTransferActive, StartDMATxChannel
<1> QED BY <1>2, TxMoveStep, RxMoveStep DEF Dma

\* A step that changes nothing.
LEMMA StutterStep ==
  ASSUME PolledInv, UNCHANGED vars
  PROVE  PolledInv'
<1>1. UNCHANGED <<build, chipSelect, running, exiting, tasks, done, pc, ret, sent, previousTaskWasSPI,
                  dmaSourceEnd, firstFreeCB, cbs0, ta, dmaen, tx, rx, dc, mem, cb, txDma, rxDma, received>>
  BY DEF vars, config, queue, driver, memory, spi, dma
<1>2. At' = At /\ Nr' = Nr /\ (Writing' <=> Writing) /\ (Transferring' <=> Transferring)
      /\ Moved' = Moved /\ task' = task
  BY <1>1 DEF At, Nr, Writing, Transferring, Moved, task
<1>3. Kinds' BY <1>1 DEF PolledInv, Kinds
<1>4. HasTask' BY <1>1, <1>2 DEF PolledInv, HasTask
<1>5. Phases' BY <1>1, <1>2 DEF PolledInv, Phases, Batches
<1>6. Transfer'
  <2>1. (Prepared => Prepared') /\ (TxChannel => TxChannel') /\ (RxChannel => RxChannel')
    BY <1>1, <1>2 DEF Prepared, TxChannel, RxChannel
  <2> QED BY <1>1, <1>2, <2>1 DEF PolledInv, Transfer
<1>7. Idle' BY <1>1, <1>2 DEF PolledInv, Idle
<1>8. pc # "gone" => Sequences' BY <1>1, <1>2, SameUnits DEF PolledInv
<1>9. pc = "gone" => InOrder'
  <2>1. At \in Nat BY AtNr DEF PolledInv
  <2>2. At' \in Nat /\ At <= At' BY <1>2, <2>1
  <2> QED BY <1>1, <2>1, <2>2, InOrderKept DEF PolledInv
<1> QED BY <1>1, <1>3, <1>4, <1>5, <1>6, <1>7, <1>8, <1>9 DEF PolledInv

LEMMA AliveStep ==
  ASSUME Alive, [Next]_vars
  PROVE  PolledInv'
<1>1. Alive' => PolledInv'
  BY DEF Alive, PolledInv
<1>2. CASE Commit
  BY <1>1, <1>2, CommitStep
<1>3. CASE Quit
  BY <1>1, <1>3, QuitStep
<1>4. CASE Driver
  BY <1>4, DriverStep
<1>5. CASE Clock
  BY <1>1, <1>5, ClockStep
<1>6. CASE Dma
  BY <1>1, <1>6, DmaStep
<1>7. CASE UNCHANGED vars
  <2>1. PolledInv BY DEF Alive, PolledInv
  <2> QED BY <1>7, <2>1, StutterStep
<1> QED BY <1>2, <1>3, <1>4, <1>5, <1>6, <1>7 DEF Next

\* After the end nothing moves.
LEMMA GoneStep ==
  ASSUME PolledInv, pc = "gone", [Next]_vars
  PROVE  UNCHANGED vars
<1>1. ~ta /\ exiting /\ ~running /\ ~txDma.active /\ ~rxDma.active
  BY DEF PolledInv, Kinds, Idle, Transferring
<1>2. ~Commit /\ ~Quit /\ ~Clock
  BY <1>1 DEF Commit, Quit, Clock
<1>3. ~Dma
  BY <1>1 DEF Dma, TxMove, RxMove, SetDMATxAddress, DisableTransferActive, StartDMATxChannel
<1>4. ~Driver
  <2>1. ~(RunCommitted \/ BeginBatch \/ BeginExit \/ FetchTask \/ EndBatch \/ StartTask \/ FlushRx
          \/ PolledFinished \/ RestorePolled \/ Select \/ DcLow \/ WriteCommand)
    BY DEF RunCommitted, BeginBatch, BeginExit, FetchTask, EndBatch, StartTask, FlushRx, PolledFinished,
           RestorePolled, Select, DcLow, WriteCommand
  <2>2. ~(DcHigh \/ Prefill \/ PushUnit \/ EndPush \/ EndCommunication \/ DoneTask \/ FinishTx \/ FinishRx
          \/ GrabFreeDMASourceBytes \/ GrabFreeCBs)
    BY DEF DcHigh, Prefill, PushUnit, EndPush, EndCommunication, DoneTask, FinishTx, FinishRx,
           GrabFreeDMASourceBytes, GrabFreeCBs
  <2>3. ~(PrepareChain \/ PrepareTransfer \/ SendCommand \/ StartDma \/ StartTx \/ StartRx \/ DmaDone \/ Deinit)
    BY DEF PrepareChain, PrepareTransfer, SendCommand, StartDma, StartTx, StartRx, DmaDone, Deinit
  <2> QED BY <2>1, <2>2, <2>3 DEF Driver
<1> QED BY <1>2, <1>3, <1>4 DEF Next

LEMMA PolledStep ==
  ASSUME PolledInv, [Next]_vars
  PROVE  PolledInv'
<1>1. CASE pc = "gone"
  BY <1>1, GoneStep, StutterStep
<1>2. CASE pc # "gone"
  <2>1. Alive BY <1>2 DEF Alive, PolledInv
  <2> QED BY <2>1, AliveStep
<1> QED BY <1>1, <1>2

LEMMA PolledInit ==
  ASSUME Init, build # "single_dma"
  PROVE  PolledInv
<1> USE DEF Init, InitDMA
<1>0. /\ Len(tasks) = 0 /\ done = 0 /\ ~Writing /\ ~Transferring /\ At = 0 /\ Nr = 0
      /\ tx = <<>> /\ Len(tx) = 0 /\ received = <<>> /\ Len(received) = 0
  BY DEF Writing, Transferring, At, Nr
<1>1. Kinds
  <2>1. build \in AllBuilds BY TransferAssumption
  <2>2. FifoSize \in Nat /\ 0 \in 0..FifoSize /\ 0 <= FifoSize BY TransferAssumption
  <2>3. /\ tasks \in Seq([dma : BOOLEAN, size : Nat]) /\ tx \in Seq(Units)
        /\ received \in Seq([unit : Units, dc : BOOLEAN])
    BY <1>0, EmptySeq
  <2>4. ta \in BOOLEAN BY DEF Batches
  <2>5. \A n \in 1..Len(tasks) : TaskFits(tasks[n]) BY <1>0
  <2>6. chipSelect \in BOOLEAN OBVIOUS
  <2>7. DOMAIN mem = 0..SourceSize - 1 /\ DOMAIN cb = 0..NumCbs - 1 OBVIOUS
  <2>8. dmaen \in BOOLEAN /\ dc \in BOOLEAN /\ running \in BOOLEAN /\ exiting \in BOOLEAN OBVIOUS
  <2>9. pc = "asleep" /\ ret = "asleep" /\ rx \in 0..FifoSize BY <2>2
  <2>10. done \in 0..Len(tasks) /\ sent \in Nat /\ Len(tx) <= FifoSize BY <1>0, <2>2
  <2> QED BY <2>1, <2>3, <2>4, <2>5, <2>6, <2>7, <2>8, <2>9, <2>10 DEF Kinds
<1>2. HasTask BY <1>0 DEF HasTask
<1>3. Phases BY <1>0 DEF Phases
<1>4. Transfer BY <1>0 DEF Transfer
<1>5. Idle BY <1>0 DEF Idle
<1>6. Sequences BY <1>0 DEF Sequences, Fifo, LastReceived, InOrder
<1> QED BY <1>1, <1>2, <1>3, <1>4, <1>5, <1>6 DEF PolledInv

\* What holds in every build.
Simple ==
  /\ build \in AllBuilds /\ ret # "gone"
  /\ build = "single_dma" => ~chipSelect
  /\ FreedMemoryIdle

LEMMA SimpleStep ==
  ASSUME Simple, [Next]_vars
  PROVE  Simple'
<1> USE DEF Simple, FreedMemoryIdle
<1> USE DEF config, queue, driver, memory, spi, dma
<1>1. CASE Commit \/ Quit
  BY <1>1 DEF Commit, Quit
<1>2. CASE Clock
  BY <1>2 DEF Clock
<1>3. CASE Dma
  <2>1. pc' = pc /\ ret' = ret /\ build' = build /\ chipSelect' = chipSelect
    BY <1>3 DEF Dma, TxMove, RxMove, SetDMATxAddress, DisableTransferActive, StartDMATxChannel
  <2>2. txDma.active \/ rxDma.active
    BY <1>3 DEF Dma, TxMove, RxMove, SetDMATxAddress, DisableTransferActive, StartDMATxChannel
  <2> QED BY <2>1, <2>2
<1>4. CASE UNCHANGED vars
  BY <1>4 DEF vars
<1>5. CASE RunCommitted
  BY <1>5 DEF RunCommitted
<1>6. CASE BeginBatch
  BY <1>6 DEF BeginBatch
<1>7. CASE BeginExit
  BY <1>7 DEF BeginExit
<1>8. CASE FetchTask
  BY <1>8 DEF FetchTask
<1>9. CASE EndBatch
  BY <1>9 DEF EndBatch
<1>10. CASE StartTask
  BY <1>10 DEF StartTask
<1>11. CASE FlushRx
  BY <1>11 DEF FlushRx
<1>12. CASE PolledFinished
  BY <1>12 DEF PolledFinished
<1>13. CASE RestorePolled
  BY <1>13 DEF RestorePolled
<1>14. CASE Select
  BY <1>14 DEF Select
<1>15. CASE DcLow
  BY <1>15 DEF DcLow
<1>16. CASE WriteCommand
  BY <1>16 DEF WriteCommand
<1>17. CASE DcHigh
  BY <1>17 DEF DcHigh
<1>18. CASE Prefill
  BY <1>18 DEF Prefill
<1>19. CASE PushUnit
  BY <1>19 DEF PushUnit
<1>20. CASE EndPush
  BY <1>20 DEF EndPush
<1>21. CASE EndCommunication
  BY <1>21 DEF EndCommunication
<1>22. CASE DoneTask
  BY <1>22 DEF DoneTask
<1>23. CASE GrabFreeDMASourceBytes
  BY <1>23 DEF GrabFreeDMASourceBytes
<1>24. CASE GrabFreeCBs
  BY <1>24 DEF GrabFreeCBs
<1>25. CASE PrepareChain
  BY <1>25 DEF PrepareChain
<1>26. CASE PrepareTransfer
  BY <1>26 DEF PrepareTransfer
<1>27. CASE SendCommand
  BY <1>27 DEF SendCommand
<1>28. CASE StartDma
  BY <1>28 DEF StartDma
<1>29. CASE DmaDone
  BY <1>29 DEF DmaDone
<1>30. CASE FinishTx
  BY <1>30 DEF FinishTx
<1>31. CASE FinishRx
  BY <1>31 DEF FinishRx
<1>32. CASE StartTx
  BY <1>32 DEF StartTx
<1>33. CASE StartRx
  BY <1>33 DEF StartRx
<1>34. CASE Deinit
  BY <1>34 DEF Deinit, ResetDMAChannels
<1> QED BY <1>1, <1>2, <1>3, <1>4, <1>5, <1>6, <1>7, <1>8, <1>9, <1>10, <1>11, <1>12, <1>13, <1>14, <1>15, <1>16, <1>17, <1>18, <1>19, <1>20, <1>21, <1>22, <1>23, <1>24, <1>25, <1>26, <1>27, <1>28, <1>29, <1>30, <1>31, <1>32, <1>33, <1>34 DEF Next, Driver

LEMMA BuildKept ==
  ASSUME [Next]_vars
  PROVE  build' = build /\ (Quit \/ running' = running)
<1> USE DEF config
<1>1. CASE Commit \/ Quit \/ Clock \/ UNCHANGED vars
  BY <1>1 DEF Commit, Quit, Clock, vars
<1>2. CASE Dma
  BY <1>2 DEF Dma, TxMove, RxMove, SetDMATxAddress, DisableTransferActive, StartDMATxChannel
<1>3. CASE Driver
  BY <1>3 DEF Driver, RunCommitted, BeginBatch, BeginExit, FetchTask, EndBatch, StartTask, FlushRx,
     PolledFinished, RestorePolled, Select, DcLow, WriteCommand, DcHigh, Prefill, PushUnit, EndPush,
     EndCommunication, DoneTask, GrabFreeDMASourceBytes, GrabFreeCBs, PrepareChain, PrepareTransfer,
     SendCommand, StartDma, DmaDone, FinishTx, FinishRx, StartTx, StartRx, Deinit
<1> QED BY <1>1, <1>2, <1>3 DEF Next

-----------------------------------------------------------------------------
(* The invariant of ALL_TASKS_SHOULD_DMA, until the program quits *)

\* Chunk i of a payload of n units: the units before it, its own, and where its header and
\* its first control block are in memory that was grabbed at s and at c.
Before(i) == i * MaxChunk
InChunk(n, i) == Least(MaxChunk, n - Before(i))
HeaderAt(n, s, i) == s + (MostChunks(n) - 1) + i + Before(i)
CbAt(c, i) == IF i = 0 THEN c ELSE c + 5 * i - 3

\* Chunk i of task t is in memory, with what the channels need for it.
ChunkHolds(t, n, s, c, i) ==
  /\ mem[HeaderAt(n, s, i)] = Header
  /\ \A k \in 1..InChunk(n, i) : mem[HeaderAt(n, s, i) + k] = Unit(t, Before(i) + k)
  /\ cb[CbAt(c, i)] = Block("tx", HeaderAt(n, s, i), 1 + InChunk(n, i), -1)
  /\ cb[CbAt(c, i) + 1] =
       Block("rx", 0, InChunk(n, i), IF i < MostChunks(n) - 1 THEN CbAt(c, i + 1) + 2 ELSE -1)
  /\ i > 0 =>
       /\ mem[s + (i - 1)] = Address(CbAt(c, i))
       /\ cb[CbAt(c, i) + 2] = Block("setDMATxAddress", s + (i - 1), 1, CbAt(c, i) + 3)
       /\ cb[CbAt(c, i) + 3] = Block("disableTransferActive", 0, 1, CbAt(c, i) + 4)
       /\ cb[CbAt(c, i) + 4] = Block("startDMATxChannel", 0, 1, CbAt(c, i) + 1)

ChainHolds(t, n, s, c) == \A i \in 0..MostChunks(n) - 1 : ChunkHolds(t, n, s, c, i)

UnitsFor(n) == SourceUnits(MostChunks(n), n)
CbsFor(n) == NumCbsFor(MostChunks(n))

\* Places of the driver: where it waits for the channels; where it has got memory for the
\* task (HasSource), control blocks too (HasCbs), and the chain is there (HasChain); where it
\* runs a task by DMA, or the first by polling after one by DMA.
Finishing(r) == pc \in {"finishTx", "finishRx"} /\ ret = r
HasChain ==
  \/ pc \in {"sendCommand", "startDma", "startTx", "startRx"} \/ Finishing("sendCommand")
  \/ pc \in {"dcLow", "command", "clocked"} /\ SentByDma
HasCbs == pc = "prepare" \/ HasChain
HasSource == pc \in {"grabCbs", "cbsWrapped"} \/ Finishing("cbsWrapped") \/ HasCbs
ByDma == pc \in {"grabSource", "sourceWrapped"} \/ Finishing("sourceWrapped") \/ HasSource
Restoring == pc = "restore" \/ Finishing("restore")

\* Types, and the places the driver can be at.
ChainKinds ==
  /\ running = TRUE /\ exiting = FALSE /\ chipSelect = FALSE
  /\ tasks \in Seq([dma : BOOLEAN, size : Nat]) /\ done \in Nat
  /\ done <= Len(tasks) /\ Len(tasks) <= done + 1
  /\ \A t \in 1..Len(tasks) :
       UnitsFor(tasks[t].size) < SourceSize /\ CbsFor(tasks[t].size) < NumCbs
  /\ pc \in {"asleep", "fetch", "start", "wait", "dcLow", "command", "clocked", "prefill", "push",
             "done", "startDma", "prepare", "startTx", "startRx", "finishTx", "finishRx",
             "grabSource", "sourceWrapped", "grabCbs", "cbsWrapped", "sendCommand", "restore"}
  /\ ret \in {"asleep", "restore", "sourceWrapped", "cbsWrapped", "sendCommand"}
  /\ pc \in {"finishTx", "finishRx"} => ret # "asleep"
  /\ sent \in Nat /\ previousTaskWasSPI \in BOOLEAN
  /\ ta \in BOOLEAN /\ dmaen \in BOOLEAN /\ dc \in BOOLEAN
  /\ tx \in Seq(Units) /\ Len(tx) <= FifoSize /\ rx \in 0..FifoSize
  /\ received \in Seq([unit : Units, dc : BOOLEAN])
  /\ txDma \in [active : BOOLEAN, src : Nat, left : Nat]
  /\ rxDma \in [active : BOOLEAN, cb : Nat, left : Nat]
  /\ DOMAIN mem = 0..SourceSize - 1 /\ DOMAIN cb = 0..NumCbs - 1

\* The task at hand.
ChainTask ==
  /\ pc \notin {"asleep", "fetch"} => done < Len(tasks)
  /\ pc \notin {"asleep", "fetch", "prefill", "push", "done"} => sent = 0
  /\ pc \in {"prefill", "push"} => sent <= task.size
  /\ ByDma => SentByDma
  /\ Restoring => ~SentByDma /\ ~previousTaskWasSPI
  /\ pc = "wait" => previousTaskWasSPI

\* The allocators of dma.cpp: what was grabbed last ends at the free memory.
ChainMemory ==
  /\ dmaSourceEnd \in 0..SourceSize /\ firstFreeCB \in 0..NumCbs
  /\ HasSource => source \in Nat /\ source + UnitsFor(task.size) = dmaSourceEnd
  /\ HasCbs => cbs0 \in Nat /\ cbs0 + CbsFor(task.size) = firstFreeCB
  /\ HasChain => ChainHolds(done + 1, task.size, source, cbs0)

\* The task that was written last to the FIFO.
Last == IF pc \in {"clocked", "prefill", "push", "startDma", "startTx", "startRx", "done"}
        THEN done + 1 ELSE done

\* Unit n of task a was written last: the FIFO holds the ones before it without a gap, and
\* the display has got the one before those.
Written(a, n) ==
  /\ \A i \in 1..Len(tx) : tx[i] = Unit(a, n - Len(tx) + i)
  /\ tx # <<>> => a > 0 /\ IF dc THEN Len(tx) <= n ELSE n = 0 /\ Len(tx) = 1
  /\ a = 0 => received = <<>>
  /\ a > 0 /\ Len(tx) <= n =>
       Len(received) > 0 /\ received[Len(received)].unit = Unit(a, n - Len(tx))
  /\ a > 0 /\ Len(tx) > n =>
       IF a = 1 THEN received = <<>>
       ELSE Len(received) > 0 /\ received[Len(received)].unit = Unit(a - 1, tasks[a - 1].size)

\* A chain may be under way: of the task that was run last, or, where the RX channel is yet
\* to be started, of the one at hand.
Chaining ==
  \/ pc = "startRx"
  \/ /\ ~previousTaskWasSPI
     /\ pc \in {"done", "asleep", "fetch", "start", "finishTx", "finishRx", "restore", "grabSource",
               "sourceWrapped", "grabCbs", "cbsWrapped", "prepare", "sendCommand"}

\* Behind it is memory that was grabbed for the task at hand.
SourceLimit == IF HasSource /\ pc # "startRx" THEN source ELSE dmaSourceEnd
CbLimit == IF HasCbs /\ pc # "startRx" THEN cbs0 ELSE firstFreeCB

\* The waits for the channels before these places have found them idle.
Waited == pc \in {"sourceWrapped", "cbsWrapped", "sendCommand", "restore"}

\* The channels move the chunk: m of its units have gone to the FIFO.
ChunkMoves(size, s, c, i, m) ==
  /\ m \in 0..InChunk(size, i)
  /\ txDma.src \in Nat /\ txDma.left \in Nat /\ (txDma.active <=> txDma.left > 0)
  /\ IF ta THEN txDma.src = HeaderAt(size, s, i) + 1 + m /\ txDma.left = InChunk(size, i) - m
     ELSE /\ txDma.src = HeaderAt(size, s, i) /\ txDma.left = 1 + InChunk(size, i) /\ m = 0
          /\ tx = <<>> /\ rx = 0
  /\ IF pc = "startRx" THEN i = 0 /\ ~rxDma.active /\ rx + Len(tx) = m
     ELSE /\ rxDma.active /\ rxDma.cb = CbAt(c, i) + 1 /\ rxDma.left \in 1..InChunk(size, i)
          /\ InChunk(size, i) - rxDma.left + (rx + Len(tx)) = m

\* The RX channel starts the TX channel for the chunk.
ChunkStarts(c, i) ==
  /\ i > 0 /\ pc # "startRx" /\ ~txDma.active /\ rxDma.active /\ tx = <<>> /\ rx = 0
  /\ \/ rxDma.cb = CbAt(c, i) + 2 /\ ta
     \/ rxDma.cb = CbAt(c, i) + 3 /\ ta /\ txAddr = CbAt(c, i)
     \/ rxDma.cb = CbAt(c, i) + 4 /\ ~ta /\ txAddr = CbAt(c, i)

\* The chain at s and c has written n units of task t to the FIFO; chunk i is moved or started.
ChainUnderWay(t, size, s, c, i, n) ==
  /\ size > 0 /\ i < MostChunks(size) /\ Before(i) <= n
  /\ s + UnitsFor(size) <= SourceLimit /\ c + CbsFor(size) <= CbLimit
  /\ ChainHolds(t, size, s, c)
  /\ pc = "startRx" => s = source /\ c = cbs0
  /\ ~Waited
  /\ \/ ChunkMoves(size, s, c, i, n - Before(i))
     \/ n = Before(i) /\ ChunkStarts(c, i)

\* All of the task that was written last has gone out, and both channels stand still.
AtRest(n) ==
  /\ n = IF Last = 0 THEN 0 ELSE tasks[Last].size
  /\ ~txDma.active /\ ~rxDma.active /\ ta /\ tx = <<>> /\ rx = 0

\* Where the channels may write.
ChainBus ==
  /\ dmaen /\ dc /\ Last > 0
  /\ \E n \in 0..tasks[Last].size :
       /\ Written(Last, n)
       /\ \/ AtRest(n) /\ pc # "startRx"
          \/ \E s \in 0..SourceSize, c \in 0..NumCbs, i \in 0..tasks[Last].size :
               ChainUnderWay(Last, tasks[Last].size, s, c, i, n)

\* Where the program writes: the unit it wrote last, and the FIFOs and the line around it.
PolledNr ==
  IF pc \in {"clocked", "startDma", "startTx"} THEN 0
  ELSE IF pc \in {"prefill", "push"} THEN sent
  ELSE IF Last = 0 THEN 0 ELSE tasks[Last].size

PolledBus ==
  /\ Written(Last, PolledNr) /\ ~txDma.active /\ ~rxDma.active
  /\ (ta <=> pc # "startTx") /\ (pc = "startTx" => dmaen)
  /\ (dc <=> pc \notin {"command", "clocked"})
  /\ pc = "clocked" => Len(tx) + rx = 1
  /\ pc \notin {"clocked", "prefill", "push", "done", "fetch", "asleep", "start", "wait"} =>
       tx = <<>> /\ (pc # "startDma" => rx = 0)

\* What the display has got, of tasks up to a, is in order.
Ordered(a) ==
  \A i \in 1..Len(received) :
    /\ received[i].unit.kind = "unit"
    /\ received[i].dc = (received[i].unit.nr > 0)
    /\ received[i].unit.of \in 1..a
    /\ IF i = 1 THEN received[i].unit = Unit(1, 0)
                ELSE Follows(received[i - 1].unit, received[i].unit)

ChainInv ==
  /\ ChainKinds /\ ChainTask /\ ChainMemory /\ Ordered(Last)
  /\ IF Chaining THEN ChainBus ELSE PolledBus

-----------------------------------------------------------------------------
(* Lemmas: chunks and their places in memory *)

LEMMA Quotient ==
  ASSUME NEW d \in Nat \ {0}, NEW q \in Nat, NEW r \in 0..d - 1
  PROVE  ((q * d) + r) \div d = q /\ ((q * d) + r) % d = r
<1>0. PICK x \in Nat : x = (q * d) + r
  BY Z3
<1>1. PICK a \in Int, b \in Int :
        /\ a = x \div d /\ b = x % d
        /\ x = (d * a) + b /\ b \in 0..d - 1
  BY Z3
<1>2. d * (q - a) = b - r
  BY <1>0, <1>1, Z3
<1>3. q - a < 1
  <2>1. q - a >= 1 => d * (q - a) >= d
    BY <1>1, Z3
  <2> QED BY <1>1, <1>2, <2>1
<1>4. q - a > -1
  <2>1. q - a <= -1 => d * (q - a) <= -d
    BY <1>1, Z3
  <2> QED BY <1>1, <1>2, <2>1
<1>5. a = q /\ b = r
  BY <1>1, <1>2, <1>3, <1>4
<1> QED BY <1>0, <1>1, <1>5

LEMMA Chunked ==
  ASSUME NEW n \in Nat \ {0}
  PROVE  /\ MostChunks(n) \in Nat \ {0} /\ MaxChunk \in Nat \ {0} /\ MostChunks(n) <= n
         /\ \A i \in 0..MostChunks(n) - 1 :
              /\ Before(i) \in Nat /\ Before(i) < n /\ InChunk(n, i) \in 1..MaxChunk
              /\ Before(i) + InChunk(n, i) <= n
              /\ i <= Before(i)
              /\ i < MostChunks(n) - 1 =>
                   InChunk(n, i) = MaxChunk /\ Before(i + 1) = Before(i) + InChunk(n, i)
              /\ i = MostChunks(n) - 1 => Before(i) + InChunk(n, i) = n
         /\ Before(0) = 0
<1>1. PICK m \in Nat \ {0} : m = MaxChunk
  BY TransferAssumption
<1>2. PICK k \in Int : k = (n + m - 1) \div m /\ m * k <= n + m - 1 /\ n + m - 1 < (m * k) + m
  BY <1>1, Z3
<1>3. k = MostChunks(n)
  BY <1>1, <1>2 DEF MostChunks
<1>4. k >= 1
  <2>1. k <= 0 => m * k <= 0
    BY <1>1, <1>2, Z3
  <2> QED BY <1>1, <1>2, <2>1
<1>5. k <= n
  <2>1. k > n => m * k >= m * (n + 1)
    BY <1>1, <1>2, Z3
  <2>2. m * (n + 1) = (m * n) + m /\ m * n >= n
    BY <1>1, Z3
  <2> QED BY <1>1, <1>2, <2>1, <2>2
<1>6. ASSUME NEW i \in 0..k - 1
      PROVE  /\ i * m \in Nat /\ i * m < n /\ i <= i * m
             /\ i < k - 1 => (i * m) + m < n /\ (i + 1) * m = (i * m) + m
             /\ i = k - 1 => (i * m) + m >= n
  <2>1. i * m \in Nat /\ i <= i * m /\ (i + 1) * m = (i * m) + m
    BY <1>1, <1>2, Z3
  <2>2. m * (k - 1) = (m * k) - m /\ m * (k - 1) < n /\ (m * (k - 1)) + m >= n
    BY <1>1, <1>2, Z3
  <2>3. i * m <= m * (k - 1)
    BY <1>1, <1>2, Z3
  <2>4. i < k - 1 => (i * m) + m <= m * (k - 1)
    <3>1. i < k - 1 => (i + 1) * m <= m * (k - 1)
      BY <1>1, <1>2, Z3
    <3> QED BY <2>1, <3>1
  <2>5. i = k - 1 => i * m = m * (k - 1)
    BY <1>1, <1>2, Z3
  <2> QED BY <1>1, <1>2, <2>1, <2>2, <2>3, <2>4, <2>5
<1>7. Before(0) = 0
  BY <1>1 DEF Before
<1>8. ASSUME NEW i \in 0..k - 1
      PROVE  /\ Before(i) \in Nat /\ Before(i) < n /\ InChunk(n, i) \in 1..m
             /\ Before(i) + InChunk(n, i) <= n
             /\ i <= Before(i)
             /\ i < k - 1 =>
                  InChunk(n, i) = m /\ Before(i + 1) = Before(i) + InChunk(n, i)
             /\ i = k - 1 => Before(i) + InChunk(n, i) = n
  <2>1. PICK b \in Nat : b = i * m /\ b = Before(i) /\ b < n /\ i <= b
                         /\ (i < k - 1 => b + m < n /\ Before(i + 1) = b + m)
                         /\ (i = k - 1 => b + m >= n)
    BY <1>1, <1>6 DEF Before
  <2>2. InChunk(n, i) = IF m <= n - b THEN m ELSE n - b
    BY <1>1, <2>1 DEF InChunk, Least
  <2> QED BY <1>1, <1>2, <2>1, <2>2
<1> QED BY <1>1, <1>2, <1>3, <1>4, <1>5, <1>7, <1>8

\* Every chunk lies in the memory that was grabbed for the task.
LEMMA ChunkPlaces ==
  ASSUME NEW n \in Nat \ {0}, NEW s \in Nat, NEW c \in Nat, NEW i \in 0..MostChunks(n) - 1
  PROVE  /\ HeaderAt(n, s, i) \in Nat /\ s <= HeaderAt(n, s, i)
         /\ HeaderAt(n, s, i) + InChunk(n, i) < s + UnitsFor(n)
         /\ i > 0 => s + (i - 1) \in s..s + UnitsFor(n) - 1
         /\ CbAt(c, i) \in Nat /\ c <= CbAt(c, i) /\ CbAt(c, i) + 1 < c + CbsFor(n)
         /\ i > 0 => CbAt(c, i) + 4 < c + CbsFor(n)
         /\ i < MostChunks(n) - 1 => CbAt(c, i + 1) + 4 < c + CbsFor(n)
<1>1. PICK k \in Nat \ {0} : k = MostChunks(n)
  BY Chunked
<1>2. PICK b \in Nat, l \in Nat : b = Before(i) /\ l = InChunk(n, i) /\ b + l <= n
  BY Chunked
<1>3. HeaderAt(n, s, i) = s + (k - 1) + i + b /\ UnitsFor(n) = (k - 1) + k + n
      /\ CbsFor(n) = 5 * k - 3
  BY <1>1, <1>2 DEF HeaderAt, UnitsFor, CbsFor, SourceUnits, NumCbsFor
<1>4. CbAt(c, i) = (IF i = 0 THEN c ELSE c + 5 * i - 3) /\ CbAt(c, i + 1) = c + 5 * (i + 1) - 3
  BY <1>1 DEF CbAt
<1> QED BY <1>1, <1>2, <1>3, <1>4

LEMMA GrabSizes ==
  ASSUME NEW n \in Nat \ {0}
  PROVE  /\ UnitsFor(n) \in Nat /\ UnitsFor(n) = (MostChunks(n) - 1) + MostChunks(n) + n
         /\ CbsFor(n) \in Nat /\ CbsFor(n) = 5 * MostChunks(n) - 3
<1>1. PICK k \in Nat \ {0} : k = MostChunks(n)
  BY Chunked
<1>2. UnitsFor(n) = (k - 1) + k + n /\ CbsFor(n) = 5 * k - 3
  BY <1>1 DEF UnitsFor, CbsFor, SourceUnits, NumCbsFor
<1> QED BY <1>1, <1>2

\* The chain of a task only depends on the memory that was grabbed for it.
LEMMA ChainKept ==
  ASSUME NEW t, NEW n \in Nat \ {0}, NEW s \in Nat, NEW c \in Nat, ChainHolds(t, n, s, c),
         \A a \in s..s + UnitsFor(n) - 1 : mem'[a] = mem[a],
         \A x \in c..c + CbsFor(n) - 1 : cb'[x] = cb[x]
  PROVE  ChainHolds(t, n, s, c)'
<1> SUFFICES ASSUME NEW i \in 0..MostChunks(n) - 1
             PROVE  ChunkHolds(t, n, s, c, i)'
  BY DEF ChainHolds
<1>1. ChunkHolds(t, n, s, c, i)
  BY DEF ChainHolds
<1>2. PICK h \in Nat, l \in Nat, x \in Nat :
        h = HeaderAt(n, s, i) /\ l = InChunk(n, i) /\ x = CbAt(c, i)
  <2>1. InChunk(n, i) \in 1..MaxChunk /\ MaxChunk \in Nat \ {0}
    BY Chunked
  <2>2. InChunk(n, i) \in Nat
    BY <2>1
  <2> QED BY <2>2, ChunkPlaces
<1>3. PICK us \in Nat, cs \in Nat :
        /\ us = UnitsFor(n) /\ cs = CbsFor(n) /\ s <= h /\ h + l < s + us
        /\ (i > 0 => s + (i - 1) \in s..s + us - 1)
        /\ c <= x /\ x + 1 < c + cs /\ (i > 0 => x + 4 < c + cs)
  <2>1. UnitsFor(n) \in Nat /\ CbsFor(n) \in Nat
    BY GrabSizes
  <2> QED BY <1>2, <2>1, ChunkPlaces
<1>4. mem'[h] = mem[h] /\ \A k \in 1..l : mem'[h + k] = mem[h + k]
  BY <1>2, <1>3
<1>5. cb'[x] = cb[x] /\ cb'[x + 1] = cb[x + 1]
  BY <1>2, <1>3
<1>6. i > 0 => /\ mem'[s + (i - 1)] = mem[s + (i - 1)] /\ cb'[x + 2] = cb[x + 2]
               /\ cb'[x + 3] = cb[x + 3] /\ cb'[x + 4] = cb[x + 4]
  BY <1>2, <1>3
<1> QED BY <1>1, <1>2, <1>4, <1>5, <1>6 DEF ChunkHolds

\* What PrepareChain leaves in memory is the chain of the task.
LEMMA ChainPrepared ==
  ASSUME PrepareChain, NEW t \in Nat, NEW n \in Nat \ {0}, NEW s \in Nat, NEW c \in Nat,
         t = done + 1, n = task.size, s = source, c = cbs0,
         s + UnitsFor(n) <= SourceSize, c + CbsFor(n) <= NumCbs,
         DOMAIN mem = 0..SourceSize - 1, DOMAIN cb = 0..NumCbs - 1
  PROVE  ChainHolds(t, n, s, c)'
<1>1. PICK m \in Nat \ {0}, N \in Nat \ {0}, us \in Nat, cs \in Nat :
        /\ m = MaxChunk /\ N = MostChunks(n) /\ us = UnitsFor(n) /\ cs = CbsFor(n)
        /\ s + us <= SourceSize /\ c + cs <= NumCbs /\ us = (N - 1) + N + n /\ cs = 5 * N - 3
  <2>1. PICK N \in Nat \ {0} : N = MostChunks(n)
    BY Chunked
  <2>2. PICK us \in Nat, cs \in Nat : us = UnitsFor(n) /\ cs = CbsFor(n)
    BY GrabSizes
  <2>3. us = (N - 1) + N + n /\ cs = 5 * N - 3
    BY <2>1, <2>2, GrabSizes
  <2>4. s + us <= SourceSize /\ c + cs <= NumCbs
    BY <2>2
  <2>5. MaxChunk \in Nat \ {0}
    BY TransferAssumption
  <2> QED BY <2>1, <2>2, <2>3, <2>4, <2>5
<1>a. us \in Nat /\ s + us <= SourceSize /\ cs \in Nat /\ c + cs <= NumCbs
  BY <1>1
<1>2. Chunk = m /\ Chunks = N
  BY <1>1 DEF PrepareChain, Chunk, Chunks, MostChunks
<1>3. SourceSize \in Nat /\ NumCbs \in Nat
  BY TransferAssumption
<1>4. ASSUME NEW a \in s..s + us - 1 PROVE mem'[a] = SourceCell(a)
  <2>1. a \in DOMAIN mem
    BY <1>a, <1>3, <1>4
  <2>2. mem' = [x \in DOMAIN mem |->
                  IF x \in source..source + SourceUnits(Chunks, task.size) - 1
                    THEN SourceCell(x) ELSE mem[x]]
    BY DEF PrepareChain
  <2>3. a \in source..source + SourceUnits(Chunks, task.size) - 1
    BY <1>1, <1>2, <1>4 DEF UnitsFor
  <2> QED BY <2>1, <2>2, <2>3
<1>5. ASSUME NEW x \in c..c + cs - 1 PROVE cb'[x] = ControlBlock(x)
  <2>1. x \in DOMAIN cb
    BY <1>a, <1>3, <1>5
  <2>2. cb' = [y \in DOMAIN cb |-> IF y \in cbs0..cbs0 + NumCbsFor(Chunks) - 1
                                   THEN ControlBlock(y) ELSE cb[y]]
    BY DEF PrepareChain
  <2>3. x \in cbs0..cbs0 + NumCbsFor(Chunks) - 1
    BY <1>1, <1>2, <1>5 DEF CbsFor
  <2> QED BY <2>1, <2>2, <2>3
<1> SUFFICES ASSUME NEW i \in 0..N - 1
             PROVE  ChunkHolds(t, n, s, c, i)'
  BY <1>1 DEF ChainHolds
<1>6. PICK b \in Nat, l \in Nat, h \in Nat, x \in Nat :
        b = Before(i) /\ l = InChunk(n, i) /\ h = HeaderAt(n, s, i) /\ x = CbAt(c, i)
  <2>1. i \in 0..MostChunks(n) - 1
    BY <1>1
  <2>2. InChunk(n, i) \in 1..MaxChunk /\ Before(i) \in Nat /\ MaxChunk \in Nat \ {0}
    BY <2>1, Chunked
  <2>3. InChunk(n, i) \in Nat
    BY <2>2
  <2> QED BY <2>1, <2>2, <2>3, ChunkPlaces
<1>b. /\ b + l <= n /\ l \in 1..m /\ b = i * m
      /\ h = s + (N - 1) + i + b /\ x = IF i = 0 THEN c ELSE c + 5 * i - 3
      /\ s <= h /\ h + l < s + us /\ c <= x /\ x + 1 < c + cs /\ (i > 0 => x + 4 < c + cs)
  <2>1. i \in 0..MostChunks(n) - 1
    BY <1>1
  <2>2. b + l <= n /\ l \in 1..m /\ b = i * m
    BY <1>1, <1>6, <2>1, Chunked DEF Before
  <2>3. h = s + (N - 1) + i + b /\ x = IF i = 0 THEN c ELSE c + 5 * i - 3
    BY <1>1, <1>6 DEF HeaderAt, CbAt
  <2>4. s <= h /\ h + l < s + us /\ c <= x /\ x + 1 < c + cs /\ (i > 0 => x + 4 < c + cs)
    BY <1>1, <1>6, <2>1, ChunkPlaces
  <2> QED BY <2>2, <2>3, <2>4
<1>c. us = (N - 1) + N + n /\ cs = 5 * N - 3
  BY <1>1
<1>7. HeaderOf(0) = s + (N - 1) /\ HeaderOf(i) = h
  <2>1. i * (1 + m) = i + b
    BY <1>b, Z3
  <2>2. HeaderOf(0) = s + N - 1 + 0 * (1 + m) /\ HeaderOf(i) = s + N - 1 + i * (1 + m)
    BY <1>2 DEF HeaderOf
  <2>3. 0 * (1 + m) = 0
    BY Z3
  <2> QED BY <1>b, <2>1, <2>2, <2>3
<1>8. ASSUME NEW k \in 0..l
      PROVE  SourceCell(h + k) = IF k = 0 THEN Header ELSE Unit(t, b + k)
  <2>1. PICK d \in Nat \ {0} : d = 1 + m
    OBVIOUS
  <2>2. (h + k) - (s + (N - 1)) = (i * d) + k
    <3>1. i * d = i + b
      BY <1>b, <2>1, Z3
    <3> QED BY <1>b, <3>1
  <2>3. k \in 0..d - 1 /\ i \in Nat
    BY <1>b, <2>1
  <2>a. (i * d) + k \in Nat
    BY <2>1, <2>3, Z3
  <2>4. ((i * d) + k) \div d = i /\ ((i * d) + k) % d = k
    BY <2>1, <2>3, Quotient
  <2>5. PICK j \in Nat : j = (i * d) + k
    BY <2>a
  <2>6. (h + k) - HeaderOf(0) = j /\ j \div (1 + Chunk) = i /\ j % (1 + Chunk) = k
    BY <1>2, <1>7, <2>1, <2>2, <2>4, <2>5
  <2>7. ~(j < 0) /\ i * Chunk = b /\ done + 1 = t
    BY <1>2, <1>b, <2>5
  <2>8. SourceCell(h + k) = IF k = 0 THEN Header ELSE Unit(done + 1, (i * Chunk) + k)
    BY <2>6, <2>7 DEF SourceCell
  <2> QED BY <2>7, <2>8
<1>9. mem'[h] = Header /\ \A k \in 1..l : mem'[h + k] = Unit(t, b + k)
  <2>1. ASSUME NEW k \in 0..l PROVE mem'[h + k] = IF k = 0 THEN Header ELSE Unit(t, b + k)
    <3>1. h + k \in s..s + us - 1
      BY <1>a, <1>b
    <3> QED BY <1>4, <1>8, <3>1
  <2>2. 0 \in 0..l /\ h + 0 = h
    OBVIOUS
  <2>3. mem'[h] = Header
    BY <2>1, <2>2
  <2>4. ASSUME NEW k \in 1..l PROVE mem'[h + k] = Unit(t, b + k)
    BY <2>1
  <2> QED BY <2>3, <2>4
<1>10. TxCb(i) = x /\ RxCb(i) = x + 1 /\ TxCb(i + 1) = c + 5 * (i + 1) - 3
  BY <1>b DEF TxCb, RxCb
<1>11. ChunkSize(i) = l
  BY <1>1, <1>2, <1>6 DEF ChunkSize, InChunk, Before
<1>d. ASSUME NEW r \in 0..4, NEW y \in Int, r <= 1 \/ i > 0, y = x + r
      PROVE  y \in c..c + cs - 1 /\ (y - cbs0 + 3) \div 5 = i
  <2>1. y \in c..c + cs - 1
    BY <1>a, <1>b, <1>d
  <2>2. PICK q \in 0..4 : y - c + 3 = (i * 5) + q
    <3>1. CASE i = 0
      BY <1>b, <1>d, <3>1
    <3>2. CASE i # 0
      BY <1>b, <1>d, <3>2
    <3> QED BY <3>1, <3>2
  <2>3. ((i * 5) + q) \div 5 = i
    BY Quotient
  <2> QED BY <2>1, <2>2, <2>3
<1>12. cb'[x] = Block("tx", h, 1 + l, -1)
  <2>1. PICK y \in Nat : y = x + 0 /\ y # x + 1
    OBVIOUS
  <2>2. y \in c..c + cs - 1 /\ (y - cbs0 + 3) \div 5 = i
    BY <1>d, <2>1
  <2>3. ControlBlock(y) = Block("tx", HeaderOf(i), 1 + ChunkSize(i), -1)
    <3>1. RxCb(i) # y /\ TxCb(i) = y /\ RxCb(i) + 1 # y /\ RxCb(i) + 2 # y /\ RxCb(i) + 3 # y
      BY <1>10, <2>1
    <3> QED BY <2>2, <3>1 DEF ControlBlock
  <2> QED BY <1>5, <1>7, <1>11, <2>1, <2>2, <2>3
<1>13. cb'[x + 1] = Block("rx", 0, l, IF i < N - 1 THEN CbAt(c, i + 1) + 2 ELSE -1)
  <2>1. PICK y \in Nat : y = x + 1 /\ y # x
    OBVIOUS
  <2>2. y \in c..c + cs - 1 /\ (y - cbs0 + 3) \div 5 = i
    BY <1>d, <2>1
  <2>3. RxCb(i + 1) + 1 = CbAt(c, i + 1) + 2
    BY <1>10 DEF CbAt, RxCb
  <2>4. ControlBlock(y) =
          Block("rx", 0, ChunkSize(i), IF i < Chunks - 1 THEN RxCb(i + 1) + 1 ELSE -1)
    <3>1. RxCb(i) = y /\ TxCb(i) # y /\ RxCb(i) + 1 # y /\ RxCb(i) + 2 # y /\ RxCb(i) + 3 # y
      BY <1>10, <2>1
    <3> QED BY <2>2, <3>1 DEF ControlBlock
  <2> QED BY <1>2, <1>5, <1>11, <2>1, <2>2, <2>3, <2>4
<1>14. ASSUME i > 0 PROVE mem'[s + (i - 1)] = Address(x)
  <2>1. PICK a \in Nat : a = s + (i - 1) /\ a \in s..s + us - 1
    <3>1. PICK e \in Nat : e = i - 1 /\ e < N
      BY <1>14
    <3>2. e < us
      BY <1>c, <3>1
    <3>3. PICK a \in Nat : a = s + e /\ a \in s..s + us - 1
      BY <3>2
    <3> QED BY <3>1, <3>3
  <2>2. a - HeaderOf(0) < 0 /\ (a - source) + 1 = i
    BY <1>7, <1>14, <2>1
  <2>3. a - source + 1 = i
    BY <2>1, <2>2
  <2> QED BY <1>4, <1>10, <2>1, <2>2, <2>3 DEF SourceCell
<1>15. ASSUME i > 0
       PROVE  /\ cb'[x + 2] = Block("setDMATxAddress", s + (i - 1), 1, x + 3)
              /\ cb'[x + 3] = Block("disableTransferActive", 0, 1, x + 4)
              /\ cb'[x + 4] = Block("startDMATxChannel", 0, 1, x + 1)
  <2>1. PICK y \in Nat, z \in Nat, w \in Nat :
          /\ y = x + 2 /\ z = x + 3 /\ w = x + 4
          /\ y # x /\ y # x + 1 /\ z # x /\ z # x + 1 /\ z # y
          /\ w # x /\ w # x + 1 /\ w # y /\ w # z
          /\ y + 1 = z /\ z + 1 = w
    OBVIOUS
  <2>2. /\ y \in c..c + cs - 1 /\ (y - cbs0 + 3) \div 5 = i
        /\ z \in c..c + cs - 1 /\ (z - cbs0 + 3) \div 5 = i
        /\ w \in c..c + cs - 1 /\ (w - cbs0 + 3) \div 5 = i
    BY <1>d, <1>15, <2>1
  <2>3. source + i - 1 = s + (i - 1)
    BY <1>15
  <2>4. RxCb(i) + 1 = y /\ RxCb(i) + 2 = z /\ RxCb(i) + 3 = w
    BY <1>10, <2>1
  <2>5. ControlBlock(y) = Block("setDMATxAddress", s + (i - 1), 1, z)
    BY <1>10, <2>1, <2>2, <2>3, <2>4 DEF ControlBlock
  <2>6. ControlBlock(z) = Block("disableTransferActive", 0, 1, w)
    BY <1>10, <2>1, <2>2, <2>4 DEF ControlBlock
  <2>7. ControlBlock(w) = Block("startDMATxChannel", 0, 1, x + 1)
    BY <1>10, <2>1, <2>2, <2>4 DEF ControlBlock
  <2> QED BY <1>5, <2>1, <2>2, <2>5, <2>6, <2>7
<1> QED BY <1>1, <1>6, <1>9, <1>12, <1>13, <1>14, <1>15 DEF ChunkHolds

-----------------------------------------------------------------------------
(* Lemmas: what a step of ALL_TASKS_SHOULD_DMA does to the units *)

BusTypes ==
  /\ tx \in Seq(Units) /\ dc \in BOOLEAN
  /\ received \in Seq([unit : Units, dc : BOOLEAN])

LEMMA WrittenKept ==
  ASSUME NEW a \in Nat, NEW n \in Nat, BusTypes, Written(a, n), tx' = tx, received' = received,
         tx # <<>> => dc' = dc, a > 1 => tasks'[a - 1] = tasks[a - 1]
  PROVE  Written(a, n)'
<1>1. tx = <<>> => Len(tx) = 0
  OBVIOUS
<1>2. Len(tx) \in Nat
  BY DEF BusTypes
<1> QED BY <1>1, <1>2 DEF Written

LEMMA OrderedKept ==
  ASSUME NEW a \in Nat, NEW b \in Nat, a <= b, BusTypes, Ordered(a), received' = received,
         \A t \in 1..a : tasks'[t] = tasks[t]
  PROVE  Ordered(b)'
<1> SUFFICES ASSUME NEW i \in 1..Len(received)
             PROVE  /\ received[i].unit.kind = "unit"
                    /\ received[i].dc = (received[i].unit.nr > 0)
                    /\ received[i].unit.of \in 1..b
                    /\ i = 1 => received[i].unit = Unit(1, 0)
                    /\ i # 1 => Follows(received[i - 1].unit, received[i].unit)'
  BY DEF Ordered, Unit, Follows
<1>1. /\ received[i].unit.kind = "unit"
      /\ received[i].dc = (received[i].unit.nr > 0)
      /\ received[i].unit.of \in 1..a
      /\ i = 1 => received[i].unit = Unit(1, 0)
      /\ i # 1 => Follows(received[i - 1].unit, received[i].unit)
  BY DEF Ordered
<1>2. received[i].unit.of \in 1..b
  BY <1>1
<1>3. ASSUME i # 1 PROVE Follows(received[i - 1].unit, received[i].unit)'
  <2>1. i - 1 \in 1..Len(received) BY <1>3 DEF BusTypes
  <2>2. received[i - 1].unit.of \in 1..a BY <2>1 DEF Ordered
  <2>3. tasks'[received[i - 1].unit.of] = tasks[received[i - 1].unit.of] BY <2>2
  <2> QED BY <1>1, <1>3, <2>3 DEF Follows
<1> QED BY <1>1, <1>2, <1>3

\* The next unit of the task is written.
LEMMA WrittenMore ==
  ASSUME NEW a \in Nat \ {0}, NEW n \in Nat, BusTypes, Written(a, n), Len(tx) <= n, dc, dc' = dc,
         tx' = Append(tx, Unit(a, n + 1)), received' = received, tasks' = tasks
  PROVE  Written(a, n + 1)' /\ tx' \in Seq(Units) /\ Len(tx') = Len(tx) + 1
<1>1. tx \in Seq(Units) /\ Len(tx) \in Nat
  BY DEF BusTypes
<1>2. Unit(a, n + 1) \in Units
  BY DEF Unit, Units
<1>3. /\ tx' \in Seq(Units) /\ Len(tx') = Len(tx) + 1
      /\ \A i \in 1..Len(tx) : tx'[i] = tx[i]
      /\ tx'[Len(tx) + 1] = Unit(a, n + 1)
  BY <1>1, <1>2
<1>4. ASSUME NEW i \in 1..Len(tx') PROVE tx'[i] = Unit(a, (n + 1) - Len(tx') + i)
  <2>1. CASE i = Len(tx) + 1
    BY <1>1, <1>3, <2>1
  <2>2. CASE i \in 1..Len(tx)
    <3>1. tx[i] = Unit(a, n - Len(tx) + i) BY <2>2 DEF Written
    <3>2. (n + 1) - Len(tx') + i = n - Len(tx) + i BY <1>1, <1>3, <2>2
    <3> QED BY <1>3, <2>2, <3>1, <3>2
  <2> QED BY <1>1, <1>3, <2>1, <2>2
<1>5. (n + 1) - Len(tx') = n - Len(tx) /\ Len(tx') <= n + 1 /\ Len(tx') <= (n + 1) + 1
  BY <1>1, <1>3
<1> QED BY <1>1, <1>3, <1>4, <1>5 DEF Written

\* The command of the next task is written to the empty FIFO, with the line low.
LEMMA WrittenNext ==
  ASSUME NEW a \in Nat, NEW n \in Nat, BusTypes, Written(a, n), tx = <<>>, ~dc, dc' = dc,
         tx' = Append(tx, Unit(a + 1, 0)), received' = received, tasks' = tasks,
         n = IF a = 0 THEN 0 ELSE tasks[a].size
  PROVE  Written(a + 1, 0)' /\ tx' \in Seq(Units) /\ Len(tx') = 1
<1>1. tx \in Seq(Units) /\ Len(tx) = 0
  BY DEF BusTypes
<1>2. Unit(a + 1, 0) \in Units
  BY DEF Unit, Units
<1>3. tx' \in Seq(Units) /\ Len(tx') = 1 /\ tx'[1] = Unit(a + 1, 0)
  BY <1>1, <1>2
<1>4. ASSUME NEW i \in 1..Len(tx') PROVE tx'[i] = Unit(a + 1, 0 - Len(tx') + i)
  BY <1>3
<1>5. IF a = 0 THEN received = <<>>
      ELSE Len(received) > 0 /\ received[Len(received)].unit = Unit(a, tasks[a].size)
  BY <1>1 DEF Written
<1> QED BY <1>3, <1>4, <1>5 DEF Written

\* The display gets the unit at the head of the FIFO: the one that comes next.
LEMMA WrittenOut ==
  ASSUME NEW a \in Nat, NEW n \in Nat, BusTypes, Written(a, n), Ordered(a), tx # <<>>,
         dc' = dc, tasks' = tasks,
         tx' = Tail(tx), received' = Append(received, [unit |-> Head(tx), dc |-> dc])
  PROVE  /\ Written(a, n)' /\ Ordered(a)' /\ a > 0
         /\ tx' \in Seq(Units) /\ Len(tx') = Len(tx) - 1
         /\ received' \in Seq([unit : Units, dc : BOOLEAN])
<1> DEFINE last == Len(received)
           r == [unit |-> Head(tx), dc |-> dc]
<1>1. /\ tx \in Seq(Units) /\ Len(tx) \in Nat \ {0} /\ last \in Nat
      /\ received \in Seq([unit : Units, dc : BOOLEAN]) /\ dc \in BOOLEAN
  BY EmptySeq DEF BusTypes
<1>2. /\ tx' \in Seq(Units) /\ Len(tx') = Len(tx) - 1 /\ \A i \in 1..Len(tx') : tx'[i] = tx[i + 1]
  BY <1>1, HeadTailProperties
<1>3. Head(tx) = tx[1] /\ tx[1] \in Units /\ tx[1] = Unit(a, n - Len(tx) + 1)
  <2>1. Head(tx) = tx[1] BY <1>1
  <2>2. 1 \in 1..Len(tx) BY <1>1
  <2>3. tx[1] \in Units BY <1>1, <2>2, ElementOfSeq
  <2> QED BY <2>1, <2>2, <2>3 DEF Written
<1>4. r \in [unit : Units, dc : BOOLEAN]
  BY <1>1, <1>3
<1>5. /\ received' \in Seq([unit : Units, dc : BOOLEAN]) /\ Len(received') = last + 1
      /\ \A i \in 1..last : received'[i] = received[i]
      /\ received'[last + 1] = r
  BY <1>1, <1>4
<1>6. a > 0 /\ (IF dc THEN Len(tx) <= n ELSE n = 0 /\ Len(tx) = 1)
  BY DEF Written
<1>7. PICK k \in Nat : k = (n - Len(tx)) + 1
  <2>1. PICK j \in Nat \ {0} : j = Len(tx) /\ j <= n + 1
    BY <1>1, <1>6
  <2>2. (n - j) + 1 \in Nat
    BY <2>1
  <2> QED BY <2>1, <2>2
<1>8. tx[1] = Unit(a, k) /\ n - Len(tx') = k /\ (dc <=> k > 0) /\ Len(tx') <= n
  <2>1. k = n - Len(tx) + 1 /\ n - Len(tx') = k /\ Len(tx') <= n /\ (dc <=> k > 0)
    BY <1>1, <1>2, <1>6, <1>7
  <2> QED BY <1>3, <2>1
<1>9. Written(a, n)'
  <2>1. ASSUME NEW i \in 1..Len(tx') PROVE tx'[i] = Unit(a, n - Len(tx') + i)
    <3>1. i + 1 \in 1..Len(tx) BY <1>1, <1>2
    <3>2. tx[i + 1] = Unit(a, n - Len(tx) + (i + 1)) BY <3>1 DEF Written
    <3>3. n - Len(tx') + i = n - Len(tx) + (i + 1) BY <1>1, <1>2
    <3> QED BY <1>2, <3>2, <3>3
  <2>2. received'[Len(received')].unit = Unit(a, n - Len(tx')) BY <1>3, <1>5, <1>8
  <2>3. tx' # <<>> => dc
    <3>1. ASSUME tx' # <<>> PROVE Len(tx') # 0 BY <1>2, <3>1, EmptySeq
    <3> QED BY <1>1, <1>2, <1>6, <3>1
  <2>4. Len(received') > 0 /\ Len(tx') <= n /\ ~(Len(tx') > n)
    BY <1>1, <1>5, <1>8, <1>2
  <2> QED BY <1>6, <1>8, <2>1, <2>2, <2>3, <2>4 DEF Written
<1>10. Ordered(a)'
  <2>1. r.unit = Unit(a, k) /\ r.dc = dc BY <1>3, <1>8
  <2>2. r.unit.kind = "unit" /\ r.unit.of = a /\ r.unit.nr = k
    BY <2>1 DEF Unit
  <2>3. dc = (k > 0)
    BY <1>1, <1>8
  <2>4. IF last = 0 THEN r.unit = Unit(1, 0) ELSE Follows(received[last].unit, r.unit)
    <3>1. CASE Len(tx) <= n
      <4>1. last > 0 /\ received[last].unit = Unit(a, n - Len(tx))
        BY <1>6, <3>1 DEF Written
      <4>2. n - Len(tx) + 1 = k
        BY <1>1, <1>7
      <4> QED BY <1>1, <2>2, <4>1, <4>2 DEF Follows, Unit
    <3>2. CASE ~(Len(tx) <= n)
      <4>1. Len(tx) > n /\ k = 0
        BY <1>1, <1>6, <1>7, <3>2
      <4>2. IF a = 1 THEN received = <<>>
            ELSE last > 0 /\ received[last].unit = Unit(a - 1, tasks[a - 1].size)
        BY <1>6, <4>1 DEF Written
      <4>3. CASE a = 1
        BY <2>1, <4>1, <4>2, <4>3
      <4>4. CASE a # 1
        BY <1>1, <1>6, <2>2, <4>1, <4>2, <4>4 DEF Follows, Unit
      <4> QED BY <4>3, <4>4
    <3> QED BY <3>1, <3>2
  <2>5. \A q, u : Follows(q, u)' = Follows(q, u)
    BY DEF Follows
  <2>6. ASSUME NEW i \in 1..Len(received')
        PROVE  /\ received'[i].unit.kind = "unit"
               /\ received'[i].dc = (received'[i].unit.nr > 0)
               /\ received'[i].unit.of \in 1..a
               /\ i = 1 => received'[i].unit = Unit(1, 0)
               /\ i # 1 => Follows(received'[i - 1].unit, received'[i].unit)
    <3>1. CASE i = last + 1
      <4>1. received'[i] = r BY <1>5, <3>1
      <4>2. i = 1 <=> last = 0 BY <1>1, <3>1
      <4>3. i # 1 => i - 1 = last /\ last \in 1..last BY <1>1, <3>1
      <4>4. i # 1 => received'[i - 1] = received[last] BY <1>5, <4>3
      <4>5. i = 1 => r.unit = Unit(1, 0) BY <2>4, <4>2
      <4>6. i # 1 => Follows(received[last].unit, r.unit) BY <2>4, <4>2
      <4>7. r.unit.of \in 1..a BY <1>6, <2>2
      <4>8. r.dc = (r.unit.nr > 0) BY <2>1, <2>2, <2>3
      <4> QED BY <2>2, <4>1, <4>4, <4>5, <4>6, <4>7, <4>8
    <3>2. CASE i \in 1..last
      <4>1. received'[i] = received[i] BY <1>5, <3>2
      <4>2. i # 1 => i - 1 \in 1..last BY <1>1, <3>2
      <4>3. i # 1 => received'[i - 1] = received[i - 1] BY <1>5, <4>2
      <4> QED BY <3>2, <4>1, <4>3 DEF Ordered
    <3> QED BY <1>1, <1>5, <3>1, <3>2
  <2>7. ASSUME NEW i \in 1..Len(received'), i # 1
        PROVE  Follows(received[i - 1].unit, received[i].unit)'
    BY <2>6, <2>7 DEF Follows
  <2> QED BY <2>6, <2>7 DEF Ordered, Unit
<1> QED BY <1>2, <1>5, <1>6, <1>9, <1>10

-----------------------------------------------------------------------------
(* The steps of ALL_TASKS_SHOULD_DMA *)

ChainAlive == build = "single_dma" /\ ChainInv

LEMMA ChainFacts ==
  ASSUME ChainAlive
  PROVE  /\ done \in Nat /\ Len(tasks) \in Nat /\ Last \in Nat /\ Last <= Len(tasks)
         /\ \A t \in 1..Len(tasks) : tasks[t] \in [dma : BOOLEAN, size : Nat] /\ tasks[t].size \in Nat
         /\ done < Len(tasks) => task.size \in Nat /\ UnitsFor(task.size) < SourceSize
                                 /\ CbsFor(task.size) < NumCbs
         /\ done < Len(tasks) /\ SentByDma => task.size > 0
         /\ BusTypes /\ Len(tx) \in Nat /\ (tx = <<>> <=> Len(tx) = 0) /\ rx \in Nat
         /\ FifoSize \in Nat /\ FifoSize > 1 /\ SourceSize \in Nat /\ NumCbs \in Nat
         /\ ~Batches /\ ~Polled /\ ~StopsWaiting
<1>1. ChainKinds /\ ChainTask /\ build = "single_dma"
  BY DEF ChainAlive, ChainInv
<1>2. /\ tasks \in Seq([dma : BOOLEAN, size : Nat]) /\ done \in Nat /\ Len(tasks) \in Nat
      /\ done <= Len(tasks)
  BY <1>1 DEF ChainKinds
<1>3. ASSUME NEW t \in 1..Len(tasks)
      PROVE  tasks[t] \in [dma : BOOLEAN, size : Nat] /\ tasks[t].size \in Nat
  <2>1. tasks[t] \in [dma : BOOLEAN, size : Nat]
    BY <1>2, <1>3, ElementOfSeq, Zenon
  <2> QED BY <2>1
<1>4. Last \in Nat /\ Last <= Len(tasks)
  BY <1>1, <1>2 DEF Last, ChainTask, ChainKinds
<1>5. ASSUME done < Len(tasks)
      PROVE  /\ task.size \in Nat /\ UnitsFor(task.size) < SourceSize
             /\ CbsFor(task.size) < NumCbs
  <2>1. done + 1 \in 1..Len(tasks)
    BY <1>2, <1>5
  <2> QED BY <1>1, <1>3, <2>1 DEF task, ChainKinds
<1>6. ASSUME done < Len(tasks), SentByDma PROVE task.size > 0
  BY <1>1, <1>5, <1>6, TransferAssumption DEF SentByDma
<1>7. BusTypes /\ Len(tx) \in Nat /\ (tx = <<>> <=> Len(tx) = 0) /\ rx \in Nat
  BY <1>1, EmptySeq, TransferAssumption DEF ChainKinds, BusTypes
<1>8. FifoSize \in Nat /\ FifoSize > 1 /\ SourceSize \in Nat /\ NumCbs \in Nat
  BY TransferAssumption
<1>9. ~Batches /\ ~Polled /\ ~StopsWaiting
  BY <1>1 DEF Batches, Polled, StopsWaiting, ChainKinds
<1> QED BY <1>2, <1>3, <1>4, <1>5, <1>6, <1>7, <1>8, <1>9

\* The chain in memory stays as it is.
LEMMA ChainMemoryKept ==
  ASSUME ChainMemory, UNCHANGED <<mem, cb, dmaSourceEnd, firstFreeCB, source, cbs0, done>>,
         HasSource' => HasSource /\ task' = task, HasCbs' => HasCbs /\ task' = task,
         HasChain' => HasChain /\ task' = task
  PROVE  ChainMemory'
<1>1. ASSUME HasChain' PROVE ChainHolds(done + 1, task.size, source, cbs0)'
  <2>1. ChainHolds(done + 1, task.size, source, cbs0) /\ task' = task
    BY <1>1 DEF ChainMemory
  <2>2. ChainHolds(done + 1, task.size, source, cbs0)' = ChainHolds(done + 1, task.size, source, cbs0)
    BY <2>1 DEF ChainHolds, ChunkHolds
  <2> QED BY <2>1, <2>2
<1> QED BY <1>1 DEF ChainMemory

\* So does the progress of the chain under way.
LEMMA UnderWayKept ==
  ASSUME NEW t, NEW size, NEW s, NEW c, NEW i, NEW n, ChainUnderWay(t, size, s, c, i, n),
         UNCHANGED <<mem, cb, spi, dma>>, pc # "startRx", pc' # "startRx", ~Waited',
         SourceLimit' = SourceLimit, CbLimit' = CbLimit
  PROVE  ChainUnderWay(t, size, s, c, i, n)'
<1>1. ChainHolds(t, size, s, c)'
  BY DEF ChainUnderWay, ChainHolds, ChunkHolds
<1>2. ChunkMoves(size, s, c, i, n - Before(i))' = ChunkMoves(size, s, c, i, n - Before(i))
  BY DEF ChunkMoves, spi, dma
<1>3. ChunkStarts(c, i)' = ChunkStarts(c, i)
  BY DEF ChunkStarts, spi, dma
<1> QED BY <1>1, <1>2, <1>3 DEF ChainUnderWay

\* While the RX channel is active the chain is under way, else it is at its end.
LEMMA UnderWayActive ==
  ASSUME NEW t, NEW size, NEW s, NEW c, NEW i, NEW n, ChainUnderWay(t, size, s, c, i, n),
         pc # "startRx"
  PROVE  rxDma.active
BY DEF ChainUnderWay, ChunkMoves, ChunkStarts

LEMMA ChainBusKept ==
  ASSUME ChainBus, ChainAlive, UNCHANGED <<mem, cb, spi, dma, dc, received>>, Last' = Last,
         pc # "startRx", pc' # "startRx", Waited' => ~rxDma.active,
         rxDma.active => SourceLimit' = SourceLimit /\ CbLimit' = CbLimit,
         \A t \in 1..Last : tasks'[t] = tasks[t]
  PROVE  ChainBus'
<1>1. PICK a \in Nat \ {0} : a = Last /\ a <= Len(tasks)
  BY ChainFacts DEF ChainBus
<1>2. PICK size \in Nat : size = tasks[a].size /\ size = tasks'[a].size
  BY <1>1, ChainFacts
<1>3. PICK n \in 0..size :
        /\ Written(a, n)
        /\ \/ AtRest(n) /\ pc # "startRx"
           \/ \E s \in 0..SourceSize, c \in 0..NumCbs, i \in 0..size :
                ChainUnderWay(a, size, s, c, i, n)
  BY <1>1, <1>2 DEF ChainBus
<1>4. Written(a, n)'
  <2>1. a > 1 => tasks'[a - 1] = tasks[a - 1]
    BY <1>1
  <2>2. BusTypes
    BY ChainFacts
  <2> QED BY <1>3, <2>1, <2>2, WrittenKept DEF spi
<1>5. \/ AtRest(n)' /\ pc' # "startRx"
      \/ \E s \in 0..SourceSize, c \in 0..NumCbs, i \in 0..size :
           ChainUnderWay(a, size, s, c, i, n)'
  <2>1. CASE AtRest(n)
    BY <1>1, <1>2, <2>1 DEF AtRest, spi, dma
  <2>2. CASE ~AtRest(n)
    <3>1. PICK s \in 0..SourceSize, c \in 0..NumCbs, i \in 0..size :
            ChainUnderWay(a, size, s, c, i, n)
      BY <1>3, <2>2
    <3>2. rxDma.active
      BY <3>1, UnderWayActive
    <3>3. ChainUnderWay(a, size, s, c, i, n)'
      BY <3>1, <3>2, UnderWayKept
    <3> QED BY <3>3
  <2> QED BY <2>1, <2>2
<1> QED BY <1>1, <1>2, <1>4, <1>5 DEF ChainBus, spi

LEMMA PolledNrNat ==
  ASSUME ChainAlive
  PROVE  PolledNr \in Nat
<1>1. sent \in Nat
  BY DEF ChainAlive, ChainInv, ChainKinds
<1>2. PICK a \in Nat, m \in Nat : a = Last /\ m = Len(tasks) /\ a <= m
  BY ChainFacts
<1>3. a <= m
  BY <1>2
<1>4. a > 0 => a \in 1..m
  BY <1>3
<1>5. a > 0 => tasks[a].size \in Nat
  BY <1>2, <1>4, ChainFacts
<1> QED BY <1>1, <1>2, <1>5 DEF PolledNr

\* Places where the units of the task before may still be in the FIFOs.
Early == {"done", "fetch", "asleep", "start", "wait"}

LEMMA PolledBusKept ==
  ASSUME ChainAlive, PolledBus, UNCHANGED <<spi, dma, dc, received>>,
         Last' = Last, PolledNr' = PolledNr, \A t \in 1..Last : tasks'[t] = tasks[t],
         pc \notin {"startTx", "startRx", "command", "clocked", "prefill", "startDma"},
         pc' \notin {"startTx", "startRx", "command", "clocked", "prefill", "push", "startDma"},
         pc' \in Early \/ pc \notin Early \cup {"push"}
  PROVE  PolledBus'
<1>1. PICK a \in Nat, n \in Nat : a = Last /\ n = PolledNr /\ a = Last' /\ n = PolledNr'
  BY ChainFacts, PolledNrNat
<1>2. Written(a, n) /\ BusTypes /\ (a > 1 => tasks'[a - 1] = tasks[a - 1])
  BY <1>1, ChainFacts DEF PolledBus
<1>3. Written(a, n)'
  BY <1>2, WrittenKept DEF spi
<1>4. Written(Last, PolledNr)'
  BY <1>1, <1>3
<1> QED BY <1>4 DEF PolledBus, Early, spi, dma

\* A step of the driver, or a commit, that leaves the bus and the channels alone.
LEMMA QuietStep ==
  ASSUME ChainAlive, UNCHANGED <<build, spi, dma, dc, received>>,
         Last' = Last, \A t \in 1..Last : tasks'[t] = tasks[t],
         ChainKinds', ChainTask', ChainMemory',
         IF Chaining THEN Chaining' /\ ChainBus' ELSE ~Chaining' /\ PolledBus'
  PROVE  ChainAlive'
<1>1. PICK a \in Nat : a = Last /\ a = Last'
  BY ChainFacts
<1>2. Ordered(a) /\ BusTypes
  BY <1>1, ChainFacts DEF ChainAlive, ChainInv
<1>3. Ordered(a)'
  BY <1>1, <1>2, OrderedKept
<1> QED BY <1>1, <1>3 DEF ChainAlive, ChainInv

\* The parts of the invariant, and what a step that leaves memory, bus and channels alone keeps.
LEMMA ChainParts ==
  ASSUME ChainAlive
  PROVE  /\ ChainKinds /\ ChainTask /\ ChainMemory /\ build = "single_dma"
         /\ IF Chaining THEN ChainBus ELSE PolledBus
BY DEF ChainAlive, ChainInv

LEMMA RunCommittedChain ==
  ASSUME ChainAlive, RunCommitted
  PROVE  ChainAlive'
<1> USE DEF RunCommitted, config, queue, driver, memory
<1>0. ChainKinds /\ ChainTask /\ ChainMemory /\ (IF Chaining THEN ChainBus ELSE PolledBus)
  BY ChainParts
<1>1. ChainKinds'
  BY <1>0 DEF ChainKinds, spi, dma
<1>2. ChainTask'
  BY <1>0 DEF ChainTask, ByDma, HasSource, HasCbs, HasChain, Finishing, Restoring
<1>3. ~HasSource /\ ~HasSource' /\ ~HasCbs /\ ~HasCbs' /\ ~HasChain'
  BY DEF HasSource, HasCbs, HasChain, Finishing
<1>4. ChainMemory'
  BY <1>0, <1>3, ChainMemoryKept
<1>5. Last' = Last /\ (Chaining' <=> Chaining) /\ PolledNr' = PolledNr
  BY DEF Last, Chaining, PolledNr
<1>6. ASSUME Chaining PROVE ChainBus'
  BY <1>0, <1>3, <1>5, <1>6, ChainBusKept DEF SourceLimit, CbLimit, Waited
<1>7. ASSUME ~Chaining PROVE PolledBus'
  BY <1>0, <1>5, <1>7, PolledBusKept DEF Early
<1> QED BY <1>1, <1>2, <1>4, <1>5, <1>6, <1>7, QuietStep

LEMMA FetchTaskChain ==
  ASSUME ChainAlive, FetchTask
  PROVE  ChainAlive'
<1> USE DEF FetchTask, config, queue, driver, memory
<1>0. ChainKinds /\ ChainTask /\ ChainMemory /\ (IF Chaining THEN ChainBus ELSE PolledBus)
  BY ChainParts
<1>1. ChainKinds'
  BY <1>0 DEF ChainKinds, spi, dma
<1>2. ChainTask'
  BY <1>0 DEF ChainTask, ByDma, HasSource, HasCbs, HasChain, Finishing, Restoring, MoreTasks
<1>3. ~HasSource /\ ~HasSource' /\ ~HasCbs /\ ~HasCbs' /\ ~HasChain'
  BY DEF HasSource, HasCbs, HasChain, Finishing
<1>4. ChainMemory'
  BY <1>0, <1>3, ChainMemoryKept
<1>5. Last' = Last /\ (Chaining' <=> Chaining) /\ PolledNr' = PolledNr
  BY DEF Last, Chaining, PolledNr
<1>6. ASSUME Chaining PROVE ChainBus'
  BY <1>0, <1>3, <1>5, <1>6, ChainBusKept DEF SourceLimit, CbLimit, Waited
<1>7. ASSUME ~Chaining PROVE PolledBus'
  BY <1>0, <1>5, <1>7, PolledBusKept DEF Early
<1> QED BY <1>1, <1>2, <1>4, <1>5, <1>6, <1>7, QuietStep

LEMMA EndBatchChain ==
  ASSUME ChainAlive, EndBatch
  PROVE  ChainAlive'
<1> USE DEF EndBatch, config, queue, driver, memory
<1>0. ChainKinds /\ ChainTask /\ ChainMemory /\ (IF Chaining THEN ChainBus ELSE PolledBus)
  BY ChainParts
<1>a. pc = "fetch" /\ pc' = "asleep" /\ ret' = ret
  BY <1>0, ChainFacts DEF ChainKinds
<1>1. ChainKinds'
  BY <1>0, <1>a DEF ChainKinds, spi, dma
<1>2. ChainTask'
  BY <1>0, <1>a DEF ChainTask, ByDma, HasSource, HasCbs, HasChain, Finishing, Restoring
<1>3. ~HasSource /\ ~HasSource' /\ ~HasCbs /\ ~HasCbs' /\ ~HasChain'
  BY <1>a DEF HasSource, HasCbs, HasChain, Finishing
<1>4. ChainMemory'
  BY <1>0, <1>3, ChainMemoryKept
<1>5. Last' = Last /\ (Chaining' <=> Chaining) /\ PolledNr' = PolledNr
  BY <1>a DEF Last, Chaining, PolledNr
<1>6. ASSUME Chaining PROVE ChainBus'
  BY <1>0, <1>a, <1>3, <1>5, <1>6, ChainBusKept DEF SourceLimit, CbLimit, Waited
<1>7. ASSUME ~Chaining PROVE PolledBus'
  BY <1>0, <1>a, <1>5, <1>7, PolledBusKept DEF Early
<1> QED BY <1>1, <1>2, <1>4, <1>5, <1>6, <1>7, QuietStep

LEMMA StartTaskChain ==
  ASSUME ChainAlive, StartTask
  PROVE  ChainAlive'
<1> USE DEF StartTask, config, queue, driver, memory
<1>0. ChainKinds /\ ChainTask /\ ChainMemory /\ build = "single_dma"
      /\ (IF Chaining THEN ChainBus ELSE PolledBus)
  BY ChainParts
<1>a. \/ previousTaskWasSPI /\ pc' = "wait" /\ ret' = ret
      \/ ~previousTaskWasSPI /\ SentByDma /\ pc' = "grabSource" /\ ret' = ret
      \/ ~previousTaskWasSPI /\ ~SentByDma /\ pc' = "finishTx" /\ ret' = "restore"
  BY <1>0
<1>1. ChainKinds'
  BY <1>0 DEF ChainKinds, spi, dma
<1>2. ChainTask'
  <2>1. SentByDma' = SentByDma
    BY DEF SentByDma, task
  <2> QED BY <1>0, <1>a, <2>1
          DEF ChainTask, ByDma, HasSource, HasCbs, HasChain, Finishing, Restoring
<1>3. ~HasSource /\ ~HasSource' /\ ~HasCbs /\ ~HasCbs' /\ ~HasChain'
  BY <1>a DEF HasSource, HasCbs, HasChain, Finishing
<1>4. ChainMemory'
  BY <1>0, <1>3, ChainMemoryKept
<1>5. Last' = Last /\ (Chaining' <=> Chaining) /\ PolledNr' = PolledNr
  BY <1>a DEF Last, Chaining, PolledNr
<1>6. ASSUME Chaining PROVE ChainBus'
  BY <1>0, <1>a, <1>3, <1>5, <1>6, ChainBusKept DEF SourceLimit, CbLimit, Waited
<1>7. ASSUME ~Chaining PROVE PolledBus'
  <2>1. pc' = "wait"
    BY <1>a, <1>7 DEF Chaining
  <2> QED BY <1>0, <1>5, <1>7, <2>1, PolledBusKept DEF Early
<1> QED BY <1>1, <1>2, <1>4, <1>5, <1>6, <1>7, QuietStep

LEMMA FinishTxChain ==
  ASSUME ChainAlive, FinishTx
  PROVE  ChainAlive'
<1> USE DEF FinishTx, config, queue, driver, memory
<1>0. ChainKinds /\ ChainTask /\ ChainMemory /\ (IF Chaining THEN ChainBus ELSE PolledBus)
  BY ChainParts
<1>1. ChainKinds'
  BY <1>0 DEF ChainKinds, spi, dma
<1>2. ChainTask'
  <2>1. SentByDma' = SentByDma
    BY DEF SentByDma, task
  <2> QED BY <1>0, <2>1 DEF ChainTask, ByDma, HasSource, HasCbs, HasChain, Finishing, Restoring
<1>3. HasSource' = HasSource /\ HasCbs' = HasCbs /\ HasChain' = HasChain /\ task' = task
  BY DEF HasSource, HasCbs, HasChain, Finishing, task
<1>4. ChainMemory'
  BY <1>0, <1>3, ChainMemoryKept
<1>5. Last' = Last /\ (Chaining' <=> Chaining) /\ PolledNr' = PolledNr
  BY DEF Last, Chaining, PolledNr
<1>6. ASSUME Chaining PROVE ChainBus'
  BY <1>0, <1>3, <1>5, <1>6, ChainBusKept DEF SourceLimit, CbLimit, Waited
<1>7. ASSUME ~Chaining PROVE PolledBus'
  BY <1>0, <1>5, <1>7, PolledBusKept DEF Early
<1> QED BY <1>1, <1>2, <1>4, <1>5, <1>6, <1>7, QuietStep

LEMMA FinishRxChain ==
  ASSUME ChainAlive, FinishRx
  PROVE  ChainAlive'
<1> USE DEF FinishRx, config, queue, driver, memory
<1>0. ChainKinds /\ ChainTask /\ ChainMemory /\ (IF Chaining THEN ChainBus ELSE PolledBus)
  BY ChainParts
<1>a. /\ pc = "finishRx" /\ ret' = ret /\ ~rxDma.active
      /\ pc' = ret /\ ret \in {"restore", "sourceWrapped", "cbsWrapped", "sendCommand"}
  BY <1>0, ChainFacts DEF ChainKinds
<1>1. ChainKinds'
  BY <1>0, <1>a DEF ChainKinds, spi, dma
<1>2. ChainTask'
  <2>1. SentByDma' = SentByDma /\ task' = task
    BY DEF SentByDma, task
  <2> QED BY <1>0, <1>a, <2>1
          DEF ChainTask, ByDma, HasSource, HasCbs, HasChain, Finishing, Restoring
<1>3. HasSource' = HasSource /\ HasCbs' = HasCbs /\ HasChain' = HasChain /\ task' = task
  BY <1>a DEF HasSource, HasCbs, HasChain, Finishing, task
<1>4. ChainMemory'
  BY <1>0, <1>3, ChainMemoryKept
<1>5. Last' = Last /\ (Chaining' <=> Chaining) /\ PolledNr' = PolledNr
  BY <1>a DEF Last, Chaining, PolledNr
<1>6. ASSUME Chaining PROVE ChainBus'
  BY <1>0, <1>a, <1>3, <1>5, <1>6, ChainBusKept
<1>7. ASSUME ~Chaining PROVE PolledBus'
  BY <1>0, <1>a, <1>5, <1>7, PolledBusKept DEF Early
<1> QED BY <1>1, <1>2, <1>4, <1>5, <1>6, <1>7, QuietStep

LEMMA DoneTaskChain ==
  ASSUME ChainAlive, DoneTask
  PROVE  ChainAlive'
<1> USE DEF DoneTask, config, driver, memory
<1>0. ChainKinds /\ ChainTask /\ ChainMemory /\ (IF Chaining THEN ChainBus ELSE PolledBus)
  BY ChainParts
<1>1. ChainKinds'
  BY <1>0 DEF ChainKinds, ChainTask, spi, dma
<1>2. ChainTask'
  BY <1>0 DEF ChainTask, ByDma, HasSource, HasCbs, HasChain, Finishing, Restoring
<1>3. ~HasSource /\ ~HasSource' /\ ~HasCbs /\ ~HasCbs' /\ ~HasChain'
  BY DEF HasSource, HasCbs, HasChain, Finishing
<1>4. ChainMemory'
  BY <1>0, <1>3 DEF ChainMemory
<1>5. Last' = Last /\ (Chaining' <=> Chaining) /\ PolledNr' = PolledNr
  BY DEF Last, Chaining, PolledNr
<1>6. ASSUME Chaining PROVE ChainBus'
  BY <1>0, <1>3, <1>5, <1>6, ChainBusKept DEF SourceLimit, CbLimit, Waited
<1>7. ASSUME ~Chaining PROVE PolledBus'
  BY <1>0, <1>5, <1>7, PolledBusKept DEF Early
<1> QED BY <1>1, <1>2, <1>4, <1>5, <1>6, <1>7, QuietStep

LEMMA EndPushChain ==
  ASSUME ChainAlive, EndPush
  PROVE  ChainAlive'
<1> USE DEF EndPush, config, queue, memory
<1>0. ChainKinds /\ ChainTask /\ ChainMemory /\ (IF Chaining THEN ChainBus ELSE PolledBus)
  BY ChainParts
<1>a. pc = "push" /\ pc' = "done" /\ ret' = ret /\ previousTaskWasSPI'
  BY <1>0 DEF ChainKinds
<1>1. ChainKinds'
  BY <1>0, <1>a DEF ChainKinds, spi, dma
<1>2. ChainTask'
  BY <1>0, <1>a DEF ChainTask, ByDma, HasSource, HasCbs, HasChain, Finishing, Restoring
<1>3. ~HasSource /\ ~HasSource' /\ ~HasCbs /\ ~HasCbs' /\ ~HasChain'
  BY <1>a DEF HasSource, HasCbs, HasChain, Finishing
<1>4. ChainMemory'
  BY <1>0, <1>3, ChainMemoryKept
<1>5. Last' = Last /\ ~Chaining' /\ ~Chaining /\ PolledNr' = PolledNr
  BY <1>0, <1>a DEF Last, Chaining, PolledNr, ChainKinds, task
<1>7. PolledBus'
  BY <1>0, <1>a, <1>5, PolledBusKept DEF Early
<1> QED BY <1>1, <1>2, <1>4, <1>5, <1>7, QuietStep

LEMMA GrabSourceChain ==
  ASSUME ChainAlive, GrabFreeDMASourceBytes
  PROVE  ChainAlive'
<1> USE DEF config, queue, memory
<1>0. ChainKinds /\ ChainTask /\ ChainMemory /\ build = "single_dma"
      /\ (IF Chaining THEN ChainBus ELSE PolledBus)
  BY ChainParts
<1>b. PICK units \in Nat : units = UnitsFor(task.size) /\ units < SourceSize
                           /\ units = SourceUnits(Chunks, task.size)
  <2>1. done < Len(tasks) /\ SentByDma
    BY <1>0 DEF GrabFreeDMASourceBytes, ChainTask, ByDma
  <2>2. task.size \in Nat \ {0} /\ UnitsFor(task.size) < SourceSize
    BY <2>1, ChainFacts
  <2>3. UnitsFor(task.size) \in Nat
    BY <2>2, GrabSizes
  <2>4. Chunks = MostChunks(task.size)
    BY <1>0 DEF Chunks, Chunk, MostChunks
  <2> QED BY <2>2, <2>3, <2>4 DEF UnitsFor
<1>a. /\ pc \in {"grabSource", "sourceWrapped"}
      /\ UNCHANGED <<config, running, exiting, queue, sent, pumped, previousTaskWasSPI,
                     firstFreeCB, cbs0, mem, cb, spi, dc, dma, received>>
      /\ \/ /\ pc = "grabSource" /\ pc' = "finishTx" /\ ret' = "sourceWrapped"
            /\ source' = source /\ dmaSourceEnd' = dmaSourceEnd
         \/ /\ pc' = "grabCbs" /\ ret' = ret /\ source' \in Nat
            /\ dmaSourceEnd' = source' + units /\ dmaSourceEnd' < SourceSize
            /\ pc = "grabSource" => source' = dmaSourceEnd
  <2>1. dmaSourceEnd \in Nat /\ SourceSize \in Nat
    BY <1>0, ChainFacts DEF ChainMemory
  <2> QED BY <1>b, <2>1 DEF GrabFreeDMASourceBytes
<1> HIDE DEF GrabFreeDMASourceBytes
<1>1. ChainKinds'
  BY <1>0, <1>a DEF ChainKinds, spi, dma
<1>2. ChainTask'
  <2>1. SentByDma' = SentByDma /\ task' = task
    BY <1>a DEF SentByDma, task
  <2> QED BY <1>0, <1>a, <2>1
          DEF ChainTask, ByDma, HasSource, HasCbs, HasChain, Finishing, Restoring
<1>3. ~HasSource /\ ~HasCbs /\ ~HasCbs' /\ ~HasChain'
  BY <1>a DEF HasSource, HasCbs, HasChain, Finishing
<1>4. ChainMemory'
  <2>1. /\ dmaSourceEnd' \in 0..SourceSize
        /\ HasSource' => source' \in Nat /\ source' + UnitsFor(task'.size) = dmaSourceEnd'
    <3>1. dmaSourceEnd \in 0..SourceSize /\ SourceSize \in Nat /\ task' = task
      BY <1>0, <1>a, ChainFacts DEF ChainMemory, task
    <3>2. \/ ~HasSource' /\ dmaSourceEnd' = dmaSourceEnd
          \/ source' \in Nat /\ dmaSourceEnd' = source' + units /\ dmaSourceEnd' < SourceSize
      BY <1>a DEF HasSource, HasCbs, HasChain, Finishing
    <3>3. UnitsFor(task'.size) = units
      BY <1>b, <3>1
    <3>4. CASE ~HasSource' /\ dmaSourceEnd' = dmaSourceEnd
      BY <3>1, <3>4
    <3>5. ASSUME source' \in Nat, dmaSourceEnd' = source' + units, dmaSourceEnd' < SourceSize
          PROVE  /\ dmaSourceEnd' \in 0..SourceSize
                 /\ HasSource' => source' \in Nat /\ source' + UnitsFor(task'.size) = dmaSourceEnd'
      <4>1. dmaSourceEnd' \in 0..SourceSize
        <5>1. PICK x \in Nat : x = source'
          BY <3>5
        <5>2. PICK y \in Nat : y = x + units
          OBVIOUS
        <5>3. dmaSourceEnd' = y /\ y < SourceSize
          BY <3>5, <5>1, <5>2
        <5> QED BY <3>1, <5>3
      <4> QED BY <3>3, <3>5, <4>1
    <3> QED BY <3>2, <3>4, <3>5
  <2> QED BY <1>0, <1>a, <1>3, <2>1 DEF ChainMemory
<1>5. Last' = Last /\ (Chaining' <=> Chaining) /\ PolledNr' = PolledNr
  BY <1>a DEF Last, Chaining, PolledNr
<1>6. ASSUME Chaining PROVE ChainBus'
  <2>1. ASSUME rxDma.active PROVE pc = "grabSource"
    <3>1. ASSUME pc = "sourceWrapped" PROVE FALSE
      BY <1>0, <1>6, <2>1, <3>1 DEF ChainBus, AtRest, ChainUnderWay, Waited
    <3> QED BY <1>a, <3>1
  <2>2. rxDma.active => SourceLimit' = SourceLimit /\ CbLimit' = CbLimit
    BY <1>a, <1>3, <2>1 DEF SourceLimit, CbLimit, HasSource, HasCbs, HasChain, Finishing
  <2> QED BY <1>0, <1>a, <1>5, <1>6, <2>2, ChainBusKept DEF Waited
<1>7. ASSUME ~Chaining PROVE PolledBus'
  BY <1>0, <1>a, <1>5, <1>7, PolledBusKept DEF Early
<1> QED BY <1>1, <1>2, <1>4, <1>a, <1>5, <1>6, <1>7, QuietStep

LEMMA GrabCbsChain ==
  ASSUME ChainAlive, GrabFreeCBs
  PROVE  ChainAlive'
<1> USE DEF config, queue, memory
<1>0. ChainKinds /\ ChainTask /\ ChainMemory /\ build = "single_dma"
      /\ (IF Chaining THEN ChainBus ELSE PolledBus)
  BY ChainParts
<1>b. PICK num \in Nat : num = CbsFor(task.size) /\ num < NumCbs /\ num = NumCbsFor(Chunks)
  <2>1. done < Len(tasks) /\ SentByDma
    BY <1>0 DEF GrabFreeCBs, ChainTask, ByDma, HasSource
  <2>2. task.size \in Nat \ {0} /\ CbsFor(task.size) < NumCbs
    BY <2>1, ChainFacts
  <2>3. CbsFor(task.size) \in Nat
    BY <2>2, GrabSizes
  <2>4. Chunks = MostChunks(task.size)
    BY <1>0 DEF Chunks, Chunk, MostChunks
  <2> QED BY <2>2, <2>3, <2>4 DEF CbsFor
<1>a. /\ pc \in {"grabCbs", "cbsWrapped"}
      /\ UNCHANGED <<config, running, exiting, queue, sent, pumped, previousTaskWasSPI,
                     dmaSourceEnd, source, mem, cb, spi, dc, dma, received>>
      /\ \/ /\ pc = "grabCbs" /\ pc' = "finishTx" /\ ret' = "cbsWrapped"
            /\ cbs0' = cbs0 /\ firstFreeCB' = firstFreeCB
         \/ /\ pc' = "prepare" /\ ret' = ret /\ cbs0' \in Nat
            /\ firstFreeCB' = cbs0' + num /\ firstFreeCB' < NumCbs
            /\ pc = "grabCbs" => cbs0' = firstFreeCB
  <2>1. firstFreeCB \in Nat /\ NumCbs \in Nat
    BY <1>0, ChainFacts DEF ChainMemory
  <2> QED BY <1>b, <2>1 DEF GrabFreeCBs
<1> HIDE DEF GrabFreeCBs
<1>1. ChainKinds'
  BY <1>0, <1>a DEF ChainKinds, spi, dma
<1>2. ChainTask'
  <2>1. SentByDma' = SentByDma /\ task' = task
    BY <1>a DEF SentByDma, task
  <2> QED BY <1>0, <1>a, <2>1
          DEF ChainTask, ByDma, HasSource, HasCbs, HasChain, Finishing, Restoring
<1>3. HasSource /\ HasSource' /\ ~HasCbs /\ ~HasChain'
  BY <1>a DEF HasSource, HasCbs, HasChain, Finishing
<1>4. ChainMemory'
  <2>1. /\ firstFreeCB' \in 0..NumCbs
        /\ HasCbs' => cbs0' \in Nat /\ cbs0' + CbsFor(task'.size) = firstFreeCB'
    <3>1. firstFreeCB \in 0..NumCbs /\ NumCbs \in Nat /\ task' = task
      BY <1>0, <1>a, ChainFacts DEF ChainMemory, task
    <3>2. \/ ~HasCbs' /\ firstFreeCB' = firstFreeCB
          \/ cbs0' \in Nat /\ firstFreeCB' = cbs0' + num /\ firstFreeCB' < NumCbs
      BY <1>a DEF HasCbs, HasChain, Finishing
    <3>3. CbsFor(task'.size) = num
      BY <1>b, <3>1
    <3>4. CASE ~HasCbs' /\ firstFreeCB' = firstFreeCB
      BY <3>1, <3>4
    <3>5. ASSUME cbs0' \in Nat, firstFreeCB' = cbs0' + num, firstFreeCB' < NumCbs
          PROVE  /\ firstFreeCB' \in 0..NumCbs
                 /\ HasCbs' => cbs0' \in Nat /\ cbs0' + CbsFor(task'.size) = firstFreeCB'
      <4>1. firstFreeCB' \in 0..NumCbs
        <5>1. PICK x \in Nat : x = cbs0'
          BY <3>5
        <5>2. PICK y \in Nat : y = x + num
          OBVIOUS
        <5>3. firstFreeCB' = y /\ y < NumCbs
          BY <3>5, <5>1, <5>2
        <5> QED BY <3>1, <5>3
      <4> QED BY <3>3, <3>5, <4>1
    <3> QED BY <3>2, <3>4, <3>5
  <2>2. task' = task
    BY <1>a DEF task
  <2> QED BY <1>0, <1>a, <1>3, <2>1, <2>2 DEF ChainMemory
<1>5. Last' = Last /\ (Chaining' <=> Chaining) /\ PolledNr' = PolledNr
  BY <1>a DEF Last, Chaining, PolledNr
<1>6. ASSUME Chaining PROVE ChainBus'
  <2>1. ASSUME rxDma.active PROVE pc = "grabCbs"
    <3>1. ASSUME pc = "cbsWrapped" PROVE FALSE
      BY <1>0, <1>6, <2>1, <3>1 DEF ChainBus, AtRest, ChainUnderWay, Waited
    <3> QED BY <1>a, <3>1
  <2>2. rxDma.active => SourceLimit' = SourceLimit /\ CbLimit' = CbLimit
    BY <1>a, <1>3, <2>1 DEF SourceLimit, CbLimit, HasCbs, HasChain, Finishing
  <2> QED BY <1>0, <1>a, <1>5, <1>6, <2>2, ChainBusKept DEF Waited
<1>7. ASSUME ~Chaining PROVE PolledBus'
  BY <1>0, <1>a, <1>5, <1>7, PolledBusKept DEF Early
<1> QED BY <1>1, <1>2, <1>4, <1>a, <1>5, <1>6, <1>7, QuietStep

LEMMA CommitChain ==
  ASSUME ChainAlive, Commit
  PROVE  ChainAlive'
<1> USE DEF config, driver, memory
<1>0. ChainKinds /\ ChainTask /\ ChainMemory /\ build = "single_dma"
      /\ (IF Chaining THEN ChainBus ELSE PolledBus)
  BY ChainParts
<1>a. /\ pc = "asleep" /\ done = Len(tasks) /\ done \in Nat
      /\ UNCHANGED <<config, running, exiting, done, pc, driver, memory, spi, dc, dma, received>>
  BY <1>0, ChainFacts DEF Commit, Single
<1>b. PICK t \in TaskKinds : tasks' = Append(tasks, t)
  BY DEF Commit
<1>c. /\ t \in [dma : BOOLEAN, size : Nat]
      /\ UnitsFor(t.size) < SourceSize /\ CbsFor(t.size) < NumCbs
  BY TransferAssumption DEF UnitsFor, CbsFor
<1>d. /\ tasks' \in Seq([dma : BOOLEAN, size : Nat]) /\ Len(tasks') = done + 1
      /\ tasks'[done + 1] = t /\ \A k \in 1..done : tasks'[k] = tasks[k]
  BY <1>0, <1>a, <1>b, <1>c DEF ChainKinds
<1>1. ChainKinds'
  <2>1. ASSUME NEW k \in 1..Len(tasks')
        PROVE  UnitsFor(tasks'[k].size) < SourceSize /\ CbsFor(tasks'[k].size) < NumCbs
    <3>1. CASE k = done + 1
      BY <1>c, <1>d, <3>1
    <3>2. CASE k # done + 1
      <4>1. k \in 1..Len(tasks) /\ tasks'[k] = tasks[k]
        BY <1>a, <1>d, <2>1, <3>2
      <4> QED BY <1>0, <4>1 DEF ChainKinds
    <3> QED BY <3>1, <3>2
  <2>2. done' <= Len(tasks') /\ Len(tasks') <= done' + 1
    BY <1>a, <1>d
  <2> QED BY <1>0, <1>a, <1>d, <2>1, <2>2 DEF ChainKinds, spi, dma, UnitsFor, CbsFor
<1>2. ChainTask'
  BY <1>0, <1>a DEF ChainTask, ByDma, HasSource, HasCbs, HasChain, Finishing, Restoring
<1>3. ~HasSource /\ ~HasSource' /\ ~HasCbs /\ ~HasCbs' /\ ~HasChain'
  BY <1>a DEF HasSource, HasCbs, HasChain, Finishing
<1>4. ChainMemory'
  BY <1>0, <1>a, <1>3, ChainMemoryKept
<1>5. Last = done /\ Last' = Last /\ (Chaining' <=> Chaining)
  BY <1>a DEF Last, Chaining
<1>e. PolledNr' = PolledNr
  <2>1. done > 0 => tasks'[done] = tasks[done]
    BY <1>a, <1>d
  <2> QED BY <1>a, <1>5, <2>1 DEF PolledNr
<1>6. ASSUME Chaining PROVE ChainBus'
  BY <1>0, <1>a, <1>d, <1>3, <1>5, <1>6, ChainBusKept DEF SourceLimit, CbLimit, Waited
<1>7. ASSUME ~Chaining PROVE PolledBus'
  BY <1>0, <1>a, <1>d, <1>5, <1>e, <1>7, PolledBusKept DEF Early
<1> QED BY <1>1, <1>2, <1>4, <1>a, <1>d, <1>5, <1>6, <1>7, QuietStep

LEMMA StutterChain ==
  ASSUME ChainAlive, UNCHANGED vars
  PROVE  ChainAlive'
<1> USE DEF vars, config, queue, driver, memory
<1>0. ChainKinds /\ ChainTask /\ ChainMemory /\ (IF Chaining THEN ChainBus ELSE PolledBus)
  BY ChainParts
<1>1. ChainKinds'
  BY <1>0 DEF ChainKinds, spi, dma
<1>2. task' = task /\ SentByDma' = SentByDma /\ HasChain' = HasChain /\ HasCbs' = HasCbs
      /\ HasSource' = HasSource /\ Last' = Last
  BY DEF task, SentByDma, HasSource, HasCbs, HasChain, Finishing, Last
<1>3. ChainTask'
  BY <1>0, <1>2 DEF ChainTask, ByDma, Finishing, Restoring
<1>4. ChainMemory'
  BY <1>0, <1>2, ChainMemoryKept
<1>5. (Chaining' <=> Chaining) /\ PolledNr' = PolledNr
  BY <1>2 DEF Chaining, PolledNr
<1>6. ASSUME Chaining PROVE ChainBus'
  <2>1. ASSUME NEW a, NEW n
        PROVE  Written(a, n)' = Written(a, n) /\ AtRest(n)' = AtRest(n)
    BY <1>2 DEF Written, AtRest, spi, dma
  <2>2. ASSUME NEW t, NEW size, NEW s, NEW c, NEW i, NEW n
        PROVE  ChainUnderWay(t, size, s, c, i, n)' = ChainUnderWay(t, size, s, c, i, n)
    <3>1. ChainHolds(t, size, s, c)' = ChainHolds(t, size, s, c)
      BY DEF ChainHolds, ChunkHolds
    <3>2. ChunkMoves(size, s, c, i, n - Before(i))' = ChunkMoves(size, s, c, i, n - Before(i))
      BY DEF ChunkMoves, spi, dma
    <3>3. ChunkStarts(c, i)' = ChunkStarts(c, i)
      BY DEF ChunkStarts, spi, dma
    <3>4. SourceLimit' = SourceLimit /\ CbLimit' = CbLimit /\ Waited' = Waited
      BY <1>2 DEF SourceLimit, CbLimit, Waited
    <3> QED BY <3>1, <3>2, <3>3, <3>4 DEF ChainUnderWay
  <2> QED BY <1>0, <1>2, <1>6, <2>1, <2>2 DEF ChainBus, spi
<1>7. ASSUME ~Chaining PROVE PolledBus'
  BY <1>0, <1>2, <1>5, <1>7 DEF PolledBus, Written, spi, dma
<1> QED BY <1>1, <1>2, <1>3, <1>4, <1>5, <1>6, <1>7, QuietStep

\* The chain is written behind the one that may be under way.
LEMMA PrepareChainChain ==
  ASSUME ChainAlive, PrepareChain
  PROVE  ChainAlive'
<1> USE DEF config, queue
<1>0. ChainKinds /\ ChainTask /\ ChainMemory /\ build = "single_dma"
      /\ (IF Chaining THEN ChainBus ELSE PolledBus)
  BY ChainParts
<1>a. /\ pc = "prepare" /\ pc' = "finishTx" /\ ret' = "sendCommand"
      /\ UNCHANGED <<config, running, exiting, queue, sent, pumped, previousTaskWasSPI,
                     dmaSourceEnd, firstFreeCB, source, cbs0, spi, dc, dma, received>>
      /\ DOMAIN mem' = DOMAIN mem /\ DOMAIN cb' = DOMAIN cb
  BY DEF PrepareChain
<1>b. /\ done < Len(tasks) /\ SentByDma /\ done \in Nat
      /\ task.size \in Nat \ {0} /\ UnitsFor(task.size) \in Nat /\ CbsFor(task.size) \in Nat
      /\ Chunks = MostChunks(task.size)
  <2>1. done < Len(tasks) /\ SentByDma
    BY <1>0, <1>a DEF ChainTask, ByDma, HasSource, HasCbs
  <2>2. task.size \in Nat \ {0} /\ done \in Nat
    BY <2>1, ChainFacts
  <2>3. UnitsFor(task.size) \in Nat /\ CbsFor(task.size) \in Nat
    BY <2>2, GrabSizes
  <2>4. Chunks = MostChunks(task.size)
    BY <1>0 DEF Chunks, Chunk, MostChunks
  <2> QED BY <2>1, <2>2, <2>3, <2>4
<1>c. PICK us \in Nat, cs \in Nat, s0 \in Nat, c0 \in Nat :
        /\ us = UnitsFor(task.size) /\ cs = CbsFor(task.size) /\ s0 = source /\ c0 = cbs0
        /\ s0 + us = dmaSourceEnd /\ dmaSourceEnd \in 0..SourceSize
        /\ c0 + cs = firstFreeCB /\ firstFreeCB \in 0..NumCbs
  BY <1>0, <1>a, <1>b DEF ChainMemory, HasSource, HasCbs
<1>d. SourceSize \in Nat /\ NumCbs \in Nat /\ s0 + us <= SourceSize /\ c0 + cs <= NumCbs
  BY <1>c, TransferAssumption
<1>e. DOMAIN mem = 0..SourceSize - 1 /\ DOMAIN cb = 0..NumCbs - 1
  BY <1>0 DEF ChainKinds
<1>1. ChainKinds'
  BY <1>0, <1>a DEF ChainKinds, spi, dma
<1>2. ChainTask'
  <2>1. SentByDma' = SentByDma /\ task' = task
    BY <1>a DEF SentByDma, task
  <2> QED BY <1>0, <1>a, <1>b, <2>1
          DEF ChainTask, ByDma, HasSource, HasCbs, HasChain, Finishing, Restoring
<1>3. HasSource /\ HasCbs /\ HasSource' /\ HasCbs' /\ HasChain' /\ task' = task
  BY <1>a DEF HasSource, HasCbs, HasChain, Finishing, task
<1>4. ChainMemory'
  <2>1. s0 + UnitsFor(task.size) <= SourceSize /\ c0 + CbsFor(task.size) <= NumCbs
    BY <1>c, <1>d
  <2>2. PICK t \in Nat, n \in Nat \ {0} : t = done + 1 /\ n = task.size
    BY <1>b
  <2>3. ChainHolds(t, n, s0, c0)'
    BY <1>0, <1>c, <2>1, <2>2, ChainPrepared DEF ChainKinds
  <2>4. ChainHolds(done + 1, task.size, source, cbs0)'
    BY <1>a, <1>c, <1>3, <2>2, <2>3 DEF ChainHolds, ChunkHolds
  <2> QED BY <1>0, <1>a, <1>3, <2>4 DEF ChainMemory
<1>5. Last' = Last /\ (Chaining' <=> Chaining) /\ PolledNr' = PolledNr
  BY <1>a DEF Last, Chaining, PolledNr
<1>6. ASSUME Chaining PROVE ChainBus'
  <2>1. PICK a \in Nat \ {0}, size \in Nat :
          a = Last /\ a = Last' /\ size = tasks[a].size /\ size = tasks'[a].size
    BY <1>0, <1>a, <1>5, <1>6, ChainFacts DEF ChainBus
  <2>2. PICK n \in 0..size :
          /\ Written(a, n)
          /\ \/ AtRest(n)
             \/ \E s \in 0..SourceSize, c \in 0..NumCbs, i \in 0..size :
                  ChainUnderWay(a, size, s, c, i, n)
    BY <1>0, <1>6, <2>1 DEF ChainBus
  <2>3. Written(a, n)'
    <3>1. BusTypes /\ (a > 1 => tasks'[a - 1] = tasks[a - 1])
      BY <1>a, ChainFacts
    <3> QED BY <1>a, <2>2, <3>1, WrittenKept DEF spi
  <2>4. CASE AtRest(n)
    <3>1. AtRest(n)'
      BY <1>a, <2>1, <2>4 DEF AtRest, spi, dma
    <3> QED BY <1>0, <1>a, <1>6, <2>1, <2>3, <3>1 DEF ChainBus, spi
  <2>5. CASE ~AtRest(n)
    <3>1. PICK s \in 0..SourceSize, c \in 0..NumCbs, i \in 0..size :
            ChainUnderWay(a, size, s, c, i, n)
      BY <2>2, <2>5
    <3>2. s \in Nat /\ c \in Nat /\ size \in Nat \ {0}
      BY <3>1, TransferAssumption DEF ChainUnderWay
    <3>3. PICK u \in Nat, v \in Nat : u = UnitsFor(size) /\ v = CbsFor(size)
      BY <3>2, GrabSizes
    <3>4. s + u <= s0 /\ c + v <= c0
      BY <1>a, <1>c, <1>3, <3>1, <3>3 DEF ChainUnderWay, SourceLimit, CbLimit
    <3>5. ASSUME NEW k \in s..s + u - 1 PROVE mem'[k] = mem[k]
      <4>1. k \in DOMAIN mem /\ k \notin s0..s0 + us - 1
        BY <1>d, <1>e, <3>2, <3>4
      <4>2. mem' = [x \in DOMAIN mem |->
                      IF x \in source..source + SourceUnits(Chunks, task.size) - 1
                        THEN SourceCell(x) ELSE mem[x]]
        BY DEF PrepareChain
      <4> QED BY <1>b, <1>c, <4>1, <4>2 DEF UnitsFor
    <3>6. ASSUME NEW k \in c..c + v - 1 PROVE cb'[k] = cb[k]
      <4>1. k \in DOMAIN cb /\ k \notin c0..c0 + cs - 1
        BY <1>d, <1>e, <3>2, <3>4
      <4>2. cb' = [y \in DOMAIN cb |-> IF y \in cbs0..cbs0 + NumCbsFor(Chunks) - 1
                                       THEN ControlBlock(y) ELSE cb[y]]
        BY DEF PrepareChain
      <4> QED BY <1>b, <1>c, <4>1, <4>2 DEF CbsFor
    <3>7. ChainHolds(a, size, s, c)'
      <4>1. ChainHolds(a, size, s, c)
        BY <3>1 DEF ChainUnderWay
      <4> QED BY <3>2, <3>3, <3>5, <3>6, <4>1, ChainKept
    <3>8. SourceLimit' = SourceLimit /\ CbLimit' = CbLimit /\ ~Waited'
      BY <1>a, <1>3 DEF SourceLimit, CbLimit, Waited
    <3>9. ChunkMoves(size, s, c, i, n - Before(i))' = ChunkMoves(size, s, c, i, n - Before(i))
      BY <1>a DEF ChunkMoves, spi, dma
    <3>10. ChunkStarts(c, i)' = ChunkStarts(c, i)
      BY <1>a DEF ChunkStarts, spi, dma
    <3>11. ChainUnderWay(a, size, s, c, i, n)'
      BY <1>a, <3>1, <3>7, <3>8, <3>9, <3>10 DEF ChainUnderWay
    <3> QED BY <1>0, <1>a, <1>6, <2>1, <2>3, <3>11 DEF ChainBus, spi
  <2> QED BY <2>4, <2>5
<1>7. ASSUME ~Chaining PROVE PolledBus'
  BY <1>0, <1>a, <1>5, <1>7, PolledBusKept DEF Early
<1> QED BY <1>1, <1>2, <1>4, <1>a, <1>5, <1>6, <1>7, QuietStep

\* A step of the driver that writes to the peripheral, the line or the channels.
LEMMA ChainDriverStep ==
  ASSUME ChainAlive, UNCHANGED <<build, tasks, received>>, Last' \in Nat, Last <= Last',
         ChainKinds', ChainTask', ChainMemory',
         IF Chaining' THEN ChainBus' ELSE PolledBus'
  PROVE  ChainAlive'
<1>1. PICK a \in Nat, b \in Nat : a = Last /\ b = Last' /\ a <= b
  BY ChainFacts
<1>2. Ordered(a) /\ BusTypes
  BY <1>1, ChainFacts DEF ChainAlive, ChainInv
<1>3. Ordered(b)'
  BY <1>1, <1>2, OrderedKept
<1> QED BY <1>1, <1>3 DEF ChainAlive, ChainInv

\* Where the peripheral is at rest before and after.
LEMMA RestKept ==
  ASSUME ChainAlive, UNCHANGED <<tasks, received, txDma, rxDma>>, Last' = Last, PolledNr' = PolledNr,
         Written(Last, PolledNr), tx = <<>>, tx' = <<>>, rx' = 0, ta', ~txDma.active, ~rxDma.active,
         dc' <=> pc' \notin {"command", "clocked"}, pc' \notin {"clocked", "startTx"}
  PROVE  PolledBus'
<1>1. PICK a \in Nat, n \in Nat : a = Last /\ n = PolledNr /\ a = Last' /\ n = PolledNr'
  BY ChainFacts, PolledNrNat
<1>2. Written(a, n)'
  BY <1>1, ChainFacts, WrittenKept
<1>3. Written(Last, PolledNr)'
  BY <1>1, <1>2
<1> QED BY <1>3 DEF PolledBus

LEMMA FlushRxChain ==
  ASSUME ChainAlive, FlushRx
  PROVE  ChainAlive'
<1> USE DEF FlushRx, config, queue, driver, memory
<1>0. ChainKinds /\ ChainTask /\ ChainMemory /\ (IF Chaining THEN ChainBus ELSE PolledBus)
  BY ChainParts
<1>a. /\ pc = "wait" /\ ta' /\ tx' = tx /\ rx' = 0 /\ previousTaskWasSPI
      /\ ta' \in BOOLEAN /\ dmaen' \in BOOLEAN
  BY <1>0 DEF ChainKinds, ChainTask, WriteCs
<1>1. ChainKinds'
  <2>1. rx' \in 0..FifoSize
    BY <1>a, ChainFacts
  <2> QED BY <1>0, <1>a, <2>1 DEF ChainKinds, dma
<1>2. ChainTask'
  BY <1>0, <1>a DEF ChainTask, ByDma, HasSource, HasCbs, HasChain, Finishing, Restoring
<1>3. ~HasSource' /\ ~HasCbs' /\ ~HasChain'
  BY <1>a DEF HasSource, HasCbs, HasChain, Finishing
<1>4. ChainMemory'
  BY <1>0, <1>3, ChainMemoryKept
<1>5. Last' = Last /\ ~Chaining /\ ~Chaining' /\ PolledNr' = PolledNr
  BY <1>a DEF Last, Chaining, PolledNr
<1>6. PICK a \in Nat, n \in Nat : a = Last /\ n = PolledNr
  BY ChainFacts, PolledNrNat
<1>7. Written(a, n)'
  BY <1>0, <1>a, <1>5, <1>6, ChainFacts, WrittenKept DEF PolledBus
<1>8. PolledBus'
  <2>1. Written(Last, PolledNr)'
    BY <1>5, <1>6, <1>7
  <2> QED BY <1>0, <1>a, <1>5, <2>1 DEF PolledBus, dma
<1> QED BY <1>1, <1>2, <1>4, <1>5, <1>6, <1>8, ChainDriverStep

LEMMA PolledFinishedChain ==
  ASSUME ChainAlive, PolledFinished
  PROVE  ChainAlive'
<1> USE DEF PolledFinished, config, queue, driver, memory
<1>0. ChainKinds /\ ChainTask /\ ChainMemory /\ build = "single_dma"
      /\ (IF Chaining THEN ChainBus ELSE PolledBus)
  BY ChainParts
<1>5. Last' = Last /\ ~Chaining /\ ~Chaining' /\ PolledNr' = PolledNr
  BY <1>0 DEF Last, Chaining, PolledNr, ChainTask, ChainKinds
<1>a. /\ pc = "wait" /\ tx = <<>> /\ tx' = <<>> /\ rx' = 0 /\ ta' /\ dc
      /\ pc' = IF SentByDma THEN "grabSource" ELSE "dcLow"
      /\ dmaen' \in BOOLEAN
  <2>1. pc = "wait" /\ ta /\ tx = <<>> /\ dc
    BY <1>0, <1>5 DEF PolledBus, DONE, ChainKinds
  <2>2. tx' = tx /\ rx' = 0 /\ ta' /\ dmaen' \in BOOLEAN
    <3>1. CASE RXD
      BY <3>1 DEF WriteCs
    <3>2. CASE ~RXD
      BY <1>0, <2>1, <3>2, ChainFacts DEF RXD, spi, ChainKinds
    <3> QED BY <3>1, <3>2
  <2> QED BY <1>0, <2>1, <2>2 DEF ChainKinds
<1>1. ChainKinds'
  <2>1. tx' \in Seq(Units) /\ Len(tx') <= FifoSize /\ rx' \in 0..FifoSize /\ ta' \in BOOLEAN
    BY <1>0, <1>a, ChainFacts, EmptySeq DEF ChainKinds, WriteCs, spi
  <2> QED BY <1>0, <1>a, <2>1 DEF ChainKinds, dma
<1>2. ChainTask'
  <2>1. SentByDma' = SentByDma
    BY DEF SentByDma, task
  <2> QED BY <1>0, <1>a, <2>1 DEF ChainTask, ByDma, HasSource, HasCbs, HasChain, Finishing, Restoring
<1>3. ~HasSource' /\ ~HasCbs' /\ ~HasChain'
  <2>1. SentByDma' = SentByDma
    BY DEF SentByDma, task
  <2> QED BY <1>a, <2>1 DEF HasSource, HasCbs, HasChain, Finishing
<1>4. ChainMemory'
  BY <1>0, <1>3, ChainMemoryKept
<1>6. PolledBus'
  BY <1>0, <1>a, <1>5, RestKept DEF PolledBus, dma
<1> QED BY <1>1, <1>2, <1>4, <1>5, <1>6, ChainFacts, ChainDriverStep

\* Once the channels were found idle nothing is under way.
LEMMA WaitedRest ==
  ASSUME ChainAlive, Waited
  PROVE  /\ tx = <<>> /\ rx = 0 /\ dc /\ ~txDma.active /\ ~rxDma.active
         /\ Written(Last, PolledNr)
<1>0. ChainKinds /\ ChainTask /\ (IF Chaining THEN ChainBus ELSE PolledBus)
  BY ChainParts
<1>1. CASE Chaining
  <2>1. PICK n : Written(Last, n) /\ AtRest(n) /\ dc
    BY <1>0, <1>1 DEF ChainBus, ChainUnderWay
  <2>2. n = PolledNr
    BY <2>1 DEF AtRest, PolledNr, Waited
  <2> QED BY <2>1, <2>2 DEF AtRest
<1>2. CASE ~Chaining
  BY <1>0, <1>2 DEF PolledBus, Waited
<1> QED BY <1>1, <1>2

LEMMA RestorePolledChain ==
  ASSUME ChainAlive, RestorePolled
  PROVE  ChainAlive'
<1> USE DEF RestorePolled, config, queue, driver, memory
<1>0. ChainKinds /\ ChainTask /\ ChainMemory
  BY ChainParts
<1>a. /\ pc = "restore" /\ pc' = "dcLow" /\ ta' /\ ta' \in BOOLEAN /\ dmaen' \in BOOLEAN
      /\ tx' = <<>> /\ rx' = rx
      /\ Waited /\ ~SentByDma /\ ~SentByDma'
  BY <1>0 DEF WriteCs, Waited, ChainTask, Restoring, SentByDma, task
<1>b. /\ tx = <<>> /\ rx = 0 /\ dc /\ ~txDma.active /\ ~rxDma.active /\ Written(Last, PolledNr)
  BY <1>a, WaitedRest
<1>1. ChainKinds'
  <2>1. tx' \in Seq(Units) /\ Len(tx') <= FifoSize
    BY <1>a, ChainFacts, EmptySeq
  <2> QED BY <1>0, <1>a, <2>1 DEF ChainKinds, dma
<1>2. ChainTask'
  BY <1>0, <1>a DEF ChainTask, ByDma, HasSource, HasCbs, HasChain, Finishing, Restoring
<1>3. ~HasSource' /\ ~HasCbs' /\ ~HasChain'
  BY <1>a DEF HasSource, HasCbs, HasChain, Finishing
<1>4. ChainMemory'
  BY <1>0, <1>3, ChainMemoryKept
<1>5. Last' = Last /\ ~Chaining' /\ PolledNr' = PolledNr
  BY <1>a DEF Last, Chaining, PolledNr
<1>6. PolledBus'
  BY <1>a, <1>b, <1>5, RestKept DEF dma
<1> QED BY <1>1, <1>2, <1>4, <1>5, <1>6, ChainFacts, ChainDriverStep

LEMMA SendCommandChain ==
  ASSUME ChainAlive, SendCommand
  PROVE  ChainAlive'
<1> USE DEF SendCommand, config, queue, memory
<1>0. ChainKinds /\ ChainTask /\ ChainMemory
  BY ChainParts
<1>a. /\ pc = "sendCommand" /\ pc' = "dcLow" /\ ta' /\ ta' \in BOOLEAN /\ dmaen' \in BOOLEAN
      /\ tx' = <<>> /\ rx' = 0
      /\ UNCHANGED <<ret, sent, previousTaskWasSPI>>
      /\ Waited /\ SentByDma /\ SentByDma' /\ task' = task
  BY <1>0 DEF WriteCs, Waited, ChainKinds, ChainTask, ByDma, HasSource, HasCbs, HasChain,
              SentByDma, task
<1>b. /\ tx = <<>> /\ rx = 0 /\ dc /\ ~txDma.active /\ ~rxDma.active /\ Written(Last, PolledNr)
  BY <1>a, WaitedRest
<1>1. ChainKinds'
  <2>1. tx' \in Seq(Units) /\ Len(tx') <= FifoSize /\ rx' \in 0..FifoSize
    BY <1>a, ChainFacts, EmptySeq
  <2> QED BY <1>0, <1>a, <2>1 DEF ChainKinds, dma
<1>2. ChainTask'
  BY <1>0, <1>a DEF ChainTask, ByDma, HasSource, HasCbs, HasChain, Finishing, Restoring
<1>3. HasSource /\ HasCbs /\ HasChain
  BY <1>a DEF HasSource, HasCbs, HasChain
<1>4. ChainMemory'
  BY <1>0, <1>a, <1>3, ChainMemoryKept
<1>5. Last' = Last /\ ~Chaining' /\ PolledNr' = PolledNr
  BY <1>a DEF Last, Chaining, PolledNr
<1>6. PolledBus'
  BY <1>a, <1>b, <1>5, RestKept DEF dma
<1> QED BY <1>1, <1>2, <1>4, <1>5, <1>6, ChainFacts, ChainDriverStep

LEMMA DcLowChain ==
  ASSUME ChainAlive, DcLow
  PROVE  ChainAlive'
<1> USE DEF DcLow, config, queue, driver, memory
<1>0. ChainKinds /\ ChainTask /\ ChainMemory /\ (IF Chaining THEN ChainBus ELSE PolledBus)
  BY ChainParts
<1>5. Last' = Last /\ ~Chaining /\ ~Chaining' /\ PolledNr' = PolledNr
  BY DEF Last, Chaining, PolledNr
<1>a. ~dc' /\ tx = <<>> /\ rx = 0 /\ ta /\ UNCHANGED <<ta, dmaen, tx, rx>>
  BY <1>0, <1>5 DEF PolledBus, spi
<1>1. ChainKinds'
  BY <1>0 DEF ChainKinds, spi, dma
<1>b. SentByDma' = SentByDma /\ task' = task
  BY DEF SentByDma, task
<1>2. ChainTask'
  BY <1>0, <1>b DEF ChainTask, ByDma, HasSource, HasCbs, HasChain, Finishing, Restoring
<1>3. HasSource' = HasSource /\ HasCbs' = HasCbs /\ HasChain' = HasChain
  BY <1>b DEF HasSource, HasCbs, HasChain, Finishing
<1>4. ChainMemory'
  BY <1>0, <1>b, <1>3, ChainMemoryKept
<1>6. PolledBus'
  BY <1>0, <1>a, <1>5, RestKept DEF PolledBus, dma
<1> QED BY <1>1, <1>2, <1>4, <1>5, <1>6, ChainFacts, ChainDriverStep

LEMMA WriteCommandChain ==
  ASSUME ChainAlive, WriteCommand
  PROVE  ChainAlive'
<1> USE DEF WriteCommand, config, queue, driver, memory
<1>0. ChainKinds /\ ChainTask /\ ChainMemory /\ (IF Chaining THEN ChainBus ELSE PolledBus)
  BY ChainParts
<1>5. Last = done /\ Last' = done + 1 /\ ~Chaining /\ ~Chaining' /\ PolledNr' = 0
  BY DEF Last, Chaining, PolledNr
<1>6. PICK a \in Nat, n \in Nat : a = Last /\ n = PolledNr
  BY ChainFacts, PolledNrNat
<1>a. /\ tx = <<>> /\ rx = 0 /\ ta /\ ~dc /\ Written(a, n)
      /\ n = (IF a = 0 THEN 0 ELSE tasks[a].size) /\ UNCHANGED <<ta, dmaen, rx>>
      /\ tx' = Append(tx, Unit(a + 1, 0))
  <2>1. TXD
    BY <1>0, <1>5, ChainFacts DEF PolledBus, TXD
  <2> QED BY <1>0, <1>5, <1>6, <2>1 DEF PolledBus, PolledNr, WriteFifo
<1>b. Written(a + 1, 0)' /\ tx' \in Seq(Units) /\ Len(tx') = 1
  BY <1>a, ChainFacts, WrittenNext
<1>1. ChainKinds'
  BY <1>0, <1>a, <1>b, ChainFacts DEF ChainKinds, dma
<1>c. SentByDma' = SentByDma /\ task' = task
  BY DEF SentByDma, task
<1>2. ChainTask'
  BY <1>0, <1>c DEF ChainTask, ByDma, HasSource, HasCbs, HasChain, Finishing, Restoring
<1>3. HasSource' = HasSource /\ HasCbs' = HasCbs /\ HasChain' = HasChain
  BY <1>c DEF HasSource, HasCbs, HasChain, Finishing
<1>4. ChainMemory'
  BY <1>0, <1>c, <1>3, ChainMemoryKept
<1>7. PolledBus'
  <2>1. Written(Last, PolledNr)'
    BY <1>b, <1>5, <1>6
  <2> QED BY <1>0, <1>a, <1>b, <1>5, <2>1 DEF PolledBus, dma
<1> QED BY <1>1, <1>2, <1>4, <1>5, <1>6, <1>7, ChainDriverStep

LEMMA DcHighChain ==
  ASSUME ChainAlive, DcHigh
  PROVE  ChainAlive'
<1> USE DEF DcHigh, config, queue, driver, memory
<1>0. ChainKinds /\ ChainTask /\ ChainMemory /\ (IF Chaining THEN ChainBus ELSE PolledBus)
  BY ChainParts
<1>b. SentByDma' = SentByDma /\ task' = task
  BY DEF SentByDma, task
<1>5. Last' = Last /\ ~Chaining /\ ~Chaining' /\ PolledNr = 0 /\ PolledNr' = 0
  BY <1>0 DEF Last, Chaining, PolledNr, ChainTask
<1>a. dc' /\ tx = <<>> /\ ta /\ UNCHANGED <<ta, dmaen, tx, rx>>
  BY <1>0, <1>5, ChainFacts DEF PolledBus, spi, RXD, DONE
<1>1. ChainKinds'
  BY <1>0 DEF ChainKinds, spi, dma
<1>2. ChainTask'
  <2>1. done < Len(tasks) /\ task.size \in Nat /\ sent = 0
    BY <1>0, ChainFacts DEF ChainTask
  <2> QED BY <1>0, <1>b, <2>1 DEF ChainTask, ByDma, HasSource, HasCbs, HasChain, Finishing, Restoring
<1>3. HasSource' = HasSource /\ HasCbs' = HasCbs /\ HasChain' = HasChain
  BY <1>b DEF HasSource, HasCbs, HasChain, Finishing
<1>4. ChainMemory'
  BY <1>0, <1>b, <1>3, ChainMemoryKept
<1>6. PICK a \in Nat : a = Last /\ a = Last'
  BY <1>5, ChainFacts
<1>7. PolledBus'
  <2>1. Written(a, 0)'
    BY <1>0, <1>a, <1>5, <1>6, ChainFacts, WrittenKept DEF PolledBus
  <2>2. Written(Last, PolledNr)'
    BY <2>1, <1>5, <1>6
  <2> QED BY <1>0, <1>a, <1>5, <2>2 DEF PolledBus, dma
<1> QED BY <1>1, <1>2, <1>4, <1>5, <1>6, <1>7, ChainDriverStep

LEMMA StartDmaChain ==
  ASSUME ChainAlive, StartDma
  PROVE  ChainAlive'
<1> USE DEF StartDma, config, queue, driver, memory
<1>0. ChainKinds /\ ChainTask /\ ChainMemory /\ build = "single_dma"
      /\ (IF Chaining THEN ChainBus ELSE PolledBus)
  BY ChainParts
<1>b. SentByDma' = SentByDma /\ task' = task
  BY DEF SentByDma, task
<1>a. /\ pc = "startDma" /\ pc' = "startTx" /\ ~ta' /\ dmaen' /\ tx' = <<>> /\ rx' = 0
      /\ ta' \in BOOLEAN /\ dmaen' \in BOOLEAN
  BY <1>0 DEF WriteCs
<1>5. Last' = Last /\ ~Chaining /\ ~Chaining' /\ PolledNr = 0 /\ PolledNr' = 0
  BY <1>a DEF Last, Chaining, PolledNr
<1>c. tx = <<>> /\ dc
  BY <1>0, <1>a, <1>5 DEF PolledBus
<1>1. ChainKinds'
  <2>1. tx' \in Seq(Units) /\ Len(tx') <= FifoSize /\ rx' \in 0..FifoSize
    BY <1>0, <1>a, ChainFacts, EmptySeq DEF ChainKinds
  <2> QED BY <1>0, <1>a, <2>1 DEF ChainKinds, dma
<1>2. ChainTask'
  BY <1>0, <1>a, <1>b DEF ChainTask, ByDma, HasSource, HasCbs, HasChain, Finishing, Restoring
<1>3. HasSource' = HasSource /\ HasCbs' = HasCbs /\ HasChain' = HasChain
  BY <1>a DEF HasSource, HasCbs, HasChain
<1>4. ChainMemory'
  BY <1>0, <1>b, <1>3, ChainMemoryKept
<1>6. PICK a \in Nat : a = Last /\ a = Last'
  BY <1>5, ChainFacts
<1>7. PolledBus'
  <2>1. Written(a, 0)'
    BY <1>0, <1>a, <1>c, <1>5, <1>6, ChainFacts, WrittenKept DEF PolledBus
  <2>2. Written(Last, PolledNr)'
    BY <2>1, <1>5, <1>6
  <2> QED BY <1>0, <1>a, <1>c, <1>5, <2>2 DEF PolledBus, dma
<1> QED BY <1>1, <1>2, <1>4, <1>5, <1>6, <1>7, ChainDriverStep

LEMMA PrefillChain ==
  ASSUME ChainAlive, Prefill
  PROVE  ChainAlive'
<1> USE DEF config, queue, memory
<1>0. ChainKinds /\ ChainTask /\ ChainMemory /\ (IF Chaining THEN ChainBus ELSE PolledBus)
  BY ChainParts
<1>a. /\ pc = "prefill" /\ done < Len(tasks) /\ sent \in Nat /\ task.size \in Nat
      /\ sent <= task.size
      /\ UNCHANGED <<config, running, exiting, queue, ret, previousTaskWasSPI, memory, dc,
                     dma, received>>
  BY <1>0, ChainFacts DEF Prefill, ChainKinds, ChainTask
<1>b. \/ /\ sent < FifoSize - 1 /\ sent < task.size
         /\ WriteFifo(Unit(done + 1, sent + 1)) /\ sent' = sent + 1 /\ pc' = pc
      \/ pc' = "push" /\ UNCHANGED <<spi, sent>>
  <2>1. Least(FifoSize - 1, task.size) \in {FifoSize - 1, task.size}
    BY DEF Least
  <2>2. sent < Least(FifoSize - 1, task.size) => sent < FifoSize - 1 /\ sent < task.size
    BY <1>a, ChainFacts DEF Least
  <2> QED BY <2>2 DEF Prefill
<1> HIDE DEF Prefill
<1>5. /\ Last = done + 1 /\ Last' = done + 1 /\ ~Chaining /\ ~Chaining'
      /\ PolledNr = sent /\ PolledNr' = sent'
  BY <1>a, <1>b DEF Last, Chaining, PolledNr
<1>c. PICK a \in Nat \ {0}, n \in Nat : a = done + 1 /\ n = sent
  BY <1>a, ChainFacts
<1>d. Written(a, n) /\ dc /\ dc' = dc /\ ta /\ ~txDma.active /\ ~rxDma.active
  BY <1>0, <1>a, <1>c, <1>5 DEF PolledBus
<1>m. PICK m \in Nat : m = sent' /\ m \in {n, n + 1}
  BY <1>a, <1>b, <1>c
<1>e. /\ Written(a, m)' /\ m <= task.size
      /\ tx' \in Seq(Units) /\ Len(tx') <= FifoSize /\ UNCHANGED <<ta, dmaen, rx>>
  <2>1. CASE pc' = "push" /\ UNCHANGED <<spi, sent>>
    <3>1. Written(a, n)'
      BY <1>a, <1>d, <2>1, ChainFacts, WrittenKept DEF spi
    <3> QED BY <1>0, <1>a, <1>c, <1>m, <2>1, <3>1 DEF spi, ChainKinds
  <2>2. CASE /\ sent < FifoSize - 1 /\ sent < task.size
             /\ WriteFifo(Unit(done + 1, sent + 1)) /\ sent' = sent + 1 /\ pc' = pc
    <3>1. Len(tx) <= n
      BY <1>d, ChainFacts DEF Written
    <3>2. Len(tx) < FifoSize /\ Len(tx) + 1 <= FifoSize
      BY <1>c, <2>2, <3>1, ChainFacts
    <3>3. tx' = Append(tx, Unit(a, n + 1)) /\ UNCHANGED <<ta, dmaen, rx>>
      BY <1>c, <2>2, <3>2 DEF WriteFifo, TXD
    <3>4. Written(a, n + 1)' /\ tx' \in Seq(Units) /\ Len(tx') = Len(tx) + 1
      BY <1>a, <1>d, <3>1, <3>3, ChainFacts, WrittenMore
    <3>5. m = n + 1 /\ n + 1 <= task.size
      BY <1>a, <1>c, <1>m, <2>2
    <3> QED BY <3>2, <3>3, <3>4, <3>5
  <2> QED BY <1>b, <2>1, <2>2
<1>f. task' = task
  BY <1>a DEF task
<1>1. ChainKinds'
  <2>1. pc' \in {"prefill", "push"} /\ sent' \in Nat
    BY <1>a, <1>b, <1>m, Zenon
  <2>2. UNCHANGED <<config, running, exiting, queue, ret, previousTaskWasSPI, memory, dc, received,
                    ta, dmaen, rx, txDma, rxDma>>
    BY <1>a, <1>e DEF dma
  <2> QED BY <1>0, <1>e, <2>1, <2>2 DEF ChainKinds
<1>2. ChainTask'
  BY <1>0, <1>a, <1>b, <1>m, <1>e, <1>f
     DEF ChainTask, ByDma, HasSource, HasCbs, HasChain, Finishing, Restoring
<1>3. ~HasSource' /\ ~HasCbs' /\ ~HasChain'
  BY <1>a, <1>b DEF HasSource, HasCbs, HasChain, Finishing
<1>4. ChainMemory'
  BY <1>0, <1>a, <1>3, ChainMemoryKept
<1>7. PolledBus'
  <2>1. Written(Last, PolledNr)'
    BY <1>c, <1>m, <1>e, <1>5
  <2> QED BY <1>a, <1>b, <1>d, <1>e, <1>5, <2>1 DEF PolledBus, dma
<1> QED BY <1>1, <1>2, <1>4, <1>a, <1>5, <1>c, <1>7, ChainDriverStep

LEMMA PushUnitChain ==
  ASSUME ChainAlive, PushUnit
  PROVE  ChainAlive'
<1> USE DEF config, queue, memory
<1>0. ChainKinds /\ ChainTask /\ ChainMemory /\ (IF Chaining THEN ChainBus ELSE PolledBus)
  BY ChainParts
<1>a. /\ pc = "push" /\ pc' = pc /\ done < Len(tasks) /\ sent \in Nat /\ task.size \in Nat
      /\ sent < task.size
      /\ UNCHANGED <<config, running, exiting, queue, ret, previousTaskWasSPI, memory, dc,
                     dma, received>>
  BY <1>0, ChainFacts DEF PushUnit, ChainKinds, ChainTask
<1>5. /\ Last = done + 1 /\ Last' = done + 1 /\ ~Chaining /\ ~Chaining'
      /\ PolledNr = sent /\ PolledNr' = sent'
  BY <1>a DEF Last, Chaining, PolledNr
<1>c. PICK a \in Nat \ {0}, n \in Nat : a = done + 1 /\ n = sent
  BY <1>a, ChainFacts
<1>d. Written(a, n) /\ dc /\ dc' = dc /\ ta /\ ~txDma.active /\ ~rxDma.active
  BY <1>0, <1>a, <1>c, <1>5 DEF PolledBus
<1>b. /\ ta' = TRUE /\ dmaen' \in BOOLEAN /\ rx' \in 0..FifoSize
  <2>1. CASE RXR
    <3>1. rx' = 0 /\ ta' = TRUE /\ dmaen' = FALSE
      BY <2>1 DEF PushUnit
    <3>2. dmaen' \in BOOLEAN
      BY <3>1
    <3> QED BY <3>1, <3>2, ChainFacts
  <2>2. CASE ~RXR
    BY <1>0, <1>d, <2>2 DEF PushUnit, ChainKinds
  <2> QED BY <2>1, <2>2
<1>m. PICK m \in Nat : m = sent' /\ m \in {n, n + 1}
  BY <1>a, <1>c DEF PushUnit
<1>e. /\ Written(a, m)' /\ m <= task.size
      /\ tx' \in Seq(Units) /\ Len(tx') <= FifoSize
  <2>1. CASE ~TXD
    <3>0. tx' = tx /\ sent' = sent
      BY <2>1 DEF PushUnit
    <3>1. Written(a, n)'
      BY <1>a, <1>d, <3>0, ChainFacts, WrittenKept
    <3> QED BY <1>0, <1>a, <1>c, <1>m, <3>0, <3>1 DEF ChainKinds
  <2>2. CASE TXD
    <3>1. Len(tx) <= n
      BY <1>d, ChainFacts DEF Written
    <3>2. Len(tx) < FifoSize /\ Len(tx) + 1 <= FifoSize
      BY <2>2, ChainFacts DEF TXD
    <3>3. tx' = Append(tx, Unit(a, n + 1)) /\ sent' = n + 1
      BY <1>c, <2>2 DEF PushUnit
    <3>4. Written(a, n + 1)' /\ tx' \in Seq(Units) /\ Len(tx') = Len(tx) + 1
      BY <1>a, <1>d, <3>1, <3>3, ChainFacts, WrittenMore
    <3>5. m = n + 1 /\ n + 1 <= task.size
      BY <1>a, <1>c, <1>m, <3>3
    <3> QED BY <3>2, <3>3, <3>4, <3>5
  <2> QED BY <2>1, <2>2
<1>f. task' = task
  BY <1>a DEF task
<1>1. ChainKinds'
  BY <1>0, <1>a, <1>b, <1>m, <1>e DEF ChainKinds, dma
<1>2. ChainTask'
  BY <1>0, <1>a, <1>b, <1>m, <1>e, <1>f
     DEF ChainTask, ByDma, HasSource, HasCbs, HasChain, Finishing, Restoring
<1>3. ~HasSource' /\ ~HasCbs' /\ ~HasChain'
  BY <1>a, <1>b DEF HasSource, HasCbs, HasChain, Finishing
<1>4. ChainMemory'
  BY <1>0, <1>a, <1>3, ChainMemoryKept
<1>7. PolledBus'
  <2>1. Written(Last, PolledNr)'
    BY <1>c, <1>m, <1>e, <1>5
  <2> QED BY <1>a, <1>b, <1>d, <1>e, <1>5, <2>1 DEF PolledBus, dma
<1> QED BY <1>1, <1>2, <1>4, <1>a, <1>5, <1>c, <1>7, ChainDriverStep

\* The first chunk, which the program starts itself.
LEMMA StartTxChain ==
  ASSUME ChainAlive, StartTx
  PROVE  ChainAlive'
<1> USE DEF config, queue, driver, memory
<1>0. ChainKinds /\ ChainTask /\ ChainMemory /\ (IF Chaining THEN ChainBus ELSE PolledBus)
  BY ChainParts
<1>a. /\ pc = "startTx" /\ pc' = "startRx" /\ LoadTx(cbs0)
      /\ UNCHANGED <<config, running, exiting, queue, driver, memory, spi, dc, rxDma, txAddr,
                     received>>
  BY DEF StartTx, TxCb
<1>b. HasSource /\ HasSource' /\ HasCbs /\ HasCbs' /\ HasChain /\ HasChain' /\ task' = task
      /\ SentByDma' = SentByDma
  BY <1>a DEF HasSource, HasCbs, HasChain, task, SentByDma
<1>5. /\ Last = done + 1 /\ Last' = done + 1 /\ ~Chaining /\ Chaining' /\ PolledNr = 0
  BY <1>a DEF Last, Chaining, PolledNr
<1>c. /\ Written(Last, 0) /\ dc /\ ~ta /\ dmaen /\ tx = <<>> /\ rx = 0
      /\ ~txDma.active /\ ~rxDma.active
  BY <1>0, <1>a, <1>5 DEF PolledBus
<1>d. /\ done < Len(tasks) /\ SentByDma /\ task.size \in Nat \ {0} /\ done \in Nat
  <2>1. done < Len(tasks) /\ SentByDma
    BY <1>0, <1>a, <1>b DEF ChainTask, ByDma
  <2> QED BY <2>1, ChainFacts
<1>e. PICK t \in Nat \ {0}, size \in Nat \ {0}, s \in Nat, c \in Nat :
        /\ t = done + 1 /\ size = task.size /\ s = source /\ c = cbs0
        /\ ChainHolds(t, size, s, c)
  BY <1>0, <1>b, <1>d DEF ChainMemory
<1>f. 0 \in 0..MostChunks(size) - 1 /\ MostChunks(size) > 0 /\ Before(0) = 0 /\ CbAt(c, 0) = c
      /\ InChunk(size, 0) \in Nat \ {0}
  <2>1. PICK k \in Nat \ {0} : k = MostChunks(size)
    BY Chunked
  <2>2. Before(0) = 0 /\ InChunk(size, 0) \in 1..MaxChunk /\ MaxChunk \in Nat \ {0}
    BY <2>1, Chunked
  <2> QED BY <2>1, <2>2 DEF CbAt
<1>g. /\ txDma' = [active |-> TRUE, src |-> HeaderAt(size, s, 0), left |-> 1 + InChunk(size, 0)]
      /\ HeaderAt(size, s, 0) \in Nat
  <2>1. cb[c] = Block("tx", HeaderAt(size, s, 0), 1 + InChunk(size, 0), -1)
    BY <1>e, <1>f DEF ChainHolds, ChunkHolds
  <2>2. HeaderAt(size, s, 0) \in Nat
    BY <1>f, ChunkPlaces
  <2> QED BY <1>a, <1>e, <2>1, <2>2 DEF LoadTx, Block
<1>1. ChainKinds'
  <2>1. txDma' \in [active : BOOLEAN, src : Nat, left : Nat]
    BY <1>f, <1>g
  <2> QED BY <1>0, <1>a, <2>1 DEF ChainKinds, spi
<1>2. ChainTask'
  BY <1>0, <1>a, <1>b DEF ChainTask, ByDma, Finishing, Restoring
<1>4. ChainMemory'
  BY <1>0, <1>a, <1>b, ChainMemoryKept
<1>6. ChainUnderWay(t, size, s, c, 0, 0)'
  <2>1. ChainHolds(t, size, s, c)'
    BY <1>a, <1>e DEF ChainHolds, ChunkHolds
  <2>2. s + UnitsFor(size) <= SourceLimit' /\ c + CbsFor(size) <= CbLimit'
    <3>1. SourceLimit' = dmaSourceEnd /\ CbLimit' = firstFreeCB
      BY <1>a DEF SourceLimit, CbLimit
    <3>2. s + UnitsFor(size) = dmaSourceEnd /\ c + CbsFor(size) = firstFreeCB
      BY <1>0, <1>b, <1>e DEF ChainMemory
    <3>3. dmaSourceEnd \in Nat /\ firstFreeCB \in Nat
      BY <1>0, ChainFacts DEF ChainMemory
    <3> QED BY <3>1, <3>2, <3>3
  <2>3. ChunkMoves(size, s, c, 0, 0)'
    <3>1. rx' = 0 /\ tx' = <<>> /\ ~ta' /\ ~rxDma'.active /\ rx' + Len(tx') = 0
      BY <1>a, <1>c DEF spi
    <3>2. 0 \in 0..InChunk(size, 0) /\ 1 + InChunk(size, 0) > 0 /\ 1 + InChunk(size, 0) \in Nat
      BY <1>f
    <3> QED BY <1>a, <1>g, <3>1, <3>2 DEF ChunkMoves
  <2>4. ~Waited'
    BY <1>a DEF Waited
  <2>5. 0 - Before(0) = 0 /\ Before(0) <= 0
    BY <1>f
  <2> QED BY <1>a, <1>e, <1>f, <2>1, <2>2, <2>3, <2>4, <2>5 DEF ChainUnderWay
<1>7. ChainBus'
  <2>1. tasks'[Last'].size = size /\ Last' = t
    BY <1>a, <1>e, <1>5 DEF task
  <2>2. Written(t, 0)'
    <3>1. Written(t, 0)
      BY <1>c, <1>e, <1>5
    <3> QED BY <1>a, <1>c, <3>1, ChainFacts, WrittenKept DEF spi
  <2>3. s \in 0..SourceSize /\ c \in 0..NumCbs
    <3>1. PICK u \in Nat, v \in Nat : u = UnitsFor(size) /\ v = CbsFor(size)
      BY GrabSizes
    <3>2. s + u = dmaSourceEnd /\ c + v = firstFreeCB
      BY <1>0, <1>b, <1>e, <3>1 DEF ChainMemory
    <3>3. dmaSourceEnd \in 0..SourceSize /\ firstFreeCB \in 0..NumCbs
      BY <1>0 DEF ChainMemory
    <3> QED BY <3>2, <3>3, ChainFacts
  <2>4. 0 \in 0..size
    OBVIOUS
  <2>5. dmaen' /\ dc'
    BY <1>a, <1>c DEF spi
  <2> QED BY <1>6, <2>1, <2>2, <2>3, <2>4, <2>5 DEF ChainBus
<1> QED BY <1>1, <1>2, <1>4, <1>a, <1>5, <1>d, <1>7, ChainDriverStep

LEMMA StartRxChain ==
  ASSUME ChainAlive, StartRx
  PROVE  ChainAlive'
<1> USE DEF config, queue, memory
<1>0. ChainKinds /\ ChainTask /\ ChainMemory /\ build = "single_dma"
      /\ (IF Chaining THEN ChainBus ELSE PolledBus)
  BY ChainParts
<1>5. /\ pc = "startRx" /\ Last = done + 1 /\ Chaining
  BY DEF Last, Chaining, StartRx
<1>a. /\ pc' = "done" /\ GoOn(cbs0 + 1) /\ previousTaskWasSPI' = FALSE
      /\ UNCHANGED <<config, running, exiting, queue, ret, sent, memory, spi, dc, txDma, txAddr,
                     received>>
  BY <1>0 DEF StartRx, TxCb, RxCb
<1>b. Last' = Last /\ Chaining' /\ ~HasSource' /\ ~HasCbs' /\ ~HasChain'
  BY <1>5, <1>a DEF Last, Chaining, HasSource, HasCbs, HasChain, Finishing
<1>c. PICK a \in Nat \ {0}, size \in Nat :
        a = Last /\ a = Last' /\ size = tasks[a].size /\ size = tasks'[a].size
  BY <1>0, <1>5, <1>a, <1>b, ChainFacts DEF ChainBus
<1>d. PICK n \in 0..size, s \in 0..SourceSize, c \in 0..NumCbs, i \in 0..size :
        /\ Written(a, n) /\ ChainUnderWay(a, size, s, c, i, n)
  BY <1>0, <1>5, <1>c DEF ChainBus
<1>e. /\ s = source /\ c = cbs0 /\ i = 0 /\ ~rxDma.active
      /\ ChunkMoves(size, s, c, 0, n - Before(0)) /\ ChainHolds(a, size, s, c)
      /\ size \in Nat \ {0} /\ c \in Nat /\ s \in Nat
  BY <1>5, <1>d, TransferAssumption DEF ChainUnderWay, ChunkMoves, ChunkStarts
<1>f. 0 \in 0..MostChunks(size) - 1 /\ CbAt(c, 0) = c /\ InChunk(size, 0) \in Nat \ {0}
  <2>1. PICK k \in Nat \ {0} : k = MostChunks(size)
    BY <1>e, Chunked
  <2>2. InChunk(size, 0) \in 1..MaxChunk /\ MaxChunk \in Nat \ {0}
    BY <1>e, <2>1, Chunked
  <2> QED BY <2>1, <2>2 DEF CbAt
<1>g. rxDma' = [active |-> TRUE, cb |-> c + 1, left |-> InChunk(size, 0)]
  <2>1. cb[c + 1].len = InChunk(size, 0)
    <3>1. ChunkHolds(a, size, s, c, 0)
      BY <1>e, <1>f DEF ChainHolds
    <3>2. cb[CbAt(c, 0) + 1].len = InChunk(size, 0)
      BY <3>1 DEF ChunkHolds, Block
    <3> QED BY <1>f, <3>2
  <2>2. c + 1 # -1
    BY <1>e
  <2> QED BY <1>a, <1>e, <2>1, <2>2 DEF GoOn
<1>1. ChainKinds'
  <2>1. rxDma' \in [active : BOOLEAN, cb : Nat, left : Nat]
    BY <1>e, <1>f, <1>g
  <2> QED BY <1>0, <1>a, <2>1 DEF ChainKinds, spi
<1>2. ChainTask'
  BY <1>0, <1>5, <1>a DEF ChainTask, ByDma, HasSource, HasCbs, HasChain, Finishing, Restoring
<1>4. ChainMemory'
  BY <1>0, <1>a, <1>b, ChainMemoryKept
<1>6. ChainUnderWay(a, size, s, c, 0, n)'
  <2>1. ChainHolds(a, size, s, c)'
    BY <1>a, <1>e DEF ChainHolds, ChunkHolds
  <2>2. SourceLimit' = SourceLimit /\ CbLimit' = CbLimit /\ ~Waited'
    BY <1>5, <1>a, <1>b DEF SourceLimit, CbLimit, Waited
  <2>3. ChunkMoves(size, s, c, 0, n - Before(0))'
    <3>1. PICK m \in 0..InChunk(size, 0) : m = n - Before(0) /\ rx + Len(tx) = m
      BY <1>5, <1>e DEF ChunkMoves
    <3>2. PICK l \in Nat \ {0} : l = InChunk(size, 0)
      BY <1>f
    <3>3. rx' = rx /\ tx' = tx /\ ta' = ta
      BY <1>a DEF spi
    <3>4. l \in 1..l /\ l - l + (rx' + Len(tx')) = m
      <4>1. m \in Nat /\ rx' + Len(tx') = m
        BY <3>1, <3>2, <3>3
      <4>2. l \in 1..l /\ l - l + m = m
        BY <4>1
      <4> QED BY <4>1, <4>2
    <3>5. ChunkMoves(size, s, c, 0, m)
      BY <1>e, <3>1
    <3>6. /\ rxDma'.active /\ rxDma'.cb = CbAt(c, 0) + 1 /\ rxDma'.left = l
      BY <1>f, <1>g, <3>2
    <3> QED BY <1>5, <1>a, <3>1, <3>2, <3>3, <3>4, <3>5, <3>6 DEF ChunkMoves
  <2> QED BY <1>a, <1>d, <1>e, <2>1, <2>2, <2>3 DEF ChainUnderWay
<1>7. ChainBus'
  <2>1. Written(a, n)'
    <3>1. n \in Nat /\ dc' = dc /\ tx' = tx /\ tasks' = tasks /\ received' = received
      BY <1>a, <1>d DEF spi
    <3> QED BY <1>d, <3>1, ChainFacts, WrittenKept
  <2>2. dmaen' /\ dc'
    BY <1>0, <1>5, <1>a DEF spi, ChainBus
  <2> QED BY <1>c, <1>d, <1>e, <1>6, <2>1, <2>2 DEF ChainBus
<1> QED BY <1>1, <1>2, <1>4, <1>a, <1>b, <1>c, <1>7, ChainDriverStep

\* A step of the clock or of the channels.
LEMMA HardwareStep ==
  ASSUME ChainAlive, UNCHANGED <<config, running, exiting, queue, pc, driver, memory, dc>>,
         ta' \in BOOLEAN, dmaen' \in BOOLEAN, tx' \in Seq(Units), Len(tx') <= FifoSize,
         rx' \in 0..FifoSize, received' \in Seq([unit : Units, dc : BOOLEAN]),
         txDma' \in [active : BOOLEAN, src : Nat, left : Nat],
         rxDma' \in [active : BOOLEAN, cb : Nat, left : Nat],
         Ordered(Last)', IF Chaining THEN ChainBus' ELSE PolledBus'
  PROVE  ChainAlive'
<1> USE DEF config, queue, driver, memory
<1>0. ChainKinds /\ ChainTask /\ ChainMemory /\ build = "single_dma"
  BY ChainParts
<1>1. ChainKinds'
  BY <1>0 DEF ChainKinds
<1>b. /\ SentByDma' = SentByDma /\ task' = task /\ Last' = Last
      /\ HasSource' = HasSource /\ HasCbs' = HasCbs /\ HasChain' = HasChain
  BY DEF SentByDma, task, Last, HasSource, HasCbs, HasChain, Finishing
<1>2. ChainTask'
  BY <1>0, <1>b DEF ChainTask, ByDma, Finishing, Restoring
<1>4. ChainMemory'
  BY <1>0, <1>b, ChainMemoryKept
<1>5. Chaining' <=> Chaining
  BY DEF Chaining
<1> QED BY <1>0, <1>1, <1>2, <1>4, <1>5 DEF ChainAlive, ChainInv

\* Where something moves, a chain is under way.
LEMMA ChainAt ==
  ASSUME ChainAlive, Chaining, tx # <<>> \/ txDma.active \/ rxDma.active
  PROVE  \E a \in Nat \ {0}, size \in Nat \ {0}, n \in Nat, s \in Nat, c \in Nat :
           \E i \in 0..MostChunks(size) - 1 :
             /\ a = Last /\ a <= Len(tasks) /\ size = tasks[a].size /\ dc /\ dmaen
             /\ n <= size /\ s <= SourceSize /\ c <= NumCbs
             /\ Written(a, n) /\ ChainUnderWay(a, size, s, c, i, n)
<1>0. ChainBus
  BY ChainParts
<1>1. PICK a \in Nat \ {0}, size \in Nat :
        a = Last /\ a <= Len(tasks) /\ size = tasks[a].size /\ dc /\ dmaen
  BY <1>0, ChainFacts DEF ChainBus
<1>2. PICK n \in 0..size, s \in 0..SourceSize, c \in 0..NumCbs, i \in 0..size :
        /\ Written(a, n) /\ ChainUnderWay(a, size, s, c, i, n)
  BY <1>0, <1>1 DEF ChainBus, AtRest
<1>3. size > 0 /\ i < MostChunks(size)
  BY <1>2 DEF ChainUnderWay
<1>4. PICK k \in Nat \ {0} : k = MostChunks(size)
  BY <1>3, Chunked
<1>5. i \in 0..k - 1
  BY <1>3, <1>4
<1>6. n \in Nat /\ s \in Nat /\ c \in Nat /\ n <= size /\ s <= SourceSize /\ c <= NumCbs
      /\ size \in Nat \ {0}
  BY <1>3, ChainFacts
<1> QED BY <1>1, <1>2, <1>4, <1>5, <1>6

\* It stays under way.
LEMMA ChainOn ==
  ASSUME ChainAlive, UNCHANGED <<config, running, exiting, queue, pc, driver, memory, dc>>,
         NEW a \in Nat \ {0}, NEW size \in Nat \ {0}, NEW n \in Nat, NEW s \in Nat, NEW c \in Nat,
         NEW i \in 0..MostChunks(size) - 1,
         a = Last, size = tasks[a].size, dc, s <= SourceSize, c <= NumCbs,
         ChainUnderWay(a, size, s, c, i, n),
         NEW m \in Nat, NEW j \in 0..MostChunks(size) - 1,
         m <= size, Before(j) <= m, Written(a, m)', dmaen',
         \/ ChunkMoves(size, s, c, j, m - Before(j))'
         \/ m = Before(j) /\ ChunkStarts(c, j)'
  PROVE  ChainBus'
<1> USE DEF config, queue, driver, memory
<1>1. Last' = Last /\ SourceLimit' = SourceLimit /\ CbLimit' = CbLimit /\ Waited' = Waited
      /\ tasks' = tasks
  BY DEF Last, SourceLimit, CbLimit, HasSource, HasCbs, HasChain, Finishing, Waited, SentByDma, task
<1>2. ChainHolds(a, size, s, c)' = ChainHolds(a, size, s, c)
  BY DEF ChainHolds, ChunkHolds
<1>3. j < MostChunks(size) /\ j \in 0..size
  <2>1. PICK k \in Nat \ {0} : k = MostChunks(size) /\ k <= size
    BY Chunked
  <2> QED BY <2>1
<1>4. ChainUnderWay(a, size, s, c, j, m)'
  BY <1>1, <1>2, <1>3 DEF ChainUnderWay
<1>5. s \in 0..SourceSize /\ c \in 0..NumCbs /\ m \in 0..size
  BY ChainFacts
<1> QED BY <1>1, <1>3, <1>4, <1>5 DEF ChainBus

LEMMA ClockChain ==
  ASSUME ChainAlive, Clock
  PROVE  ChainAlive'
<1> USE DEF Clock, dma
<1>0. ChainKinds /\ (IF Chaining THEN ChainBus ELSE PolledBus)
  BY ChainParts
<1>1. PICK a \in Nat : a = Last /\ a = Last' /\ Ordered(a) /\ tasks' = tasks
  BY ChainFacts DEF ChainAlive, ChainInv, Last, config, queue, driver
<1>a. rx \in Nat /\ rx' = rx + 1 /\ rx' \in 0..FifoSize /\ Len(tx) > 0
  BY ChainFacts
<1>2. ASSUME NEW n \in Nat, Written(a, n)
      PROVE  /\ Written(a, n)' /\ Ordered(a)' /\ tx' \in Seq(Units) /\ Len(tx') = Len(tx) - 1
             /\ received' \in Seq([unit : Units, dc : BOOLEAN])
  BY <1>1, <1>2, ChainFacts, WrittenOut
<1>3. ASSUME Chaining
      PROVE  /\ ChainBus' /\ Ordered(a)' /\ tx' \in Seq(Units) /\ Len(tx') = Len(tx) - 1
             /\ received' \in Seq([unit : Units, dc : BOOLEAN])
  <2>a. PICK d \in Nat \ {0}, size \in Nat \ {0}, n \in Nat, s \in Nat, c \in Nat :
          \E i \in 0..MostChunks(size) - 1 :
            /\ d = Last /\ d <= Len(tasks) /\ size = tasks[d].size /\ dc /\ dmaen
            /\ n <= size /\ s <= SourceSize /\ c <= NumCbs
            /\ Written(d, n) /\ ChainUnderWay(d, size, s, c, i, n)
    BY <1>3, ChainAt
  <2>b. a = d /\ a > 0
    <3>1. a = Last
      BY <1>1
    <3>2. d = Last
      BY <2>a
    <3>3. a = d
      BY <3>1, <3>2
    <3> QED BY <3>3
  <2>1. /\ a > 0 /\ size = tasks[a].size /\ dc /\ dmaen
        /\ n <= size /\ s <= SourceSize /\ c <= NumCbs /\ Written(a, n)
    BY <2>a, <2>b
  <2>2. PICK i \in 0..MostChunks(size) - 1 : ChainUnderWay(a, size, s, c, i, n)
    BY <2>a, <2>b
  <2>3. ChunkMoves(size, s, c, i, n - Before(i)) /\ ta /\ Before(i) <= n
    BY <2>2 DEF ChainUnderWay, ChunkMoves, ChunkStarts
  <2>4. rx' + Len(tx') = rx + Len(tx)
    BY <1>2, <1>a, <2>1, ChainFacts
  <2>5. UNCHANGED <<pc, ta, dmaen, txDma, rxDma>>
    OBVIOUS
  <2>6. ChunkMoves(size, s, c, i, n - Before(i))'
    BY <2>3, <2>4, <2>5 DEF ChunkMoves
  <2>7. ChainBus'
    <3>1. Written(a, n)' /\ a \in Nat \ {0}
      BY <1>2, <2>1
    <3> QED BY <1>1, <2>1, <2>2, <2>3, <2>6, <3>1, ChainOn
  <2> QED BY <1>2, <2>1, <2>7
<1>4. ASSUME ~Chaining
      PROVE  /\ PolledBus' /\ Ordered(a)' /\ tx' \in Seq(Units) /\ Len(tx') = Len(tx) - 1
             /\ received' \in Seq([unit : Units, dc : BOOLEAN])
  <2>1. PICK n \in Nat : n = PolledNr /\ n = PolledNr' /\ Written(a, n)
    BY <1>0, <1>1, <1>4, PolledNrNat DEF PolledBus, PolledNr, driver
  <2>2. Written(Last, PolledNr)'
    BY <1>1, <1>2, <2>1
  <2>3. rx' + Len(tx') = Len(tx) + rx
    BY <1>2, <1>a, <2>1, ChainFacts
  <2>4. Len(tx') + rx' = Len(tx) + rx
    BY <1>2, <1>a, <2>1, ChainFacts
  <2>5. PolledBus'
    BY <1>0, <1>4, <2>2, <2>4 DEF PolledBus
  <2> QED BY <1>2, <2>1, <2>5
<1>5. Len(tx') <= FifoSize
  <2>1. Len(tx') = Len(tx) - 1
    BY <1>3, <1>4
  <2>2. Len(tx) <= FifoSize
    BY <1>0 DEF ChainKinds
  <2>3. PICK l \in Nat, f \in Nat : l = Len(tx) /\ f = FifoSize
    BY ChainFacts
  <2>4. Len(tx') = l - 1 /\ l - 1 <= f
    BY <2>1, <2>2, <2>3
  <2> QED BY <2>3, <2>4
<1>6. ta' \in BOOLEAN /\ dmaen' \in BOOLEAN /\ txDma' = txDma /\ rxDma' = rxDma
  BY <1>0 DEF ChainKinds
<1>7. /\ txDma' \in [active : BOOLEAN, src : Nat, left : Nat]
      /\ rxDma' \in [active : BOOLEAN, cb : Nat, left : Nat]
  BY <1>0, <1>6 DEF ChainKinds
<1>8. Ordered(Last)'
  BY <1>1, <1>3, <1>4
<1> QED BY <1>a, <1>3, <1>4, <1>5, <1>6, <1>7, <1>8, HardwareStep

\* The bus and the display do not see what the channels do beside it.
LEMMA ChannelStep ==
  ASSUME ChainAlive, Chaining,
         UNCHANGED <<config, running, exiting, queue, pc, driver, memory, dc, received>>,
         ta' \in BOOLEAN, dmaen' = TRUE, tx' \in Seq(Units), Len(tx') <= FifoSize,
         rx' \in 0..FifoSize,
         txDma' \in [active : BOOLEAN, src : Nat, left : Nat],
         rxDma' \in [active : BOOLEAN, cb : Nat, left : Nat],
         ChainBus'
  PROVE  ChainAlive'
<1>1. PICK a \in Nat : a = Last /\ a = Last' /\ Ordered(a) /\ tasks' = tasks
  BY ChainFacts DEF ChainAlive, ChainInv, Last, config, queue, driver
<1>2. Ordered(a)'
  BY <1>1, ChainFacts, OrderedKept
<1>3. Ordered(Last)'
  BY <1>1, <1>2
<1>4. received' \in Seq([unit : Units, dc : BOOLEAN])
  BY ChainFacts DEF BusTypes
<1> QED BY <1>3, <1>4, HardwareStep

\* The chunk of the chain in numbers.
LEMMA ChunkNumbers ==
  ASSUME NEW size \in Nat \ {0}, NEW s \in Nat, NEW c \in Nat, NEW i \in 0..MostChunks(size) - 1
  PROVE  /\ Before(i) \in Nat /\ InChunk(size, i) \in Nat \ {0}
         /\ HeaderAt(size, s, i) \in Nat /\ CbAt(c, i) \in Nat
         /\ Before(i) + InChunk(size, i) <= size
         /\ i < MostChunks(size) - 1 =>
              /\ i + 1 \in 0..MostChunks(size) - 1 /\ CbAt(c, i + 1) \in Nat
              /\ Before(i + 1) = Before(i) + InChunk(size, i)
         /\ ~(i < MostChunks(size) - 1) => Before(i) + InChunk(size, i) = size
<1>1. PICK k \in Nat \ {0} : k = MostChunks(size)
  BY Chunked
<1>2. PICK b \in Nat : b = Before(i)
  BY Chunked
<1>3. PICK l \in Nat \ {0} : l = InChunk(size, i)
  <2>1. InChunk(size, i) \in 1..MaxChunk /\ MaxChunk \in Nat \ {0}
    BY Chunked
  <2> QED BY <2>1
<1>4. PICK h \in Nat, x \in Nat : h = HeaderAt(size, s, i) /\ x = CbAt(c, i)
  BY ChunkPlaces
<1>5. b + l <= size /\ (i = k - 1 => b + l = size) /\ (i < k - 1 => Before(i + 1) = b + l)
  BY <1>1, <1>2, <1>3, Chunked
<1>6. i \in 0..k - 1
  BY <1>1
<1>7. ASSUME i < k - 1 PROVE i + 1 \in 0..k - 1 /\ CbAt(c, i + 1) \in Nat
  <2>1. i + 1 \in 0..k - 1
    BY <1>6, <1>7
  <2>2. CbAt(c, i + 1) \in Nat
    BY <1>1, <2>1, ChunkPlaces
  <2> QED BY <2>1, <2>2
<1>8. ~(i < k - 1) => i = k - 1
  BY <1>6
<1> QED BY <1>1, <1>2, <1>3, <1>4, <1>5, <1>7, <1>8

LEMMA TxMoveChain ==
  ASSUME ChainAlive, TxMove
  PROVE  ChainAlive'
<1>0. ChainKinds /\ (IF Chaining THEN ChainBus ELSE PolledBus)
  BY ChainParts
<1>1. Chaining /\ txDma.active /\ dmaen
  BY <1>0 DEF PolledBus, TxMove
<1>2. PICK a \in Nat \ {0}, size \in Nat \ {0}, n \in Nat, s \in Nat, c \in Nat :
        \E i \in 0..MostChunks(size) - 1 :
          /\ a = Last /\ a <= Len(tasks) /\ size = tasks[a].size /\ dc /\ dmaen
          /\ n <= size /\ s <= SourceSize /\ c <= NumCbs
          /\ Written(a, n) /\ ChainUnderWay(a, size, s, c, i, n)
  BY <1>1, ChainAt
<1>3. PICK i \in 0..MostChunks(size) - 1 : ChainUnderWay(a, size, s, c, i, n)
  BY <1>2
<1>4. PICK b \in Nat, l \in Nat \ {0}, h \in Nat, x \in Nat :
        /\ b = Before(i) /\ l = InChunk(size, i) /\ h = HeaderAt(size, s, i) /\ x = CbAt(c, i)
        /\ b + l <= size
        /\ i < MostChunks(size) - 1 =>
             i + 1 \in 0..MostChunks(size) - 1 /\ Before(i + 1) = b + l /\ CbAt(c, i + 1) \in Nat
        /\ ~(i < MostChunks(size) - 1) => b + l = size
  <2>1. PICK b \in Nat, l \in Nat \ {0}, h \in Nat, x \in Nat :
          b = Before(i) /\ l = InChunk(size, i) /\ h = HeaderAt(size, s, i) /\ x = CbAt(c, i)
    <3>1. /\ Before(i) \in Nat /\ InChunk(size, i) \in Nat \ {0}
          /\ HeaderAt(size, s, i) \in Nat /\ CbAt(c, i) \in Nat
      BY ChunkNumbers
    <3> QED BY <3>1
  <2>2. b + l <= size
    BY <2>1, ChunkNumbers
  <2>3. ASSUME i < MostChunks(size) - 1
        PROVE  /\ i + 1 \in 0..MostChunks(size) - 1 /\ Before(i + 1) = b + l
               /\ CbAt(c, i + 1) \in Nat
    BY <2>1, <2>3, ChunkNumbers
  <2>4. ~(i < MostChunks(size) - 1) => b + l = size
    BY <2>1, ChunkNumbers
  <2> QED BY <2>1, <2>2, <2>3, <2>4
<1>e. b = Before(i) /\ l = InChunk(size, i) /\ h = HeaderAt(size, s, i) /\ x = CbAt(c, i)
  BY <1>4
<1>5. PICK m \in 0..l : m = n - b /\ ChunkMoves(size, s, c, i, m) /\ n = b + m
  <2>1. ChunkMoves(size, s, c, i, n - b)
    BY <1>1, <1>3, <1>4 DEF ChainUnderWay, ChunkStarts
  <2>2. n - b \in 0..l
    BY <1>4, <2>1 DEF ChunkMoves
  <2> QED BY <1>4, <2>1, <2>2
<1>6. /\ txDma.src \in Nat /\ txDma.left \in Nat \ {0}
      /\ IF ta THEN txDma.src = h + 1 + m /\ txDma.left = l - m
         ELSE txDma.src = h /\ txDma.left = 1 + l /\ m = 0 /\ tx = <<>> /\ rx = 0
      /\ IF pc = "startRx" THEN i = 0 /\ ~rxDma.active /\ rx + Len(tx) = m
         ELSE /\ rxDma.active /\ rxDma.cb = CbAt(c, i) + 1 /\ rxDma.left \in 1..l
              /\ l - rxDma.left + (rx + Len(tx)) = m
  <2>1. txDma.src \in Nat /\ txDma.left \in Nat \ {0}
    BY <1>1, <1>5 DEF ChunkMoves
  <2>2. IF ta THEN txDma.src = h + 1 + m /\ txDma.left = l - m
        ELSE txDma.src = h /\ txDma.left = 1 + l /\ m = 0 /\ tx = <<>> /\ rx = 0
    BY <1>e, <1>5, Zenon DEF ChunkMoves
  <2>3. IF pc = "startRx" THEN i = 0 /\ ~rxDma.active /\ rx + Len(tx) = m
        ELSE /\ rxDma.active /\ rxDma.cb = CbAt(c, i) + 1 /\ rxDma.left \in 1..l
             /\ l - rxDma.left + (rx + Len(tx)) = m
    BY <1>e, <1>5, Zenon DEF ChunkMoves
  <2> QED BY <2>1, <2>2, <2>3, Zenon
<1>7. PICK src \in Nat, left \in Nat \ {0} :
        /\ src = txDma.src /\ left = txDma.left
        /\ txDma' = [active |-> left > 1, src |-> src + 1, left |-> left - 1]
  BY <1>6 DEF TxMove
<1>8. /\ txDma' \in [active : BOOLEAN, src : Nat, left : Nat]
      /\ txDma'.src = src + 1 /\ txDma'.left = left - 1 /\ src + 1 \in Nat /\ left - 1 \in Nat
      /\ (txDma'.active <=> left - 1 > 0)
  <2>1. left > 1 <=> left - 1 > 0
    OBVIOUS
  <2>2. src + 1 \in Nat /\ left - 1 \in Nat
    OBVIOUS
  <2>3. txDma'.active = (left > 1) /\ txDma'.src = src + 1 /\ txDma'.left = left - 1
    BY <1>7
  <2>4. txDma' \in [active : BOOLEAN, src : Nat, left : Nat]
    BY <1>7, <2>2
  <2> QED BY <2>1, <2>2, <2>3, <2>4, Zenon
<1>9. /\ UNCHANGED <<config, running, exiting, queue, pc, driver, memory, dmaen, rx, dc, rxDma, txAddr,
                     received>>
      /\ UNCHANGED <<tasks>> /\ BusTypes /\ Len(tx) \in Nat /\ rx \in Nat
  BY ChainFacts DEF TxMove, queue
<1>a. ASSUME NEW k \in Nat, k \in 0..l, b + k <= size, ChunkMoves(size, s, c, i, k)',
             Written(a, b + k)'
      PROVE  ChainBus'
  <2>1. b + k \in Nat /\ b <= b + k /\ (b + k) - b = k
    OBVIOUS
  <2>2. ChunkMoves(size, s, c, i, (b + k) - b)'
    BY <1>a, <2>1
  <2> QED BY <1>1, <1>2, <1>3, <1>4, <1>9, <1>a, <2>1, <2>2, ChainOn
<1>b. CASE ta
  <2>1. TXD /\ tx' = Append(tx, mem[src]) /\ ta' = ta
    BY <1>7, <1>b DEF TxMove
  <2>2. src = h + (m + 1) /\ left = l - m /\ m + 1 \in 1..l
    BY <1>6, <1>7, <1>b
  <2>3. mem[src] = Unit(a, n + 1)
    <3>1. ChunkHolds(a, size, s, c, i)
      BY <1>3 DEF ChainUnderWay, ChainHolds
    <3>2. mem[h + (m + 1)] = Unit(a, b + (m + 1))
      BY <1>4, <2>2, <3>1 DEF ChunkHolds
    <3>3. b + (m + 1) = n + 1
      BY <1>5
    <3> QED BY <2>2, <3>2, <3>3
  <2>4. Len(tx) <= n
    BY <1>2, <1>9 DEF Written
  <2>5. Written(a, n + 1)' /\ tx' \in Seq(Units) /\ Len(tx') = Len(tx) + 1
    BY <1>2, <1>9, <2>1, <2>3, <2>4, WrittenMore
  <2>6. Len(tx') <= FifoSize
    BY <1>9, <2>1, <2>5, ChainFacts DEF TXD
  <2>7. PICK k \in Nat : k = m + 1 /\ k \in 0..l /\ b + k <= size /\ b + k = n + 1
    BY <1>4, <1>5, <2>2
  <2>8. ChunkMoves(size, s, c, i, k)'
    <3>1. txDma'.src = h + 1 + k /\ txDma'.left = l - k
      BY <1>8, <2>2, <2>7
    <3>2. rx' + Len(tx') = (rx + Len(tx)) + 1 /\ rx + Len(tx) \in Nat
      BY <1>9, <2>5
    <3>3. IF pc = "startRx" THEN rx' + Len(tx') = k
          ELSE l - rxDma.left + (rx' + Len(tx')) = k
      <4>1. PICK j \in Nat, o \in Nat : j = rx + Len(tx) /\ o = rx' + Len(tx') /\ o = j + 1
        BY <3>2
      <4>2. CASE pc = "startRx"
        BY <1>6, <2>7, <4>1, <4>2
      <4>3. CASE pc # "startRx"
        <5>1. PICK p \in 1..l : p = rxDma.left /\ l - p + j = m
          BY <1>6, <4>1, <4>3
        <5>2. l - p + j = m /\ o = j + 1 /\ k = m + 1
          BY <2>7, <4>1, <5>1
        <5>3. l - p + o = k
          BY <5>2
        <5> QED BY <4>1, <4>3, <5>1, <5>3
      <4> QED BY <4>2, <4>3
    <3>4. pc' = pc /\ rxDma' = rxDma /\ ta'
      BY <1>9, <1>b, <2>1
    <3> QED BY <1>4, <1>6, <1>8, <2>7, <3>1, <3>3, <3>4 DEF ChunkMoves
  <2>9. ChainBus'
    BY <1>a, <2>5, <2>7, <2>8
  <2>10. ta' \in BOOLEAN /\ dmaen' = TRUE /\ rx' \in 0..FifoSize
         /\ rxDma' \in [active : BOOLEAN, cb : Nat, left : Nat]
    BY <1>0, <1>1, <1>9, <2>1 DEF ChainKinds
  <2> QED BY <1>1, <1>8, <1>9, <2>5, <2>6, <2>9, <2>10, ChannelStep
<1>c. CASE ~ta
  <2>1. tx' = tx /\ ta' = TRUE
    BY <1>c DEF TxMove
  <2>2. src = h /\ left = 1 + l /\ m = 0 /\ n = b + 0
    BY <1>5, <1>6, <1>7, <1>c
  <2>3. Written(a, n)'
    BY <1>2, <1>9, <2>1, WrittenKept
  <2>4. ChunkMoves(size, s, c, i, 0)'
    <3>1. txDma'.src = h + 1 + 0 /\ txDma'.left = l - 0 /\ 0 \in 0..l
      BY <1>8, <2>2
    <3>2. pc' = pc /\ rxDma' = rxDma /\ rx' = rx
      BY <1>9
    <3> QED BY <1>4, <1>6, <1>8, <2>1, <2>2, <3>1, <3>2 DEF ChunkMoves
  <2>5. ChainBus'
    <3>1. 0 \in 0..l /\ b + 0 <= size /\ 0 \in Nat
      BY <1>4
    <3> QED BY <1>a, <2>2, <2>3, <2>4, <3>1
  <2>6. ta' \in BOOLEAN /\ dmaen' = TRUE /\ rx' \in 0..FifoSize
        /\ rxDma' \in [active : BOOLEAN, cb : Nat, left : Nat]
        /\ tx' \in Seq(Units) /\ Len(tx') <= FifoSize
    BY <1>0, <1>1, <1>9, <2>1 DEF ChainKinds
  <2> QED BY <1>1, <1>8, <1>9, <2>5, <2>6, ChannelStep
<1> QED BY <1>b, <1>c

LEMMA RxMoveChain ==
  ASSUME ChainAlive, RxMove
  PROVE  ChainAlive'
<1>0. ChainKinds /\ (IF Chaining THEN ChainBus ELSE PolledBus)
  BY ChainParts
<1>1. Chaining /\ rxDma.active /\ dmaen /\ Op = "rx"
  BY <1>0 DEF PolledBus, RxMove
<1>2. PICK a \in Nat \ {0}, size \in Nat \ {0}, n \in Nat, s \in Nat, c \in Nat :
        \E i \in 0..MostChunks(size) - 1 :
          /\ a = Last /\ a <= Len(tasks) /\ size = tasks[a].size /\ dc /\ dmaen
          /\ n <= size /\ s <= SourceSize /\ c <= NumCbs
          /\ Written(a, n) /\ ChainUnderWay(a, size, s, c, i, n)
  BY <1>1, ChainAt
<1>3. PICK i \in 0..MostChunks(size) - 1 : ChainUnderWay(a, size, s, c, i, n)
  BY <1>2
<1>4. PICK b \in Nat, l \in Nat \ {0}, h \in Nat, x \in Nat :
        /\ b = Before(i) /\ l = InChunk(size, i) /\ h = HeaderAt(size, s, i) /\ x = CbAt(c, i)
        /\ b + l <= size
        /\ i < MostChunks(size) - 1 =>
             i + 1 \in 0..MostChunks(size) - 1 /\ Before(i + 1) = b + l /\ CbAt(c, i + 1) \in Nat
        /\ ~(i < MostChunks(size) - 1) => b + l = size
  <2>1. PICK b \in Nat, l \in Nat \ {0}, h \in Nat, x \in Nat :
          b = Before(i) /\ l = InChunk(size, i) /\ h = HeaderAt(size, s, i) /\ x = CbAt(c, i)
    <3>1. /\ Before(i) \in Nat /\ InChunk(size, i) \in Nat \ {0}
          /\ HeaderAt(size, s, i) \in Nat /\ CbAt(c, i) \in Nat
      BY ChunkNumbers
    <3> QED BY <3>1
  <2>2. b + l <= size
    BY <2>1, ChunkNumbers
  <2>3. ASSUME i < MostChunks(size) - 1
        PROVE  /\ i + 1 \in 0..MostChunks(size) - 1 /\ Before(i + 1) = b + l
               /\ CbAt(c, i + 1) \in Nat
    BY <2>1, <2>3, ChunkNumbers
  <2>4. ~(i < MostChunks(size) - 1) => b + l = size
    BY <2>1, ChunkNumbers
  <2> QED BY <2>1, <2>2, <2>3, <2>4
<1>e. b = Before(i) /\ l = InChunk(size, i) /\ h = HeaderAt(size, s, i) /\ x = CbAt(c, i)
  BY <1>4
<1>h. ChunkHolds(a, size, s, c, i)
  BY <1>3 DEF ChainUnderWay, ChainHolds
<1>5. PICK m \in 0..l : m = n - b /\ ChunkMoves(size, s, c, i, m) /\ n = b + m
  <2>1. ~ChunkStarts(c, i)
    <3>1. ASSUME i > 0
          PROVE  /\ cb[CbAt(c, i) + 2].op = "setDMATxAddress"
                 /\ cb[CbAt(c, i) + 3].op = "disableTransferActive"
                 /\ cb[CbAt(c, i) + 4].op = "startDMATxChannel"
      BY <1>h, <3>1 DEF ChunkHolds, Block
    <3> QED BY <1>1, <3>1 DEF ChunkStarts, Op
  <2>2. ChunkMoves(size, s, c, i, n - b)
    BY <1>3, <1>4, <2>1 DEF ChainUnderWay
  <2>3. n - b \in 0..l
    BY <1>4, <2>2 DEF ChunkMoves
  <2> QED BY <1>4, <2>2, <2>3
<1>6. /\ ta /\ txDma.left = l - m /\ (txDma.active <=> txDma.left > 0) /\ pc # "startRx"
      /\ rxDma.cb = x + 1 /\ rxDma.left \in 1..l
      /\ l - rxDma.left + (rx + Len(tx)) = m
  <2>1. ta /\ pc # "startRx"
    BY <1>1, <1>5, ChainFacts DEF ChunkMoves, RxMove
  <2>2. txDma.active <=> txDma.left > 0
    BY <1>5 DEF ChunkMoves
  <2>3. txDma.left = l - m
    BY <1>e, <1>5, <2>1, Zenon DEF ChunkMoves
  <2>4. /\ rxDma.cb = x + 1 /\ rxDma.left \in 1..l
        /\ l - rxDma.left + (rx + Len(tx)) = m
    BY <1>e, <1>5, <2>1, Zenon DEF ChunkMoves
  <2> QED BY <2>1, <2>2, <2>3, <2>4, Zenon
<1>7. PICK left \in 1..l, r \in Nat, q \in Nat :
        left = rxDma.left /\ r = rx /\ r > 0 /\ q = Len(tx) /\ (l - left) + (r + q) = m
        /\ rx' = r - 1 /\ rx' \in Nat
  <2>1. PICK left \in 1..l, r \in Nat, q \in Nat : left = rxDma.left /\ r = rx /\ q = Len(tx)
    BY <1>6, ChainFacts
  <2>2. r > 0 /\ rx' = r - 1
    BY <2>1 DEF RxMove
  <2>3. rx' \in Nat
    <3>1. PICK p \in Nat : p = r - 1
      BY <2>2
    <3> QED BY <2>2, <3>1
  <2>4. (l - left) + (r + q) = m
    BY <1>6, <2>1
  <2> QED BY <2>1, <2>2, <2>3, <2>4
<1>8. cb[x + 1] = Block("rx", 0, l, IF i < MostChunks(size) - 1 THEN CbAt(c, i + 1) + 2 ELSE -1)
  BY <1>4, <1>h DEF ChunkHolds
<1>9. /\ UNCHANGED <<config, running, exiting, queue, pc, driver, memory, ta, dmaen, tx, dc, txDma,
                     txAddr, received>>
      /\ UNCHANGED <<tasks>> /\ BusTypes
  BY ChainFacts DEF RxMove, queue
<1>10. /\ ta' \in BOOLEAN /\ dmaen' = TRUE /\ tx' \in Seq(Units) /\ Len(tx') <= FifoSize
       /\ txDma' \in [active : BOOLEAN, src : Nat, left : Nat]
  BY <1>0, <1>1, <1>9 DEF ChainKinds
<1>11. rx' \in 0..FifoSize
  <2>1. r <= FifoSize /\ FifoSize \in Nat
    BY <1>0, <1>7, ChainFacts DEF ChainKinds
  <2> QED BY <1>7, <2>1
<1>12. Written(a, n)'
  BY <1>2, <1>9, WrittenKept
<1>a. CASE left > 1
  <2>1. rxDma' = [rxDma EXCEPT !.left = left - 1]
    BY <1>7, <1>a DEF RxMove
  <2>2. /\ rxDma' \in [active : BOOLEAN, cb : Nat, left : Nat]
        /\ rxDma'.active = rxDma.active /\ rxDma'.cb = rxDma.cb /\ rxDma'.left = left - 1
    <3>1. rxDma \in [active : BOOLEAN, cb : Nat, left : Nat] /\ left - 1 \in Nat
      BY <1>0, <1>a DEF ChainKinds
    <3> QED BY <2>1, <3>1
  <2>3. ChunkMoves(size, s, c, i, m)'
    <3>1. left - 1 \in 1..l /\ l - (left - 1) + (rx' + Len(tx')) = m
      <4>1. PICK p \in Nat : p = rx' /\ p = r - 1
        BY <1>7
      <4>2. rx' + Len(tx') = p + q
        BY <1>7, <1>9, <4>1
      <4>3. (l - left) + (r + q) = m
        BY <1>7
      <4>4. l - (left - 1) + (p + q) = m
        BY <4>1, <4>3
      <4>5. left - 1 \in 1..l
        BY <1>a
      <4> QED BY <4>2, <4>4, <4>5
    <3>2. pc' = pc /\ ta' = ta /\ txDma' = txDma
      BY <1>9
    <3>3. rxDma'.active /\ rxDma'.cb = CbAt(c, i) + 1
      BY <1>1, <1>4, <1>6, <2>2
    <3> QED BY <1>4, <1>5, <1>6, <2>2, <3>1, <3>2, <3>3 DEF ChunkMoves
  <2>4. ChunkMoves(size, s, c, i, n - Before(i))'
    BY <1>4, <1>5, <2>3
  <2>5. Before(i) <= n
    BY <1>4, <1>5
  <2>6. ChainBus'
    BY <1>2, <1>3, <1>9, <1>10, <1>12, <2>4, <2>5, ChainOn
  <2> QED BY <1>1, <1>9, <1>10, <1>11, <2>2, <2>6, ChannelStep
<1>b. CASE ~(left > 1)
  <2>1. GoOn(cb[x + 1].next)
    BY <1>6, <1>7, <1>b DEF RxMove, NextCb
  <2>2. left = 1 /\ r = 1 /\ q = 0 /\ m = l /\ rx' = 0 /\ n = b + l
    BY <1>5, <1>7, <1>b
  <2>3. tx' = <<>> /\ ~txDma'.active
    BY <1>6, <1>7, <1>9, <2>2, ChainFacts
  <2>4. CASE i < MostChunks(size) - 1
    <3>1. PICK y \in Nat : y = CbAt(c, i + 1) /\ cb[x + 1].next = y + 2
      BY <1>4, <1>8, <2>4 DEF Block
    <3>2. ChunkHolds(a, size, s, c, i + 1) /\ i + 1 > 0
      BY <1>3, <1>4, <2>4 DEF ChainUnderWay, ChainHolds
    <3>3. cb[y + 2].len = 1
      BY <3>1, <3>2 DEF ChunkHolds, Block
    <3>4. rxDma' = [active |-> TRUE, cb |-> y + 2, left |-> 1]
      BY <2>1, <3>1, <3>3 DEF GoOn
    <3>5. ChunkStarts(c, i + 1)'
      BY <1>6, <1>9, <2>2, <2>3, <3>1, <3>2, <3>4 DEF ChunkStarts
    <3>6. n = Before(i + 1) /\ Before(i + 1) <= n /\ i + 1 \in 0..MostChunks(size) - 1
      BY <1>4, <2>2, <2>4
    <3>7. ChainBus'
      BY <1>2, <1>3, <1>9, <1>10, <1>12, <3>5, <3>6, ChainOn
    <3>8. rxDma' \in [active : BOOLEAN, cb : Nat, left : Nat]
      BY <3>4
    <3> QED BY <1>1, <1>9, <1>10, <1>11, <3>7, <3>8, ChannelStep
  <2>5. CASE ~(i < MostChunks(size) - 1)
    <3>1. cb[x + 1].next = -1 /\ n = size
      BY <1>4, <1>8, <2>2, <2>5 DEF Block
    <3>2. rxDma' = [rxDma EXCEPT !.active = FALSE, !.left = 0]
      BY <2>1, <3>1 DEF GoOn
    <3>3. rxDma' \in [active : BOOLEAN, cb : Nat, left : Nat] /\ ~rxDma'.active
      BY <1>0, <3>2 DEF ChainKinds
    <3>4. Last' = Last /\ tasks' = tasks
      BY <1>9 DEF Last, queue
    <3>5. AtRest(n)' /\ pc' # "startRx"
      BY <1>2, <1>6, <1>9, <2>2, <2>3, <3>1, <3>3, <3>4 DEF AtRest
    <3>6. ChainBus'
      <4>1. n \in 0..size
        BY <3>1
      <4> QED BY <1>2, <1>9, <1>10, <1>12, <3>4, <3>5, <4>1 DEF ChainBus
    <3> QED BY <1>1, <1>9, <1>10, <1>11, <3>3, <3>6, ChannelStep
  <2> QED BY <2>4, <2>5
<1> QED BY <1>a, <1>b

\* The RX channel is at one of the three control blocks that start the TX channel.
LEMMA StartsAt ==
  ASSUME ChainAlive, rxDma.active, Op # "rx"
  PROVE  /\ Chaining
         /\ \E a \in Nat \ {0}, size \in Nat \ {0}, n \in Nat, s \in Nat, c \in Nat :
              \E i \in 0..MostChunks(size) - 1 :
                /\ a = Last /\ size = tasks[a].size /\ dc /\ dmaen
                /\ n <= size /\ s <= SourceSize /\ c <= NumCbs
                /\ Written(a, n) /\ ChainUnderWay(a, size, s, c, i, n)
                /\ n = Before(i) /\ ChunkStarts(c, i) /\ ChunkHolds(a, size, s, c, i) /\ i > 0
                /\ CbAt(c, i) \in Nat
<1>0. ChainKinds /\ (IF Chaining THEN ChainBus ELSE PolledBus)
  BY ChainParts
<1>1. Chaining
  BY <1>0 DEF PolledBus
<1>2. PICK a \in Nat \ {0}, size \in Nat \ {0}, n \in Nat, s \in Nat, c \in Nat :
        \E i \in 0..MostChunks(size) - 1 :
          /\ a = Last /\ a <= Len(tasks) /\ size = tasks[a].size /\ dc /\ dmaen
          /\ n <= size /\ s <= SourceSize /\ c <= NumCbs
          /\ Written(a, n) /\ ChainUnderWay(a, size, s, c, i, n)
  BY <1>1, ChainAt
<1>3. PICK i \in 0..MostChunks(size) - 1 : ChainUnderWay(a, size, s, c, i, n)
  BY <1>2
<1>4. ChunkHolds(a, size, s, c, i)
  BY <1>3 DEF ChainUnderWay, ChainHolds
<1>5. ~ChunkMoves(size, s, c, i, n - Before(i))
  <2>1. cb[CbAt(c, i) + 1].op = "rx"
    BY <1>4 DEF ChunkHolds, Block
  <2>2. ASSUME ChunkMoves(size, s, c, i, n - Before(i)) PROVE rxDma.cb = CbAt(c, i) + 1
    BY <2>2, Zenon DEF ChunkMoves
  <2> QED BY <2>1, <2>2 DEF Op
<1>6. n = Before(i) /\ ChunkStarts(c, i) /\ i > 0
  BY <1>3, <1>5 DEF ChainUnderWay, ChunkStarts
<1>7. CbAt(c, i) \in Nat
  BY ChunkNumbers
<1> QED BY <1>1, <1>2, <1>3, <1>4, <1>6, <1>7

LEMMA SetDMATxAddressChain ==
  ASSUME ChainAlive, SetDMATxAddress
  PROVE  ChainAlive'
<1>0. ChainKinds
  BY ChainParts
<1>1. rxDma.active /\ Op = "setDMATxAddress"
  BY DEF SetDMATxAddress
<1>2. /\ Chaining
      /\ \E a \in Nat \ {0}, size \in Nat \ {0}, n \in Nat, s \in Nat, c \in Nat :
           \E i \in 0..MostChunks(size) - 1 :
             /\ a = Last /\ size = tasks[a].size /\ dc /\ dmaen
             /\ n <= size /\ s <= SourceSize /\ c <= NumCbs
             /\ Written(a, n) /\ ChainUnderWay(a, size, s, c, i, n)
             /\ n = Before(i) /\ ChunkStarts(c, i) /\ ChunkHolds(a, size, s, c, i) /\ i > 0
             /\ CbAt(c, i) \in Nat
  BY <1>1, StartsAt
<1>3. PICK a \in Nat \ {0}, size \in Nat \ {0}, n \in Nat, s \in Nat, c \in Nat :
        \E i \in 0..MostChunks(size) - 1 :
          /\ a = Last /\ size = tasks[a].size /\ dc /\ dmaen
          /\ n <= size /\ s <= SourceSize /\ c <= NumCbs
          /\ Written(a, n) /\ ChainUnderWay(a, size, s, c, i, n)
          /\ n = Before(i) /\ ChunkStarts(c, i) /\ ChunkHolds(a, size, s, c, i) /\ i > 0
          /\ CbAt(c, i) \in Nat
  BY <1>2
<1>4. PICK i \in 0..MostChunks(size) - 1, x \in Nat :
        /\ ChainUnderWay(a, size, s, c, i, n) /\ n = Before(i) /\ ChunkStarts(c, i)
        /\ ChunkHolds(a, size, s, c, i) /\ i > 0 /\ x = CbAt(c, i)
  BY <1>3
<1>5. /\ mem[s + (i - 1)] = Address(x)
      /\ cb[x + 2] = Block("setDMATxAddress", s + (i - 1), 1, x + 3)
      /\ cb[x + 3] = Block("disableTransferActive", 0, 1, x + 4)
      /\ cb[x + 4] = Block("startDMATxChannel", 0, 1, x + 1)
  BY <1>4 DEF ChunkHolds
<1>6. rxDma.cb = x + 2 /\ ta
  <2>1. \/ rxDma.cb = x + 2 /\ ta
        \/ rxDma.cb = x + 3 /\ ta /\ txAddr = x
        \/ rxDma.cb = x + 4 /\ ~ta /\ txAddr = x
    BY <1>4, Zenon DEF ChunkStarts
  <2>2. cb[x + 3].op = "disableTransferActive"
    BY <1>5 DEF Block
  <2>3. cb[x + 4].op = "startDMATxChannel"
    BY <1>5 DEF Block
  <2>4. rxDma.cb # x + 3 /\ rxDma.cb # x + 4
    BY <1>1, <2>2, <2>3 DEF Op
  <2> QED BY <2>1, <2>4, Zenon
<1>7. txAddr' = x
  BY <1>5, <1>6 DEF SetDMATxAddress, Block, Address
<1>8. rxDma' = [active |-> TRUE, cb |-> x + 3, left |-> 1]
  <2>1. GoOn(x + 3)
    BY <1>5, <1>6 DEF SetDMATxAddress, NextCb, Block
  <2>2. x + 3 # -1 /\ cb[x + 3].len = 1
    BY <1>5 DEF Block
  <2> QED BY <2>1, <2>2 DEF GoOn
<1>9. /\ UNCHANGED <<config, running, exiting, queue, pc, driver, memory, dc, received>>
      /\ UNCHANGED <<ta, dmaen, tx, rx, txDma, tasks>> /\ BusTypes
  BY ChainFacts DEF SetDMATxAddress, spi, queue
<1>10. Written(a, n)' /\ ChunkStarts(c, i)' /\ dmaen'
  <2>1. Written(a, n)'
    BY <1>3, <1>9, WrittenKept
  <2>2. ChunkStarts(c, i)'
    BY <1>4, <1>6, <1>7, <1>8, <1>9 DEF ChunkStarts
  <2> QED BY <1>3, <1>9, <2>1, <2>2
<1>11. ChainBus'
  <2>1. Before(i) <= n
    BY <1>4
  <2> QED BY <1>3, <1>4, <1>9, <1>10, <2>1, ChainOn
<1>12. /\ ta' \in BOOLEAN /\ dmaen' = TRUE /\ tx' \in Seq(Units) /\ Len(tx') <= FifoSize
       /\ rx' \in 0..FifoSize
       /\ txDma' \in [active : BOOLEAN, src : Nat, left : Nat]
       /\ rxDma' \in [active : BOOLEAN, cb : Nat, left : Nat]
  BY <1>0, <1>8, <1>9, <1>10 DEF ChainKinds
<1> QED BY <1>2, <1>9, <1>11, <1>12, ChannelStep

LEMMA DisableTransferActiveChain ==
  ASSUME ChainAlive, DisableTransferActive
  PROVE  ChainAlive'
<1>0. ChainKinds
  BY ChainParts
<1>1. rxDma.active /\ Op = "disableTransferActive"
  BY DEF DisableTransferActive
<1>2. /\ Chaining
      /\ \E a \in Nat \ {0}, size \in Nat \ {0}, n \in Nat, s \in Nat, c \in Nat :
           \E i \in 0..MostChunks(size) - 1 :
             /\ a = Last /\ size = tasks[a].size /\ dc /\ dmaen
             /\ n <= size /\ s <= SourceSize /\ c <= NumCbs
             /\ Written(a, n) /\ ChainUnderWay(a, size, s, c, i, n)
             /\ n = Before(i) /\ ChunkStarts(c, i) /\ ChunkHolds(a, size, s, c, i) /\ i > 0
             /\ CbAt(c, i) \in Nat
  BY <1>1, StartsAt
<1>3. PICK a \in Nat \ {0}, size \in Nat \ {0}, n \in Nat, s \in Nat, c \in Nat :
        \E i \in 0..MostChunks(size) - 1 :
          /\ a = Last /\ size = tasks[a].size /\ dc /\ dmaen
          /\ n <= size /\ s <= SourceSize /\ c <= NumCbs
          /\ Written(a, n) /\ ChainUnderWay(a, size, s, c, i, n)
          /\ n = Before(i) /\ ChunkStarts(c, i) /\ ChunkHolds(a, size, s, c, i) /\ i > 0
          /\ CbAt(c, i) \in Nat
  BY <1>2
<1>4. PICK i \in 0..MostChunks(size) - 1, x \in Nat :
        /\ ChainUnderWay(a, size, s, c, i, n) /\ n = Before(i) /\ ChunkStarts(c, i)
        /\ ChunkHolds(a, size, s, c, i) /\ i > 0 /\ x = CbAt(c, i)
  BY <1>3
<1>5. /\ cb[x + 2] = Block("setDMATxAddress", s + (i - 1), 1, x + 3)
      /\ cb[x + 3] = Block("disableTransferActive", 0, 1, x + 4)
      /\ cb[x + 4] = Block("startDMATxChannel", 0, 1, x + 1)
  BY <1>4 DEF ChunkHolds
<1>6. rxDma.cb = x + 3 /\ txAddr = x
  <2>1. \/ rxDma.cb = x + 2 /\ ta
        \/ rxDma.cb = x + 3 /\ ta /\ txAddr = x
        \/ rxDma.cb = x + 4 /\ ~ta /\ txAddr = x
    BY <1>4, Zenon DEF ChunkStarts
  <2>2. cb[x + 2].op = "setDMATxAddress"
    BY <1>5 DEF Block
  <2>3. cb[x + 4].op = "startDMATxChannel"
    BY <1>5 DEF Block
  <2>4. rxDma.cb # x + 2 /\ rxDma.cb # x + 4
    BY <1>1, <2>2, <2>3 DEF Op
  <2> QED BY <2>1, <2>4, Zenon
<1>8. rxDma' = [active |-> TRUE, cb |-> x + 4, left |-> 1]
  <2>1. GoOn(x + 4)
    BY <1>5, <1>6 DEF DisableTransferActive, NextCb, Block
  <2>2. x + 4 # -1 /\ cb[x + 4].len = 1
    BY <1>5 DEF Block
  <2> QED BY <2>1, <2>2 DEF GoOn
<1>9. /\ UNCHANGED <<config, running, exiting, queue, pc, driver, memory, dc, received>>
      /\ UNCHANGED <<tx, rx, txDma, txAddr, tasks>> /\ ta' = FALSE /\ dmaen' = TRUE /\ BusTypes
  BY ChainFacts DEF DisableTransferActive, WriteCs, queue
<1>10. Written(a, n)' /\ ChunkStarts(c, i)' /\ dmaen'
  <2>1. Written(a, n)'
    BY <1>3, <1>9, WrittenKept
  <2>2. ChunkStarts(c, i)'
    BY <1>4, <1>6, <1>8, <1>9 DEF ChunkStarts
  <2> QED BY <1>9, <2>1, <2>2
<1>11. ChainBus'
  <2>1. Before(i) <= n
    BY <1>4
  <2> QED BY <1>3, <1>4, <1>9, <1>10, <2>1, ChainOn
<1>12. /\ tx' \in Seq(Units) /\ Len(tx') <= FifoSize /\ rx' \in 0..FifoSize
       /\ txDma' \in [active : BOOLEAN, src : Nat, left : Nat]
       /\ rxDma' \in [active : BOOLEAN, cb : Nat, left : Nat]
  BY <1>0, <1>8, <1>9 DEF ChainKinds
<1>13. ta' \in BOOLEAN
  BY <1>9, Zenon
<1> QED BY <1>2, <1>9, <1>11, <1>12, <1>13, ChannelStep

LEMMA StartDMATxChannelChain ==
  ASSUME ChainAlive, StartDMATxChannel
  PROVE  ChainAlive'
<1>0. ChainKinds
  BY ChainParts
<1>1. rxDma.active /\ Op = "startDMATxChannel"
  BY DEF StartDMATxChannel
<1>2. /\ Chaining
      /\ \E a \in Nat \ {0}, size \in Nat \ {0}, n \in Nat, s \in Nat, c \in Nat :
           \E i \in 0..MostChunks(size) - 1 :
             /\ a = Last /\ size = tasks[a].size /\ dc /\ dmaen
             /\ n <= size /\ s <= SourceSize /\ c <= NumCbs
             /\ Written(a, n) /\ ChainUnderWay(a, size, s, c, i, n)
             /\ n = Before(i) /\ ChunkStarts(c, i) /\ ChunkHolds(a, size, s, c, i) /\ i > 0
             /\ CbAt(c, i) \in Nat
  BY <1>1, StartsAt
<1>3. PICK a \in Nat \ {0}, size \in Nat \ {0}, n \in Nat, s \in Nat, c \in Nat :
        \E i \in 0..MostChunks(size) - 1 :
          /\ a = Last /\ size = tasks[a].size /\ dc /\ dmaen
          /\ n <= size /\ s <= SourceSize /\ c <= NumCbs
          /\ Written(a, n) /\ ChainUnderWay(a, size, s, c, i, n)
          /\ n = Before(i) /\ ChunkStarts(c, i) /\ ChunkHolds(a, size, s, c, i) /\ i > 0
          /\ CbAt(c, i) \in Nat
  BY <1>2
<1>4. PICK i \in 0..MostChunks(size) - 1, x \in Nat, l \in Nat \ {0}, h \in Nat :
        /\ ChainUnderWay(a, size, s, c, i, n) /\ n = Before(i) /\ ChunkStarts(c, i)
        /\ ChunkHolds(a, size, s, c, i) /\ i > 0
        /\ x = CbAt(c, i) /\ l = InChunk(size, i) /\ h = HeaderAt(size, s, i)
  <2>1. PICK i \in 0..MostChunks(size) - 1, x \in Nat :
        /\ ChainUnderWay(a, size, s, c, i, n) /\ n = Before(i) /\ ChunkStarts(c, i)
        /\ ChunkHolds(a, size, s, c, i) /\ i > 0 /\ x = CbAt(c, i)
    BY <1>3
  <2>2. InChunk(size, i) \in Nat \ {0} /\ HeaderAt(size, s, i) \in Nat
    BY ChunkNumbers
  <2> QED BY <2>1, <2>2
<1>5. /\ cb[x + 2].op = "setDMATxAddress" /\ cb[x + 3].op = "disableTransferActive"
      /\ cb[x + 4].next = x + 1
      /\ cb[x].src = h /\ cb[x].len = 1 + l /\ cb[x + 1].len = l
  BY <1>4 DEF ChunkHolds, Block
<1>6. rxDma.cb = x + 4 /\ txAddr = x /\ ~ta /\ tx = <<>> /\ rx = 0 /\ pc # "startRx"
  <2>1. /\ \/ rxDma.cb = x + 2 /\ ta
           \/ rxDma.cb = x + 3 /\ ta /\ txAddr = x
           \/ rxDma.cb = x + 4 /\ ~ta /\ txAddr = x
        /\ tx = <<>> /\ rx = 0 /\ pc # "startRx"
    BY <1>4, Zenon DEF ChunkStarts
  <2>2. rxDma.cb # x + 2 /\ rxDma.cb # x + 3
    BY <1>1, <1>5 DEF Op
  <2> QED BY <2>1, <2>2, Zenon
<1>7. txDma' = [active |-> TRUE, src |-> h, left |-> 1 + l]
  BY <1>5, <1>6 DEF StartDMATxChannel, LoadTx
<1>8. rxDma' = [active |-> TRUE, cb |-> x + 1, left |-> l]
  <2>1. GoOn(x + 1)
    BY <1>5, <1>6 DEF StartDMATxChannel, NextCb
  <2>2. x + 1 # -1
    OBVIOUS
  <2> QED BY <1>5, <2>1, <2>2 DEF GoOn
<1>9. /\ UNCHANGED <<config, running, exiting, queue, pc, driver, memory, dc, received>>
      /\ UNCHANGED <<ta, dmaen, tx, rx, tasks>> /\ BusTypes
  BY ChainFacts DEF StartDMATxChannel, spi, queue
<1>10. Written(a, n)' /\ ChunkMoves(size, s, c, i, n - Before(i))' /\ dmaen'
  <2>1. Written(a, n)'
    BY <1>3, <1>9, WrittenKept
  <2>2. n - Before(i) = 0
    BY <1>4
  <2>3. ChunkMoves(size, s, c, i, 0)'
    <3>1. /\ 0 \in 0..l /\ 1 + l \in Nat /\ 1 + l > 0 /\ l \in 1..l /\ l - l + 0 = 0
      OBVIOUS
    <3>2. rx' + Len(tx') = 0 /\ tx' = <<>> /\ rx' = 0 /\ ~ta' /\ pc' # "startRx"
      BY <1>6, <1>9
    <3>3. /\ txDma'.active /\ txDma'.src = h /\ txDma'.left = 1 + l
          /\ rxDma'.active /\ rxDma'.cb = x + 1 /\ rxDma'.left = l
      BY <1>7, <1>8
    <3> QED BY <1>4, <3>1, <3>2, <3>3 DEF ChunkMoves
  <2> QED BY <1>3, <1>9, <2>1, <2>2, <2>3
<1>11. ChainBus'
  <2>1. Before(i) <= n
    BY <1>4
  <2> QED BY <1>3, <1>4, <1>9, <1>10, <2>1, ChainOn
<1>12. /\ ta' \in BOOLEAN /\ dmaen' = TRUE /\ tx' \in Seq(Units) /\ Len(tx') <= FifoSize
       /\ rx' \in 0..FifoSize
       /\ txDma' \in [active : BOOLEAN, src : Nat, left : Nat]
       /\ rxDma' \in [active : BOOLEAN, cb : Nat, left : Nat]
  BY <1>0, <1>7, <1>8, <1>9, <1>10 DEF ChainKinds
<1> QED BY <1>2, <1>9, <1>11, <1>12, ChannelStep

LEMMA ChainInit ==
  ASSUME Init, build = "single_dma"
  PROVE  ChainInv
<1> USE DEF Init, InitDMA
<1>1. ChainKinds
  <2>1. \A t \in 1..Len(tasks) :
          UnitsFor(tasks[t].size) < SourceSize /\ CbsFor(tasks[t].size) < NumCbs
    OBVIOUS
  <2>2. /\ tasks \in Seq([dma : BOOLEAN, size : Nat]) /\ tx \in Seq(Units)
        /\ received \in Seq([unit : Units, dc : BOOLEAN])
        /\ Len(tasks) = 0 /\ Len(tx) = 0
    OBVIOUS
  <2>3. /\ txDma \in [active : BOOLEAN, src : Nat, left : Nat]
        /\ rxDma \in [active : BOOLEAN, cb : Nat, left : Nat]
        /\ DOMAIN mem = 0..SourceSize - 1 /\ DOMAIN cb = 0..NumCbs - 1
    OBVIOUS
  <2>4. ta \in BOOLEAN /\ dmaen \in BOOLEAN /\ dc \in BOOLEAN /\ previousTaskWasSPI \in BOOLEAN
    BY Zenon DEF Batches
  <2>5. Len(tx) <= FifoSize /\ rx \in 0..FifoSize /\ done <= Len(tasks) /\ Len(tasks) <= done + 1
    BY <2>2, TransferAssumption
  <2>6. running /\ ~exiting /\ ~chipSelect /\ done \in Nat /\ sent \in Nat
    OBVIOUS
  <2>7. pc = "asleep" /\ ret = "asleep"
    OBVIOUS
  <2> QED BY <2>1, <2>2, <2>3, <2>4, <2>5, <2>6, <2>7 DEF ChainKinds
<1>2. ChainTask
  BY DEF ChainTask, ByDma, HasSource, HasCbs, HasChain, Finishing, Restoring
<1>3. ChainMemory
  <2>1. ~HasSource /\ ~HasCbs /\ ~HasChain
    BY DEF HasSource, HasCbs, HasChain, Finishing
  <2> QED BY <2>1, TransferAssumption DEF ChainMemory
<1>4. Last = 0 /\ ~Chaining /\ PolledNr = 0
  BY DEF Last, Chaining, PolledNr
<1>5. PolledBus
  <2>1. ta /\ dc /\ ~txDma.active /\ ~rxDma.active /\ tx = <<>> /\ rx = 0 /\ pc = "asleep"
    BY DEF Batches
  <2>2. Written(0, 0)
    BY DEF Written
  <2> QED BY <1>4, <2>1, <2>2 DEF PolledBus
<1>6. Ordered(Last)
  BY <1>4 DEF Ordered
<1> QED BY <1>1, <1>2, <1>3, <1>4, <1>5, <1>6 DEF ChainInv

\* A step of ALL_TASKS_SHOULD_DMA by which the program does not quit.
LEMMA ChainStep ==
  ASSUME ChainAlive, [Next]_vars, running'
  PROVE  ChainAlive'
<1>0. ChainKinds /\ build = "single_dma" /\ pc \notin {"select", "deselect", "endBatch", "dmaDone", "deinit"}
      /\ running
  BY ChainParts DEF ChainKinds
<1>1. CASE Commit
  BY <1>1, CommitChain
<1>2. CASE Quit
  BY <1>2 DEF Quit
<1>3. CASE Driver
  <2>1. ~BeginBatch /\ ~BeginExit /\ ~Select /\ ~EndCommunication /\ ~PrepareTransfer
        /\ ~DmaDone /\ ~Deinit
    BY <1>0 DEF BeginBatch, Single, BeginExit, Select, EndCommunication, PrepareTransfer,
                DmaDone, Deinit
  <2>2. \/ RunCommitted \/ FetchTask \/ EndBatch \/ StartTask \/ FlushRx \/ PolledFinished
        \/ RestorePolled \/ DcLow \/ WriteCommand \/ DcHigh \/ Prefill \/ PushUnit \/ EndPush
        \/ DoneTask \/ FinishTx \/ FinishRx \/ GrabFreeDMASourceBytes \/ GrabFreeCBs
        \/ PrepareChain \/ SendCommand \/ StartDma \/ StartTx \/ StartRx
    BY <1>3, <2>1, Zenon DEF Driver
  <2> QED BY <2>2, RunCommittedChain, FetchTaskChain, EndBatchChain, StartTaskChain, FlushRxChain,
             PolledFinishedChain, RestorePolledChain, DcLowChain, WriteCommandChain, DcHighChain,
             PrefillChain, PushUnitChain, EndPushChain, DoneTaskChain, FinishTxChain, FinishRxChain,
             GrabSourceChain, GrabCbsChain, PrepareChainChain, SendCommandChain, StartDmaChain,
             StartTxChain, StartRxChain, Zenon
<1>4. CASE Clock
  BY <1>4, ClockChain
<1>5. CASE Dma
  BY <1>5, TxMoveChain, RxMoveChain, SetDMATxAddressChain, DisableTransferActiveChain,
     StartDMATxChannelChain, Zenon DEF Dma
<1>6. CASE UNCHANGED vars
  BY <1>6, StutterChain
<1> QED BY <1>1, <1>2, <1>3, <1>4, <1>5, <1>6 DEF Next

\* The channels of a chain under way stay in the memory that was grabbed for it.
LEMMA ChannelsInside ==
  ASSUME ChainAlive, Chaining, txDma.active \/ rxDma.active
  PROVE  /\ txDma.active => txDma.src \in DOMAIN mem /\ txDma.left > 0
         /\ rxDma.active => rxDma.cb \in DOMAIN cb
<1>0. ChainKinds /\ ChainMemory
  BY ChainParts
<1>1. PICK a \in Nat \ {0}, size \in Nat \ {0}, n \in Nat, s \in Nat, c \in Nat :
        \E i \in 0..MostChunks(size) - 1 :
          /\ a = Last /\ a <= Len(tasks) /\ size = tasks[a].size /\ dc /\ dmaen
          /\ n <= size /\ s <= SourceSize /\ c <= NumCbs
          /\ Written(a, n) /\ ChainUnderWay(a, size, s, c, i, n)
  BY ChainAt
<1>2. PICK i \in 0..MostChunks(size) - 1 : ChainUnderWay(a, size, s, c, i, n)
  BY <1>1
<1>3. PICK sl \in Nat, cl \in Nat :
        sl = SourceLimit /\ cl = CbLimit /\ sl <= SourceSize /\ cl <= NumCbs
  <2>1. PICK e \in Nat, f \in Nat :
          e = dmaSourceEnd /\ f = firstFreeCB /\ e <= SourceSize /\ f <= NumCbs
    BY <1>0, ChainFacts DEF ChainMemory
  <2>2. HasSource => done < Len(tasks) /\ SentByDma
    BY ChainParts DEF ChainTask, ByDma, ChainKinds, HasSource, HasCbs, HasChain, Finishing
  <2>3. ASSUME HasSource PROVE task.size \in Nat \ {0}
    BY <2>2, <2>3, ChainFacts
  <2>4. ASSUME HasSource PROVE source \in Nat /\ source <= e
    <3>1. PICK u \in Nat, s0 \in Nat : u = UnitsFor(task.size) /\ s0 = source /\ s0 + u = e
      BY <1>0, <2>1, <2>3, <2>4, GrabSizes DEF ChainMemory
    <3> QED BY <3>1
  <2>5. ASSUME HasCbs PROVE cbs0 \in Nat /\ cbs0 <= f
    <3>1. HasSource
      BY <2>5 DEF HasSource
    <3>2. PICK u \in Nat, c0 \in Nat : u = CbsFor(task.size) /\ c0 = cbs0 /\ c0 + u = f
      BY <1>0, <2>1, <2>3, <2>5, <3>1, GrabSizes DEF ChainMemory
    <3> QED BY <3>2
  <2>6. SourceLimit \in Nat /\ SourceLimit <= SourceSize
    BY <2>1, <2>4, ChainFacts DEF SourceLimit
  <2>7. CbLimit \in Nat /\ CbLimit <= NumCbs
    BY <2>1, <2>5, ChainFacts DEF CbLimit
  <2> QED BY <2>6, <2>7
<1>4. PICK l \in Nat \ {0}, h \in Nat, x \in Nat, u \in Nat, v \in Nat :
        /\ l = InChunk(size, i) /\ h = HeaderAt(size, s, i) /\ x = CbAt(c, i)
        /\ u = UnitsFor(size) /\ v = CbsFor(size)
        /\ h + l < s + u /\ x + 1 < c + v /\ (i > 0 => x + 4 < c + v)
  <2>1. InChunk(size, i) \in Nat \ {0} /\ HeaderAt(size, s, i) \in Nat /\ CbAt(c, i) \in Nat
    BY ChunkNumbers
  <2>2. UnitsFor(size) \in Nat /\ CbsFor(size) \in Nat
    BY GrabSizes
  <2>3. /\ HeaderAt(size, s, i) + InChunk(size, i) < s + UnitsFor(size)
        /\ CbAt(c, i) + 1 < c + CbsFor(size) /\ (i > 0 => CbAt(c, i) + 4 < c + CbsFor(size))
    BY ChunkPlaces
  <2> QED BY <2>1, <2>2, <2>3
<1>5. s + u <= SourceSize /\ c + v <= NumCbs /\ SourceSize \in Nat /\ NumCbs \in Nat
  <2>1. s + u <= sl /\ c + v <= cl
    BY <1>2, <1>3, <1>4 DEF ChainUnderWay
  <2> QED BY <1>3, <2>1, ChainFacts
<1>6. h + l < SourceSize /\ x + 1 < NumCbs /\ (i > 0 => x + 4 < NumCbs)
  BY <1>4, <1>5
<1>7. CASE ChunkMoves(size, s, c, i, n - Before(i))
  <2>1. PICK m \in 0..l : m = n - Before(i) /\ ChunkMoves(size, s, c, i, m)
    BY <1>4, <1>7 DEF ChunkMoves
  <2>2. ASSUME txDma.active PROVE txDma.src \in 0..SourceSize - 1 /\ txDma.left > 0
    <3>1. txDma.left > 0
      BY <2>1, <2>2 DEF ChunkMoves
    <3>2. IF ta THEN txDma.src = h + 1 + m /\ txDma.left = l - m ELSE txDma.src = h
      BY <1>4, <2>1, Zenon DEF ChunkMoves
    <3>3. CASE ta
      BY <1>5, <1>6, <3>1, <3>2, <3>3
    <3>4. CASE ~ta
      <4>1. txDma.src = h
        BY <3>2, <3>4, Zenon
      <4>2. h \in 0..SourceSize - 1
        BY <1>5, <1>6
      <4> QED BY <4>1, <4>2, <3>1
    <3> QED BY <3>1, <3>3, <3>4
  <2>3. rxDma.active => rxDma.cb = x + 1
    BY <1>4, <2>1 DEF ChunkMoves
  <2> QED BY <1>0, <1>5, <1>6, <2>2, <2>3 DEF ChainKinds
<1>8. CASE ChunkStarts(c, i)
  <2>1. ~txDma.active /\ i > 0 /\ rxDma.cb \in {x + 2, x + 3, x + 4}
    BY <1>4, <1>8 DEF ChunkStarts
  <2>2. x + 2 \in 0..NumCbs - 1 /\ x + 3 \in 0..NumCbs - 1 /\ x + 4 \in 0..NumCbs - 1
    BY <1>5, <1>6, <2>1
  <2> QED BY <1>0, <2>1, <2>2 DEF ChainKinds
<1> QED BY <1>2, <1>7, <1>8 DEF ChainUnderWay

-----------------------------------------------------------------------------
(* Theorems *)

IInv ==
  /\ build \in AllBuilds /\ ret # "gone"
  /\ build = "single_dma" => ~chipSelect
  /\ FreedMemoryIdle
  /\ build # "single_dma" => PolledInv
  /\ build = "single_dma" /\ running => ChainInv

\* The invariant is inductive.
THEOREM Inductive == Spec => []IInv
<1>1. Init => IInv
  <2>1. ASSUME Init PROVE Simple
    BY <2>1, TransferAssumption DEF Init, InitDMA, Simple, FreedMemoryIdle
  <2> QED BY <2>1, PolledInit, ChainInit DEF IInv, Simple
<1>2. IInv /\ [Next]_vars => IInv'
  <2>1. ASSUME IInv, [Next]_vars PROVE IInv'
    <3>1. Simple' BY <2>1, SimpleStep DEF IInv, Simple
    <3>2. build' = build /\ (running' => running)
      <4>1. build' = build /\ (Quit \/ running' = running)
        BY <2>1, BuildKept
      <4>2. CASE Quit
        BY <4>1, <4>2 DEF Quit
      <4>3. CASE ~Quit
        BY <4>1, <4>3
      <4> QED BY <4>2, <4>3
    <3>3. build # "single_dma" => PolledInv'
      BY <2>1, PolledStep DEF IInv
    <3>4. build = "single_dma" /\ running' => ChainInv'
      BY <2>1, <3>2, ChainStep DEF IInv, ChainAlive
    <3> QED BY <3>1, <3>2, <3>3, <3>4 DEF IInv, Simple
  <2> QED BY <2>1
<1> QED BY <1>1, <1>2, PTL DEF Spec

\* DeinitDMA frees the memory of the channels only when both stand still, in every build and
\* from wherever the program was when it quit.
THEOREM MemoryFreedIdle == Spec => []FreedMemoryIdle
<1>1. IInv => FreedMemoryIdle
  BY DEF IInv
<1> QED BY <1>1, Inductive, PTL

\* The end of END_SPI_COMMUNICATION waits for the last unit: the thread sleeps, and the chip
\* is deselected, with nothing left to be sent.
THEOREM BusIdle == Spec => []SleepsWithBusIdle
<1>1. IInv => SleepsWithBusIdle
  <2> SUFFICES ASSUME IInv, pc = "asleep", Batches \/ chipSelect, done > 0
               PROVE  Len(received) > 0 /\ received[Len(received)].unit = Unit(done, tasks[done].size)
    BY DEF SleepsWithBusIdle
  <2>1. PolledInv
    BY DEF IInv, Batches
  <2>2. ~Writing /\ ~Transferring
    BY DEF Writing, Transferring
  <2>3. tx = <<>> /\ At = done /\ done \in Nat
    BY <2>1, <2>2 DEF PolledInv, Phases, At, Kinds
  <2>4. Nr = tasks[done].size /\ Nr \in Nat /\ Len(tx) = 0
    BY <2>1, <2>2, <2>3, AtNr DEF PolledInv, Nr
  <2>5. received[Len(received)].unit = Unit(At, Nr - Len(tx)) /\ Len(received) > 0
    BY <2>1, <2>3, <2>4 DEF PolledInv, Sequences, LastReceived
  <2> QED BY <2>3, <2>4, <2>5
<1> QED BY <1>1, Inductive, PTL

\* The display gets the tasks whole and in order, each command with the line low and its
\* payload with the line high: whether the program writes them, waits for their transfer, or
\* leaves a chain of DMA transfers to itself and fills the memory behind it meanwhile.
THEOREM SentInOrder == Spec => []TasksSentInOrder
<1>1. IInv => TasksSentInOrder
  <2>1. IInv /\ build # "single_dma" => TasksSentInOrder
    BY DEF IInv, PolledInv, Sequences, InOrder, TasksSentInOrder
  <2>2. IInv /\ build = "single_dma" /\ running => TasksSentInOrder
    BY DEF IInv, ChainInv, Ordered, TasksSentInOrder
  <2>3. ~running /\ build = "single_dma" => TasksSentInOrder
    BY DEF TasksSentInOrder
  <2> QED BY <2>1, <2>2, <2>3
<1> QED BY <1>1, Inductive, PTL

\* Neither FIFO overruns, and the channels and the allocators stay in their memory; with
\* ALL_TASKS_SHOULD_DMA until the program quits, from when on it does not wait for a chain
\* before it writes to the memory of the chain again.
THEOREM TypeCorrect == Spec => [](running \/ build # "single_dma" => TypeOK)
<1>1. ASSUME IInv, build # "single_dma" PROVE TypeOK
  <2>1. Kinds /\ HasTask /\ Idle /\ Transfer
    BY <1>1 DEF IInv, PolledInv
  <2>2. ASSUME txDma.active PROVE txDma.src \in DOMAIN mem /\ txDma.left > 0
    <3>1. /\ TxChannel /\ build = "thread_dma" /\ task.size > 0 /\ done < Len(tasks)
      BY <2>1, <2>2 DEF Idle, Transfer, HasTask, Writing, Transferring
    <3>2. done \in Nat /\ Len(tasks) \in Nat /\ done + 1 \in 1..Len(tasks)
      BY <2>1, <3>1, AtNr
    <3>3. task.size \in Nat /\ TaskFits(task)
      BY <2>1, <3>2, AtNr DEF Kinds, task
    <3>4. task.size + 1 < SourceSize /\ SourceSize \in Nat
      BY <3>1, <3>3, TransferAssumption DEF TaskFits
    <3>5. /\ txDma.src \in Nat /\ txDma.left \in Nat /\ txDma.src + txDma.left = 1 + task.size
          /\ txDma.left > 0
      BY <2>2, <3>1 DEF TxChannel
    <3>6. txDma.src \in 0..SourceSize - 1 BY <3>3, <3>4, <3>5
    <3> QED BY <2>1, <3>5, <3>6 DEF Kinds
  <2>3. ASSUME rxDma.active PROVE rxDma.cb \in DOMAIN cb
    <3>1. /\ RxChannel /\ task.size > 0 /\ done < Len(tasks)
      BY <2>1, <2>3 DEF Idle, Transfer, HasTask, Writing
    <3>2. done \in Nat /\ Len(tasks) \in Nat /\ done + 1 \in 1..Len(tasks)
      BY <2>1, <3>1, AtNr
    <3>3. TaskFits(task)
      BY <2>1, <3>2 DEF Kinds, task
    <3>4. 2 < NumCbs /\ NumCbs \in Nat
      BY <3>1, <3>3, TransferAssumption DEF TaskFits
    <3> QED BY <2>1, <3>1, <3>4 DEF Kinds, RxChannel
  <2>4. 0 \in 0..SourceSize /\ 0 \in 0..NumCbs
    BY TransferAssumption
  <2> QED BY <2>1, <2>2, <2>3, <2>4 DEF TypeOK, Kinds
<1>2. ASSUME IInv, build = "single_dma", running PROVE TypeOK
  <2>1. ChainAlive
    BY <1>2 DEF IInv, ChainAlive
  <2>2. ChainKinds /\ ChainMemory /\ (IF Chaining THEN ChainBus ELSE PolledBus)
    BY <2>1, ChainParts
  <2>3. ASSUME txDma.active PROVE txDma.src \in DOMAIN mem /\ txDma.left > 0
    BY <2>1, <2>2, <2>3, ChannelsInside DEF PolledBus
  <2>4. ASSUME rxDma.active PROVE rxDma.cb \in DOMAIN cb
    BY <2>1, <2>2, <2>4, ChannelsInside DEF PolledBus
  <2>5. done \in 0..Len(tasks)
    BY <2>1, <2>2, ChainFacts DEF ChainKinds
  <2>6. build \in AllBuilds /\ chipSelect \in BOOLEAN /\ running \in BOOLEAN /\ exiting \in BOOLEAN
    BY <1>2, <2>2 DEF IInv, ChainKinds
  <2> QED BY <2>2, <2>3, <2>4, <2>5, <2>6 DEF TypeOK, ChainKinds, ChainMemory
<1>3. IInv => (running \/ build # "single_dma" => TypeOK)
  BY <1>1, <1>2
<1> QED BY <1>3, Inductive, PTL
=============================================================================
