------------------------------ MODULE TaskFifo ------------------------------
(***************************************************************************)
(* What the SPI task queue promises its two users, with no ring buffer, no *)
(* offsets and no sleeping: the main thread submits tasks, the SPI thread  *)
(* puts them on the bus, every task exactly once, unaltered and in the     *)
(* order of submission.  SpiQueue is shown to implement this module.       *)
(***************************************************************************)
EXTENDS Naturals, Sequences

CONSTANTS Tasks \* what can be submitted

VARIABLES submitted, \* every task advertised by CommitTask, in order
          bus        \* every task RunSPITask has put on the bus, in order

vars == <<submitted, bus>>

FifoInit == submitted = <<>> /\ bus = <<>>

Submit == /\ \E t \in Tasks : submitted' = Append(submitted, t)
          /\ UNCHANGED bus

Transmit == /\ Len(bus) < Len(submitted)
            /\ bus' = Append(bus, submitted[Len(bus) + 1])
            /\ UNCHANGED submitted

FifoNext == Submit \/ Transmit

FifoSpec == FifoInit /\ [][FifoNext]_vars

\* A submitted task is put on the bus in the end, whether or not another follows.
FairFifoSpec == FifoSpec /\ WF_vars(Transmit)
=============================================================================
