--------------------------- MODULE MCSpiTransfer ---------------------------
(* SpiTransfer for TLC: FIFOs of three units instead of 16. *)
EXTENDS SpiTransfer

\* No payload, one that the prefill does not cover, one that goes by DMA in two chunks.
MCTaskKinds == {[dma |-> FALSE, size |-> 0], [dma |-> FALSE, size |-> 3],
                [dma |-> TRUE, size |-> 5]}
MCExitTasks == <<[dma |-> TRUE, size |-> 5], [dma |-> FALSE, size |-> 0]>>
=============================================================================
