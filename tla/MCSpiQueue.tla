----------------------------- MODULE MCSpiQueue -----------------------------
(* SpiQueue on a small ring buffer, for TLC. *)
EXTENDS SpiQueue

\* An empty task (a command without data), a short one and one that takes half
\* of the buffer: every task has a place to end that forces a wrap.
SmallPayloads == {0, 1, 3}
=============================================================================
