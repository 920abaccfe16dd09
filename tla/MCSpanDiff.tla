----------------------------- MODULE MCSpanDiff -----------------------------
(* SpanDiff on small frames, for TLC: the values are all in the configurations. *)
EXTENDS SpanDiff
=============================================================================
