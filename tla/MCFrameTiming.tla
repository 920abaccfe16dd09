---------------------------- MODULE MCFrameTiming ----------------------------
(* FrameTiming with the times of the code scaled down, in their order, for TLC. *)
EXTENDS FrameTiming

Both == {"polled", "vsync"}
Polled == {"polled"}
NoneOrLong == {0, 6}
PastOrFuture == {0, 500}
=============================================================================
