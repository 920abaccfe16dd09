--------------------------- MODULE MCFrameDelivery ---------------------------
(* FrameDelivery on a screen of two lines, one of each field, for TLC. *)
EXTENDS FrameDelivery

TwoColours == {0, 1}
=============================================================================
