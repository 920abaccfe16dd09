----------------------------- MODULE MCLifecycle -----------------------------
(* Lifecycle with small bounds, for TLC: the values are all in the configurations. *)
EXTENDS Lifecycle
=============================================================================
