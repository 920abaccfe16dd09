---------------------------- MODULE MCThreeWire ----------------------------
(* ThreeWire for TLC: tasks that end at each place of a group of eight units. *)
EXTENDS ThreeWire

MCNarrowSizes == 0..17 \ {7}
MCWideSizes == {0, 2, 6, 8}
MCCommands == {{0, 2, 3, 5}}
MCContents == {{b} : b \in 0..7}
MCFill == {{}, 0..7}
=============================================================================
