---------------------------- MODULE MCInterrupts ----------------------------
(* The keyboard, the cascade pin and one more; a legacy line on each       *)
(* controller; three gates, with stub addresses and a task state whose low *)
(* and high parts all differ.                                              *)
EXTENDS Kernel

MCBases == {64}
MCPins == {1, 2, 14}
MCLines == {1, 9}
MCFirmwareMasks == {<<0, 0>>, <<184, 143>>}
MCStubs == [v \in 0 .. 2 |-> 17 + 4 * v]
=============================================================================
