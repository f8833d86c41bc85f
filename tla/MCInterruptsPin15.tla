------------------------- MODULE MCInterruptsPin15 --------------------------
(* MCInterrupts with a device on the last pin, the secondary ATA channel.  *)
EXTENDS Interrupts

MCBases == {64}
MCPins == {1, 15}
=============================================================================
