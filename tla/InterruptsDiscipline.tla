------------------------ MODULE InterruptsDiscipline ------------------------
(* Where Interrupts keeps its promises: nothing is wired to pin 15, whose  *)
(* vector, 64, is the one that exception_handler_code does not acknowledge,*)
(* and the base of the local APIC is a multiple of 64 KiB, as it is after  *)
(* reset, so that enable_apic leaves it where it was.                      *)
EXTENDS Interrupts

ASSUME QuietPin == 15 \notin Pins
ASSUME AlignedBase == \A b \in ApicBases : b % 16 = 0
=============================================================================
