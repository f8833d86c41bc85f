--------------------------- MODULE PS2Discipline ----------------------------
(***************************************************************************)
(* When the driver works: nothing but a keyboard is plugged in, the        *)
(* controller has two ports and is quick, and no key is pressed too early. *)
(* Each of the four is needed: the configurations of MCPS2Free break one   *)
(* each, and with Prompt FALSE the bare outb of the configuration byte     *)
(* (ps2.c:50) may overwrite the command that announces it.                 *)
(***************************************************************************)
EXTENDS PS2

ASSUME KeyboardOnly == Port2 = "nothing" /\ DualChannel
ASSUME QuickController == Prompt = TRUE
ASSUME PatientUser == EarlyKeys = FALSE
=============================================================================
