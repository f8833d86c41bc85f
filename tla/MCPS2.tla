------------------------------- MODULE MCPS2 --------------------------------
(* The discipline of PS2Discipline, with two keys.                         *)
EXTENDS PS2Discipline

MCScanCodes == {{4, 3, 2}, {5, 0}}   \* 0x1C and 0x21
=============================================================================
