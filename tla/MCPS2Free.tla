----------------------------- MODULE MCPS2Free ------------------------------
(* Without the discipline; each configuration breaks it in one respect.    *)
EXTENDS PS2

MCScanCodes == {{4, 3, 2}, {5, 0}}   \* 0x1C and 0x21
=============================================================================
