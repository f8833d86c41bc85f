------------------------------ MODULE MCPaging ------------------------------
(* A small machine for Paging: 8-entry tables, words of 4 bits, the higher *)
(* half at entry 5, one free page left by boot.S before a new table is     *)
(* needed.  Two low pages of one table, one of another, and two window     *)
(* pages may be touched: the window pages of the table of the third low    *)
(* page and of the table that the second request of a driver will need.    *)
(* The one image frame that holds no table stands for code, stack and the  *)
(* VGA buffer, and for a table of the BIOS; the other frame drivers ask    *)
(* for is the first that page faults do not come to hand out.  The         *)
(* processor may keep the translation of the page boot.S runs from, and of *)
(* a low page that the kernel touches later.                               *)
EXTENDS Boot

MCFirmwareFrames == {5, 11}
MCTouchable == {<<0, 0>>, <<0, 3>>, <<2, 0>>, <<7, 2>>, <<7, 6>>}
MCWatched == {<<0, 3>>, <<0, 5>>}
=============================================================================
