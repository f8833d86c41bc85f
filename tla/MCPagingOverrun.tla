-------------------------- MODULE MCPagingOverrun ---------------------------
(* MCPaging with one difference: a table that init_rsdt has mapped may be  *)
(* longer than what is left of the page it starts in ("TODO: account for   *)
(* size of table when mapping", rsdt.c:92), and its reader then goes on    *)
(* into the page that follows.                                             *)
EXTENDS Paging

MCFirmwareFrames == {5, 11}
MCTouchable == {<<0, 0>>}

Following(v) == IF v[2] < Entries - 1 THEN <<v[1], v[2] + 1>> ELSE <<v[1] + 1, 0>>

(* The loop over the entries of the table mapped at page g[1], past the    *)
(* end of that page, where nothing is mapped yet.                          *)
ReadPastFirstPage == \E g \in granted : FaultOnData(Following(g[1]))

OverrunNext == Next \/ ReadPastFirstPage

OverrunSpec == Init /\ [][OverrunNext]_vars
=============================================================================
