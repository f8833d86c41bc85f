--------------------------- MODULE MCPagingIndex ----------------------------
(* MCPaging with one difference: the linker did not align kernel_PTs, and  *)
(* its first frame also holds kernel_PT_index.                             *)
EXTENDS Paging

MCFirmwareFrames == {5, 11}
MCTouchable == {<<0, 0>>, <<0, 3>>, <<2, 0>>}
=============================================================================
