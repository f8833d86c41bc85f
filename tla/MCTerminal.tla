----------------------------- MODULE MCTerminal -----------------------------
(* A screen of 2 lines of 3 cells and a page with two more; CRT registers  *)
(* that hold 3 values each, so that a position needs both.  For the stubs  *)
(* the timer, both keyboard vectors and another pin, exceptions with and   *)
(* without an error code, and up to three handlers on one another: that of *)
(* an interrupt, its page fault, and the page fault of map_page.           *)
EXTENDS Handlers

MCHandlerText == <<"k", "NL">>
=============================================================================
