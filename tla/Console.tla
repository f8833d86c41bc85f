------------------------------ MODULE Console -------------------------------
(***************************************************************************)
(* The kernel's printing without interrupts: printf hands its characters   *)
(* one at a time to putchar, whose terminal_write runs to its end before   *)
(* printf goes on.  A call of one of the functions of libc/string, on a    *)
(* memory of its own, can take the place of the call of printf.            *)
(***************************************************************************)
EXTENDS Terminal, Printf, Strings

NoMemory ==
  /\ memory = [a \in Addresses |-> 0] /\ before = memory
  /\ call = [fn |-> "memcpy", dst |-> 0, src |-> 0, n |-> 0, value |-> 0]
  /\ i = 0 /\ returned = TRUE /\ answer = 0

NoPrintf == LET none == [format |-> <<>>, args |-> <<>>, text |-> <<>>, tested |-> TRUE] IN
  /\ request = none /\ format = <<>> /\ args = <<>> /\ written = 0
  /\ doing = "returned" /\ conv = "d" /\ num = 0 /\ negative = FALSE /\ digits = <<>>
  /\ todo = <<>> /\ gain = 0 /\ count = 0 /\ out = <<>>

ConsoleInit == Init /\ ((PrintfInit /\ NoMemory) \/ (StringsInit /\ NoPrintf))

TerminalIdle == pc["main"] = "idle"

PrintfStep == TerminalIdle /\ Silent /\ UNCHANGED <<vars, stringsVars>>

(* The argument of putchar is a char: one of Chars or the newline.         *)
PutcharStep ==
  /\ Putchar
  /\ \E x \in Chars \cup {Newline} : x = Head(todo) /\ PrintChar(x)
  /\ UNCHANGED stringsVars

TerminalStep == Internal("main") /\ UNCHANGED <<printfVars, stringsVars>>

StringStep == StringsNext /\ UNCHANGED <<vars, printfVars>>

ConsoleNext == PrintfStep \/ PutcharStep \/ TerminalStep \/ StringStep

ConsoleSpec == ConsoleInit /\ [][ConsoleNext]_<<vars, printfVars, stringsVars>>
=============================================================================
