------------------------------- MODULE Screen -------------------------------
(***************************************************************************)
(* What the text terminal of pekOS promises when nothing interrupts it: a  *)
(* ring of Cells cells that is written in order and never scrolls.  A      *)
(* newline blanks the rest of the line; issued at the start of a line it   *)
(* blanks that whole line.  Module Terminal is shown to implement it.      *)
(***************************************************************************)
EXTENDS Integers

CONSTANTS
  Width, Height,   \* the visible text area
  Chars,           \* printable characters
  Blank            \* the space

VARIABLES
  screen,          \* what is visible
  pos,             \* the cell that is written next
  line             \* "text", or a newline "asked" for or being "filled"

vars == <<screen, pos, line>>

Cells == 0 .. Width * Height - 1

Init == screen = [i \in Cells |-> Blank] /\ pos = 0 /\ line = "text"

Write(c) == /\ screen' = [screen EXCEPT ![pos] = c]
            /\ pos' = (pos + 1) % (Width * Height)

Put(c) == line = "text" /\ Write(c) /\ UNCHANGED line

AskNewline == line = "text" /\ line' = "asked" /\ UNCHANGED <<screen, pos>>

Fill == line # "text" /\ Write(Blank) /\ line' = "filled"

EndNewline == /\ line = "filled" /\ pos % Width = 0
              /\ line' = "text"
              /\ UNCHANGED <<screen, pos>>

Next == (\E c \in Chars : Put(c)) \/ AskNewline \/ Fill \/ EndNewline

Spec == Init /\ [][Next]_vars
=============================================================================
