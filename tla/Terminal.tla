------------------------------ MODULE Terminal ------------------------------
(***************************************************************************)
(* The VGA text terminal (kernel/arch/i386/tty.c) as printf drives it, one *)
(* terminal_write per character (libc/stdio/putchar.c), with a keyboard    *)
(* interrupt that prints a line of its own in the middle of anything the   *)
(* kernel prints: test_kbd_interrupt in process/exception_handler.c.       *)
(*                                                                         *)
(* terminal_row and terminal_column are plain variables shared with the    *)
(* handler.  A step below is one access to them, to video memory or to the *)
(* CRT controller, in the order in which the -O2 build that config.sh asks *)
(* for makes them: terminal_putchar reads both variables once, works on    *)
(* the copies r and c, and writes back.                                    *)
(***************************************************************************)
EXTENDS Integers, Sequences

CONSTANTS
  Width, Height,   \* VGA_WIDTH and VGA_HEIGHT (80 and 25)
  VideoCells,      \* cells in the mapped page at 0xC03FF000 (2048)
  Radix,           \* values of a byte-wide CRT register (256)
  Chars,           \* printable characters
  Newline, Blank,  \* '\n' and ' '
  HandlerText,     \* what the handler prints: a line
  MaxChars,        \* bound: characters printed by the kernel
  MaxKeys          \* bound: keyboard interrupts

Contexts == {"main", "irq"}

ASSUME TerminalAssumption ==
  /\ Width \in Nat /\ Width > 1 /\ Height \in Nat \ {0}
  /\ VideoCells \in Nat /\ Width * Height < VideoCells
  /\ Radix \in Nat /\ Width * Height < Radix * Radix
  /\ Newline \notin Chars /\ Blank # Newline
  /\ HandlerText \in Seq(Chars \cup {Newline}) /\ HandlerText # <<>>
  /\ HandlerText[Len(HandlerText)] = Newline
  /\ MaxChars \in Nat /\ MaxKeys \in Nat

VARIABLES
  terminal_row, terminal_column,
  terminal_buffer,  \* the mapped page
  crtIndex,         \* the register that port 0x3D5 stands for
  crt,              \* cursor location registers 0x0F ("low") and 0x0E ("high")
  pc,               \* what each context does next
  ch,               \* the character it prints
  r, c,             \* its copies of the row and the column
  at,               \* the position that update_cursor computed
  left,             \* what the handler still has to print
  chars, keys,      \* for the bounds
  disturbed,        \* history: a handler ran since main began its character
  filled            \* history: main's newline has written a blank

vars == <<terminal_row, terminal_column, terminal_buffer, crtIndex, crt,
          pc, ch, r, c, at, left, chars, keys, disturbed, filled>>
shared == <<terminal_row, terminal_column, terminal_buffer, crtIndex, crt>>
registers == <<ch, r, c, at>>
bounds == <<left, chars, keys>>

(* terminal_initialize *)
Init ==
  /\ terminal_row = 0 /\ terminal_column = 0
  /\ terminal_buffer = [i \in 0 .. VideoCells - 1 |-> Blank]
  /\ crtIndex = "high"
  /\ crt \in {[low |-> b, high |-> b] : b \in {0, Radix - 1}}  \* left by the firmware
  /\ pc = [p \in Contexts |-> "idle"] /\ ch = [p \in Contexts |-> Blank]
  /\ r = [p \in Contexts |-> 0] /\ c = [p \in Contexts |-> 0]
  /\ at = [p \in Contexts |-> 0]
  /\ left = <<>> /\ chars = 0 /\ keys = 0
  /\ disturbed = FALSE /\ filled = FALSE

-----------------------------------------------------------------------------
(* Names that end in capitals are faulty variants of the definition that   *)
(* follows; nothing uses them.                                             *)

(* The handler runs with interrupts off, so it runs to its end.            *)
InHandler == pc["irq"] # "idle" \/ left # <<>>

Runs(p) == p = "irq" \/ ~InHandler

Step(p, from, to) ==
  /\ Runs(p) /\ pc[p] = from
  /\ pc' = [pc EXCEPT ![p] = to]
  /\ filled' = (filled \/ (p = "main" /\ from = "cell"))
  /\ UNCHANGED disturbed

Glyph(p) == IF ch[p] = Newline THEN Blank ELSE ch[p]

(* terminal_putchar returns: a newline looks at the column again.          *)
Return(p) == IF ch[p] = Newline THEN "test" ELSE "cursor"

(* terminal_handle_position after the row copy became n *)
AfterRow_LATE(p, n) == IF n = Height + 1 THEN "zerorow" ELSE Return(p)

AfterRow(p, n) == IF n = Height THEN "zerorow" ELSE Return(p)

LoadRow(p) ==
  /\ Step(p, "row", "column") /\ r' = [r EXCEPT ![p] = terminal_row]
  /\ UNCHANGED <<shared, ch, c, at, bounds>>

LoadColumn(p) ==
  /\ Step(p, "column", "cell") /\ c' = [c EXCEPT ![p] = terminal_column]
  /\ UNCHANGED <<shared, ch, r, at, bounds>>

(* terminal_putentryat *)
StoreCell(p) ==
  /\ Step(p, "cell", IF c[p] = Width - 1 THEN "wrapcolumn" ELSE "advance")
  /\ terminal_buffer' = [terminal_buffer EXCEPT ![r[p] * Width + c[p]] = Glyph(p)]
  /\ UNCHANGED <<terminal_row, terminal_column, crtIndex, crt, registers, bounds>>

Advance(p) ==
  /\ Step(p, "advance", AfterRow(p, r[p]))
  /\ terminal_column' = c[p] + 1
  /\ UNCHANGED <<terminal_row, terminal_buffer, crtIndex, crt, registers, bounds>>

WrapColumn(p) ==
  /\ Step(p, "wrapcolumn", "wraprow")
  /\ terminal_column' = 0
  /\ UNCHANGED <<terminal_row, terminal_buffer, crtIndex, crt, registers, bounds>>

WrapRow(p) ==
  /\ Step(p, "wraprow", AfterRow(p, r[p] + 1))
  /\ terminal_row' = r[p] + 1
  /\ UNCHANGED <<terminal_column, terminal_buffer, crtIndex, crt, registers, bounds>>

(* The bottom of the screen: back to the top.                              *)
ZeroRow(p) ==
  /\ Step(p, "zerorow", "zerocolumn")
  /\ terminal_row' = 0
  /\ UNCHANGED <<terminal_column, terminal_buffer, crtIndex, crt, registers, bounds>>

ZeroColumn(p) ==
  /\ Step(p, "zerocolumn", Return(p))
  /\ terminal_column' = 0
  /\ UNCHANGED <<terminal_row, terminal_buffer, crtIndex, crt, registers, bounds>>

TestColumn_LAST(p) ==
  /\ Step(p, "test", IF terminal_column = Width THEN "cursor" ELSE "row")
  /\ UNCHANGED <<shared, registers, bounds>>

TestColumn_ONE_BLANK(p) ==
  /\ Step(p, "test", "cursor")
  /\ UNCHANGED <<shared, registers, bounds>>

(* terminal_clear_rest_of_line: one blank at least, then until column 0.   *)
TestColumn(p) ==
  /\ Step(p, "test", IF terminal_column = 0 THEN "cursor" ELSE "row")
  /\ UNCHANGED <<shared, registers, bounds>>

LoadCursor_STALE(p) ==
  /\ Step(p, "cursor", "addcolumn")
  /\ at' = [at EXCEPT ![p] = r[p] * Width]
  /\ UNCHANGED <<shared, ch, r, c, bounds>>

(* update_cursor *)
LoadCursor(p) ==
  /\ Step(p, "cursor", "addcolumn")
  /\ at' = [at EXCEPT ![p] = terminal_row * Width]
  /\ UNCHANGED <<shared, ch, r, c, bounds>>

AddColumn(p) ==
  /\ Step(p, "addcolumn", "indexlow")
  /\ at' = [at EXCEPT ![p] = (@ + terminal_column) % (Radix * Radix)]
  /\ UNCHANGED <<shared, ch, r, c, bounds>>

SelectRegister(p, from, to, reg) ==
  /\ Step(p, from, to)
  /\ crtIndex' = reg
  /\ UNCHANGED <<terminal_row, terminal_column, terminal_buffer, crt, registers, bounds>>

WriteRegister(p, from, to, byte) ==
  /\ Step(p, from, to)
  /\ crt' = [crt EXCEPT ![crtIndex] = byte]
  /\ UNCHANGED <<terminal_row, terminal_column, terminal_buffer, crtIndex, registers, bounds>>

UpdateCursor_DATA_FIRST(p) ==
  \/ WriteRegister(p, "indexlow", "datalow", at[p] % Radix)
  \/ SelectRegister(p, "datalow", "indexhigh", "low")
  \/ WriteRegister(p, "indexhigh", "datahigh", at[p] \div Radix)
  \/ SelectRegister(p, "datahigh", "idle", "high")

UpdateCursor(p) ==
  \/ SelectRegister(p, "indexlow", "datalow", "low")
  \/ WriteRegister(p, "datalow", "indexhigh", at[p] % Radix)
  \/ SelectRegister(p, "indexhigh", "datahigh", "high")
  \/ WriteRegister(p, "datahigh", "idle", at[p] \div Radix)

Internal(p) ==
  \/ LoadRow(p) \/ LoadColumn(p) \/ StoreCell(p)
  \/ Advance(p) \/ WrapColumn(p) \/ WrapRow(p) \/ ZeroRow(p) \/ ZeroColumn(p)
  \/ TestColumn(p) \/ LoadCursor(p) \/ AddColumn(p) \/ UpdateCursor(p)

(* putchar: the kernel's next character ...                                *)
PrintChar(x) ==
  /\ ~InHandler /\ pc["main"] = "idle" /\ chars < MaxChars
  /\ pc' = [pc EXCEPT !["main"] = "row"] /\ ch' = [ch EXCEPT !["main"] = x]
  /\ chars' = chars + 1 /\ disturbed' = FALSE /\ filled' = FALSE
  /\ UNCHANGED <<shared, r, c, at, left, keys>>

(* ... and the handler's.                                                  *)
HandlerChar ==
  /\ pc["irq"] = "idle" /\ left # <<>>
  /\ pc' = [pc EXCEPT !["irq"] = "row"] /\ ch' = [ch EXCEPT !["irq"] = Head(left)]
  /\ left' = Tail(left)
  /\ UNCHANGED <<shared, r, c, at, chars, keys, disturbed, filled>>

(* A key: test_kbd_interrupt begins, wherever the kernel is.               *)
KeyInterrupt ==
  /\ ~InHandler /\ keys < MaxKeys
  /\ left' = HandlerText /\ keys' = keys + 1 /\ disturbed' = TRUE
  /\ UNCHANGED <<shared, pc, registers, chars, filled>>

Next == \/ \E p \in Contexts : Internal(p)
        \/ \E x \in Chars \cup {Newline} : PrintChar(x)
        \/ HandlerChar \/ KeyInterrupt

(* Both contexts are executed by a processor that does not stop.           *)
Fairness == WF_vars(Internal("main")) /\ WF_vars(Internal("irq")) /\ WF_vars(HandlerChar)

Spec == Init /\ [][Next]_vars /\ Fairness

-----------------------------------------------------------------------------
(* Properties *)

(* terminal_putchar stores inside the mapped page whatever the interleaving*)
(* with a handler that prints: on the screen, or in the one cell that      *)
(* follows it when the handler catches the row on its way back to the top. *)
(* The wrap tests are equalities (tty.c:112,117): a column or row that got *)
(* past them would run on through memory.                                  *)
StoresInsideVideo ==
  \A p \in Contexts : pc[p] = "cell" =>
     \/ r[p] < Height /\ c[p] < Width
     \/ p = "irq" /\ r[p] = Height /\ c[p] = 0

(* The hardware cursor follows the text (update_cursor in terminal_write), *)
(* unless a handler printed while the last character was printed.          *)
CursorFollows ==
  pc["main"] = "idle" /\ ~InHandler /\ ~disturbed /\ chars > 0
    => crt["high"] * Radix + crt["low"] = terminal_row * Width + terminal_column

(* A handler leaves the cursor right and the line begun: what it interrupts*)
(* cannot spoil its own four port writes, which start with an index.       *)
HandlerLeavesCursor ==
  [][InHandler /\ ~InHandler' =>
       /\ terminal_column' = 0
       /\ crt'["high"] * Radix + crt'["low"] = terminal_row' * Width]_vars

(* Every print ends: the loop of terminal_clear_rest_of_line waits for     *)
(* column 0 and a handler may move the column under it.                    *)
PrintsEnd == []<>(pc["main"] = "idle" /\ ~InHandler)

-----------------------------------------------------------------------------
(* Without interrupts the terminal implements the abstract screen.         *)
Advancing == pc["main"] \in {"advance", "wrapcolumn", "wraprow"}
Filling == ch["main"] = Newline
             /\ pc["main"] \in {"row", "column", "cell", "advance", "wrapcolumn", "wraprow",
                                "zerorow", "zerocolumn", "test"}

S == INSTANCE Screen WITH
       screen <- [i \in 0 .. Width * Height - 1 |-> terminal_buffer[i]],
       pos <- CASE Advancing -> (r["main"] * Width + c["main"] + 1) % (Width * Height)
                [] pc["main"] \in {"zerorow", "zerocolumn"} -> 0
                [] OTHER -> terminal_row * Width + terminal_column,
       line <- IF ~Filling THEN "text" ELSE IF filled THEN "filled" ELSE "asked"

ImplementsScreen == S!Spec
=============================================================================
