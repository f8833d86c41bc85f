--------------------------- MODULE HandlersProofs ---------------------------
(***************************************************************************)
(* Interrupt handlers, for a screen of any size, any text of the handler   *)
(* that ends its line, any vectors and any nesting: a printing handler     *)
(* never makes the terminal store outside its page, what terminal_putchar  *)
(* leaves is a cursor that follows the text, and an iret gives back what   *)
(* was interrupted.                                                        *)
(*                                                                         *)
(* The invariants: for the terminal, where its row may be past the end and *)
(* how far each context has come with the position of the cursor; for the  *)
(* stubs, what the stack holds at each instruction above what the          *)
(* interruption found, and that the same holds of what it found.           *)
(***************************************************************************)
EXTENDS Handlers, SequenceTheorems, TLAPS

-----------------------------------------------------------------------------
(* The terminal's position *)

PrintStates == {"idle", "row", "column", "cell", "advance", "wrapcolumn", "wraprow",
                "zerorow", "zerocolumn", "test", "cursor", "addcolumn",
                "indexlow", "datalow", "indexhigh", "datahigh"}

(* Shapes of what the control of the terminal depends on.                  *)
ControlType ==
  /\ terminal_row \in 0 .. Height /\ terminal_column \in 0 .. Width - 1
  /\ r \in [Contexts -> 0 .. Height] /\ c \in [Contexts -> 0 .. Width - 1]
  /\ pc \in [Contexts -> PrintStates] /\ ch \in [Contexts -> Chars \cup {Newline, Blank}]
  /\ left \in Seq(Chars \cup {Newline})

WrapStates == {"wrapcolumn", "wraprow"}
CopyStates == {"column", "cell", "advance"} \cup WrapStates
CursorStates == {"cursor", "addcolumn", "indexlow", "datalow", "indexhigh", "datahigh"}

(* The row is one past the end only while someone is about to reset it,    *)
(* and then the column is 0, or that someone is the handler.               *)
RowPastEnd ==
  terminal_row = Height =>
    \/ pc["irq"] = "zerorow"
    \/ pc["main"] = "zerorow" /\ terminal_column = 0

(* The kernel never sees that row; the handler may, at column 0.           *)
Copies ==
  /\ pc["main"] \in CopyStates => r["main"] < Height
  /\ pc["irq"] \in CopyStates => r["irq"] = terminal_row
  /\ pc["irq"] = "cell" /\ r["irq"] = Height => c["irq"] = 0
  /\ pc["irq"] \in WrapStates => r["irq"] < Height
  /\ \A p \in Contexts : pc[p] = "advance" => c[p] < Width - 1

(* The handler ends its line, so it gives the column back as 0: what the   *)
(* kernel relies on between resetting the column and advancing the row.    *)
LineEnded ==
  /\ left # <<>> => left[Len(left)] = Newline
  /\ left = <<>> /\ pc["irq"] # "idle" => ch["irq"] = Newline
  /\ pc["irq"] \in CursorStates /\ ch["irq"] = Newline => terminal_column = 0
  /\ pc["main"] = "wraprow" /\ ~InHandler => terminal_column = 0

Inv == ControlType /\ RowPastEnd /\ Copies /\ LineEnded

LEMMA InitInv == Init => Inv
BY TerminalAssumption
   DEF Init, Inv, TerminalAssumption, ControlType, RowPastEnd, Copies, LineEnded,
       CopyStates, WrapStates, CursorStates, PrintStates, Contexts, InHandler

USE DEF Contexts, PrintStates, CopyStates, WrapStates, CursorStates

LEMMA InternalInv ==
  ASSUME Inv, NEW p \in Contexts, Internal(p)
  PROVE  Inv'
<1> USE TerminalAssumption
    DEF TerminalAssumption, Inv, ControlType, Step, Runs, InHandler, shared,
        registers, bounds
<1>1. CASE LoadRow(p)
  BY <1>1 DEF LoadRow, RowPastEnd, Copies, LineEnded
<1>2. CASE LoadColumn(p)
  BY <1>2 DEF LoadColumn, RowPastEnd, Copies, LineEnded
<1>3. CASE StoreCell(p)
  <2>1. CASE c[p] = Width - 1
    <3>1. p = "irq" => r[p] < Height
      BY <1>3, <2>1 DEF StoreCell, Copies
    <3>2. pc' = [pc EXCEPT ![p] = "wrapcolumn"]
      BY <1>3, <2>1 DEF StoreCell
    <3>3. UNCHANGED <<terminal_row, terminal_column, r, c, ch, left>>
      BY <1>3 DEF StoreCell
    <3> QED
      BY <1>3, <3>1, <3>2, <3>3 DEF StoreCell, RowPastEnd, Copies, LineEnded
  <2>2. CASE c[p] # Width - 1
    BY <1>3, <2>2 DEF StoreCell, RowPastEnd, Copies, LineEnded
  <2> QED BY <2>1, <2>2
<1>4. CASE Advance(p)
  BY <1>4 DEF Advance, AfterRow, Return, RowPastEnd, Copies, LineEnded
<1>5. CASE WrapColumn(p)
  BY <1>5 DEF WrapColumn, RowPastEnd, Copies, LineEnded
<1>6. CASE WrapRow(p)
  BY <1>6 DEF WrapRow, AfterRow, Return, RowPastEnd, Copies, LineEnded
<1>7. CASE ZeroRow(p)
  BY <1>7 DEF ZeroRow, RowPastEnd, Copies, LineEnded
<1>8. CASE ZeroColumn(p)
  BY <1>8 DEF ZeroColumn, Return, RowPastEnd, Copies, LineEnded
<1>9. CASE TestColumn(p)
  BY <1>9 DEF TestColumn, RowPastEnd, Copies, LineEnded
<1>10. CASE LoadCursor(p)
  BY <1>10 DEF LoadCursor, RowPastEnd, Copies, LineEnded
<1>11. CASE AddColumn(p)
  BY <1>11 DEF AddColumn, RowPastEnd, Copies, LineEnded
<1>12. CASE UpdateCursor(p)
  <2>1. /\ UNCHANGED <<terminal_row, terminal_column, r, c, ch, left>>
        /\ pc[p] \in {"indexlow", "datalow", "indexhigh", "datahigh"}
    BY <1>12 DEF UpdateCursor, SelectRegister, WriteRegister
  <2>2. PICK to \in {"datalow", "indexhigh", "datahigh", "idle"} : pc' = [pc EXCEPT ![p] = to]
    BY <1>12 DEF UpdateCursor, SelectRegister, WriteRegister
  <2>3. ControlType' /\ RowPastEnd' /\ Copies'
    BY <2>1, <2>2 DEF RowPastEnd, Copies
  <2>4. LineEnded'
    BY <2>1, <2>2 DEF LineEnded
  <2> QED BY <2>3, <2>4
<1> QED
  BY <1>1, <1>2, <1>3, <1>4, <1>5, <1>6, <1>7, <1>8, <1>9, <1>10, <1>11, <1>12
     DEF Internal

LEMMA PrintCharInv ==
  ASSUME Inv, NEW x \in Chars \cup {Newline}, PrintChar(x)
  PROVE  Inv'
BY TerminalAssumption
   DEF TerminalAssumption, Inv, ControlType, PrintChar, InHandler, shared,
       RowPastEnd, Copies, LineEnded

(* The last character that the handler takes is its newline.               *)
LEMMA HandlerCharInv == ASSUME Inv, HandlerChar PROVE Inv'
<1>1. /\ pc["irq"] = "idle" /\ left # <<>> /\ left' = Tail(left)
      /\ pc' = [pc EXCEPT !["irq"] = "row"] /\ ch' = [ch EXCEPT !["irq"] = Head(left)]
      /\ UNCHANGED <<terminal_row, terminal_column, r, c>>
  BY DEF HandlerChar, shared
<1>2. left \in Seq(Chars \cup {Newline}) /\ left[Len(left)] = Newline
  BY <1>1 DEF Inv, ControlType, LineEnded
<1>3. /\ Head(left) \in Chars \cup {Newline} /\ Tail(left) \in Seq(Chars \cup {Newline})
      /\ Tail(left) = <<>> => Head(left) = Newline
      /\ Tail(left) # <<>> => Tail(left)[Len(Tail(left))] = Newline
  <2>1. /\ Tail(left) \in Seq(Chars \cup {Newline}) /\ Len(Tail(left)) = Len(left) - 1
        /\ \A i \in 1 .. Len(Tail(left)) : Tail(left)[i] = left[i + 1]
    BY <1>1, <1>2, HeadTailProperties
  <2>2. Head(left) = left[1] /\ Head(left) \in Chars \cup {Newline} /\ Len(left) \in Nat \ {0}
    BY <1>1, <1>2
  <2>3. Tail(left) = <<>> <=> Len(Tail(left)) = 0
    BY <2>1, EmptySeq
  <2>4. Tail(left) = <<>> => Len(left) = 1
    BY <2>1, <2>2, <2>3
  <2>5. Tail(left) # <<>> => Tail(left)[Len(Tail(left))] = left[Len(left)]
    BY <2>1, <2>2, <2>3
  <2> QED
    BY <1>2, <2>1, <2>2, <2>4, <2>5
<1>4. ControlType'
  BY <1>1, <1>3 DEF Inv, ControlType
<1>5. InHandler /\ InHandler'
  BY <1>1, <1>4 DEF InHandler, ControlType
<1>6. RowPastEnd' /\ Copies'
  BY <1>1 DEF Inv, ControlType, RowPastEnd, Copies
<1>7. LineEnded'
  BY <1>1, <1>3, <1>5 DEF Inv, ControlType, LineEnded
<1> QED
  BY <1>4, <1>6, <1>7 DEF Inv

LEMMA KeyInterruptInv == ASSUME Inv, KeyInterrupt PROVE Inv'
BY TerminalAssumption
   DEF TerminalAssumption, Inv, ControlType, KeyInterrupt, InHandler, shared, registers,
       RowPastEnd, Copies, LineEnded

LEMMA StutterInv == Inv /\ UNCHANGED vars => Inv'
BY DEF vars, Inv, ControlType, InHandler, RowPastEnd, Copies, LineEnded

LEMMA InvStores == Inv => StoresInsideVideo
<1> SUFFICES ASSUME Inv, NEW p \in Contexts, pc[p] = "cell"
             PROVE  \/ r[p] < Height /\ c[p] < Width
                    \/ p = "irq" /\ r[p] = Height /\ c[p] = 0
  BY DEF StoresInsideVideo
<1>1. /\ r[p] \in 0 .. Height /\ c[p] \in 0 .. Width - 1
      /\ Height \in Nat /\ Width \in Nat
  BY TerminalAssumption DEF Inv, ControlType, TerminalAssumption
<1>2. c[p] < Width
  BY <1>1
<1>3. r[p] < Height \/ r[p] = Height
  BY <1>1
<1> QED
  BY <1>2, <1>3 DEF Inv, Copies

-----------------------------------------------------------------------------
(* The cursor *)

RegisterStates == {"indexlow", "datalow", "indexhigh", "datahigh"}

CursorType ==
  /\ at \in [Contexts -> Nat]
  /\ crtIndex \in {"low", "high"} /\ crt \in [{"low", "high"} -> Nat]

(* What context p has computed and written of the cursor's position.       *)
Position == terminal_row * Width + terminal_column

Tracked(p) ==
  /\ pc[p] = "addcolumn" => at[p] = terminal_row * Width
  /\ pc[p] \in RegisterStates => at[p] = Position
  /\ pc[p] = "datalow" => crtIndex = "low"
  /\ pc[p] \in {"indexhigh", "datahigh"} => crt["low"] = at[p] % Radix
  /\ pc[p] = "datahigh" => crtIndex = "high"

(* The handler is not interrupted; the kernel is when disturbed says so.   *)
CursorInv ==
  /\ CursorType /\ CursorFollows
  /\ InHandler => disturbed
  /\ Tracked("irq")
  /\ disturbed \/ Tracked("main")

USE DEF RegisterStates

LEMMA InitCursor == Init => CursorInv
<1> SUFFICES ASSUME Init PROVE CursorInv
  OBVIOUS
<1>1. CursorType
  <2>1. 0 \in Nat /\ Radix - 1 \in Nat
    <3>1. Radix \in Nat /\ Radix # 0
      BY TerminalAssumption DEF TerminalAssumption
    <3> QED BY <3>1
  <2>2. PICK b \in {0, Radix - 1} : crt = [low |-> b, high |-> b]
    BY DEF Init
  <2> QED BY <2>1, <2>2 DEF Init, CursorType
<1>2. pc = [p \in Contexts |-> "idle"] /\ chars = 0 /\ left = <<>>
  BY DEF Init
<1>3. CursorFollows
  BY <1>2 DEF CursorFollows
<1>4. ~InHandler
  BY <1>2 DEF InHandler, Contexts
<1>5. Tracked("irq") /\ Tracked("main")
  BY <1>2 DEF Tracked, Contexts
<1> QED BY <1>1, <1>3, <1>4, <1>5 DEF CursorInv

(* Every position fits the two registers: when the row is past the end the *)
(* column is 0.                                                            *)
LEMMA PositionFits ==
  ASSUME Inv, NEW p \in Contexts, pc[p] \in CursorStates, p = "main" => ~InHandler
  PROVE  Position \in Nat /\ terminal_row * Width \in Nat /\ Position < Radix * Radix
<1>1. /\ Width \in Nat /\ Height \in Nat \ {0} /\ Radix \in Nat
      /\ Width * Height < Radix * Radix
      /\ terminal_row \in 0 .. Height /\ terminal_column \in 0 .. Width - 1
  BY TerminalAssumption DEF TerminalAssumption, Inv, ControlType
<1>2. terminal_row = Height => terminal_column = 0
  BY DEF Inv, RowPastEnd, InHandler
<1>3. terminal_row * Width \in Nat /\ Position \in Nat
  BY <1>1 DEF Position
<1>4. Position <= Width * Height
  <2>1. CASE terminal_row = Height
    BY <1>1, <1>2, <2>1 DEF Position
  <2>2. CASE terminal_row # Height
    <3>1. terminal_row <= Height - 1 /\ terminal_row \in Nat
      BY <1>1, <2>2
    <3>2. terminal_row * Width <= (Height - 1) * Width
      BY <1>1, <3>1
    <3>3. (Height - 1) * Width = Width * Height - Width
      BY <1>1
    <3> QED BY <1>1, <3>2, <3>3 DEF Position
  <2> QED BY <2>1, <2>2
<1> QED BY <1>1, <1>3, <1>4

(* Two bytes make up the position they were taken from.                    *)
LEMMA TwoBytes ==
  ASSUME NEW n \in Nat PROVE (n \div Radix) * Radix + (n % Radix) = n
<1>1. Radix \in Nat
  BY TerminalAssumption DEF TerminalAssumption
<1>2. Radix # 0
  <2>1. Width * Height \in Nat /\ Width * Height < Radix * Radix
    BY TerminalAssumption DEF TerminalAssumption
  <2> QED BY <1>1, <2>1
<1> QED BY <1>1, <1>2

(* The last write completes the cursor.                                    *)
LEMMA LastWrite ==
  ASSUME Inv, CursorInv, NEW p \in Contexts, p = "irq" \/ ~disturbed,
         WriteRegister(p, "datahigh", "idle", at[p] \div Radix)
  PROVE  crt'["high"] * Radix + crt'["low"] = terminal_row' * Width + terminal_column'
<1>1. /\ pc[p] = "datahigh" /\ UNCHANGED <<terminal_row, terminal_column>>
      /\ crt' = [crt EXCEPT ![crtIndex] = at[p] \div Radix]
      /\ (p = "main" => ~InHandler)
  BY DEF WriteRegister, Step, Runs
<1>2. Tracked(p)
  BY DEF CursorInv
<1>3. crtIndex = "high" /\ at[p] = Position /\ crt["low"] = at[p] % Radix
  BY <1>1, <1>2 DEF Tracked
<1>4. crt'["high"] = Position \div Radix /\ crt'["low"] = Position % Radix
  BY <1>1, <1>3 DEF CursorInv, CursorType
<1>5. Position \in Nat
  BY <1>1, PositionFits
<1> QED
  BY <1>1, <1>4, <1>5, TwoBytes DEF Position

LEMMA TrackedStep ==
  ASSUME Inv, CursorInv, NEW p \in Contexts, Internal(p)
  PROVE  CursorType' /\ (p = "irq" \/ ~disturbed => Tracked(p)')
<1> USE DEF Step, shared, registers, bounds
<1>0. Radix \in Nat \ {0} /\ (p = "main" => ~InHandler)
  <2>1. Radix \in Nat /\ Width * Height \in Nat /\ Width * Height < Radix * Radix
    BY TerminalAssumption DEF TerminalAssumption
  <2>2. Radix # 0
    BY <2>1
  <2> QED BY <2>1, <2>2 DEF Internal, LoadRow, LoadColumn, StoreCell, Advance, WrapColumn,
        WrapRow, ZeroRow, ZeroColumn, TestColumn, LoadCursor, AddColumn, UpdateCursor,
        SelectRegister, WriteRegister, Runs
<1>p. pc \in [Contexts -> PrintStates]
  BY DEF Inv, ControlType
<1>1. CASE \/ LoadRow(p) \/ LoadColumn(p) \/ StoreCell(p) \/ Advance(p) \/ WrapColumn(p)
           \/ WrapRow(p) \/ ZeroRow(p) \/ ZeroColumn(p) \/ TestColumn(p)
  <2>1. /\ UNCHANGED <<at, crtIndex, crt>>
        /\ pc'[p] \notin {"addcolumn", "indexlow", "datalow", "indexhigh", "datahigh"}
    BY <1>1, <1>p DEF LoadRow, LoadColumn, StoreCell, Advance, WrapColumn, WrapRow, ZeroRow,
       ZeroColumn, TestColumn, AfterRow, Return
  <2> QED BY <2>1 DEF CursorInv, CursorType, Tracked
<1>2. CASE LoadCursor(p)
  <2>1. /\ pc[p] = "cursor" /\ pc' = [pc EXCEPT ![p] = "addcolumn"]
        /\ at' = [at EXCEPT ![p] = terminal_row * Width]
        /\ UNCHANGED <<terminal_row, crt, crtIndex>>
    BY <1>2 DEF LoadCursor
  <2>2. terminal_row * Width \in Nat
    BY <1>0, <2>1, PositionFits
  <2> QED BY <1>p, <2>1, <2>2 DEF CursorInv, CursorType, Tracked
<1>3. CASE AddColumn(p)
  <2>1. /\ pc[p] = "addcolumn" /\ pc' = [pc EXCEPT ![p] = "indexlow"]
        /\ at' = [at EXCEPT ![p] = (at[p] + terminal_column) % (Radix * Radix)]
        /\ UNCHANGED <<terminal_row, terminal_column, crt, crtIndex>>
    BY <1>3 DEF AddColumn
  <2>2. Position \in Nat /\ Position < Radix * Radix /\ Radix * Radix \in Nat \ {0}
    BY <1>0, <2>1, PositionFits
  <2>3. Position % (Radix * Radix) = Position
    BY <2>2
  <2>4. at'[p] \in Nat
    BY <1>0, <2>1, <2>2 DEF CursorInv, CursorType, Inv, ControlType
  <2>5. CursorType'
    BY <2>1, <2>4 DEF CursorInv, CursorType
  <2>6. ASSUME Tracked(p) PROVE Tracked(p)'
    <3>1. at[p] = terminal_row * Width
      BY <2>1, <2>6 DEF Tracked
    <3>2. at'[p] = Position
      BY <2>1, <2>3, <3>1 DEF CursorInv, CursorType, Position
    <3> QED BY <1>p, <2>1, <3>2 DEF Tracked, Position
  <2> QED BY <2>5, <2>6 DEF CursorInv
<1>4. CASE UpdateCursor(p)
  <2>1. /\ UNCHANGED <<terminal_row, terminal_column, at>> /\ pc[p] \in RegisterStates
    BY <1>4 DEF UpdateCursor, SelectRegister, WriteRegister
  <2>2. at[p] \in Nat /\ at[p] % Radix \in Nat /\ at[p] \div Radix \in Nat
    BY <1>0 DEF CursorInv, CursorType
  <2>3. CursorType'
    BY <1>4, <2>2 DEF UpdateCursor, SelectRegister, WriteRegister, CursorInv, CursorType
  <2>4. ASSUME Tracked(p) PROVE Tracked(p)'
    <3>1. Position' = Position /\ at' = at
      BY <2>1 DEF Position
    <3> QED BY <1>4, <1>p, <2>1, <2>4, <3>1
            DEF UpdateCursor, SelectRegister, WriteRegister, Tracked, CursorInv, CursorType
  <2> QED BY <2>3, <2>4 DEF CursorInv
<1> QED BY <1>1, <1>2, <1>3, <1>4 DEF Internal

LEMMA InternalCursor ==
  ASSUME Inv, CursorInv, NEW p \in Contexts, Internal(p) PROVE CursorInv'
<1> USE DEF Step, shared, registers, bounds
<1>p. pc \in [Contexts -> PrintStates]
  BY DEF Inv, ControlType
<1>1. /\ Runs(p) /\ pc[p] # "idle" /\ UNCHANGED <<disturbed, left, chars>>
      /\ \A q \in Contexts \ {p} : pc'[q] = pc[q]
  BY <1>p DEF Internal, LoadRow, LoadColumn, StoreCell, Advance, WrapColumn,
        WrapRow, ZeroRow, ZeroColumn, TestColumn, LoadCursor, AddColumn, UpdateCursor,
        SelectRegister, WriteRegister
<1>2. CursorType' /\ (p = "irq" \/ ~disturbed => Tracked(p)')
  BY TrackedStep
<1>3. CASE p = "irq"
  <2>1. InHandler /\ disturbed /\ disturbed'
    BY <1>1, <1>3 DEF InHandler, CursorInv
  <2> QED BY <1>2, <1>3, <2>1 DEF CursorInv, CursorFollows
<1>4. CASE p = "main"
  <2>1. ~InHandler /\ ~InHandler' /\ pc'["irq"] = "idle"
    BY <1>1, <1>4 DEF Runs, InHandler
  <2>2. Tracked("irq")'
    BY <2>1 DEF Tracked
  <2>3. CursorFollows'
    <3>1. SUFFICES ASSUME pc'["main"] = "idle", ~disturbed
                   PROVE  crt'["high"] * Radix + crt'["low"]
                            = terminal_row' * Width + terminal_column'
      BY <1>1 DEF CursorFollows
    <3>2. WriteRegister("main", "datahigh", "idle", at["main"] \div Radix)
      BY <1>4, <1>p, <3>1 DEF Internal, LoadRow, LoadColumn, StoreCell, Advance, WrapColumn,
        WrapRow, ZeroRow, ZeroColumn, TestColumn, LoadCursor, AddColumn, UpdateCursor,
        SelectRegister, WriteRegister, AfterRow, Return
    <3> QED BY <3>1, <3>2, LastWrite
  <2> QED BY <1>1, <1>2, <1>4, <2>1, <2>2, <2>3 DEF CursorInv
<1> QED BY <1>3, <1>4

LEMMA OtherCursor ==
  ASSUME Inv, CursorInv,
         \/ \E x \in Chars \cup {Newline} : PrintChar(x)
         \/ HandlerChar \/ KeyInterrupt \/ UNCHANGED vars
  PROVE  CursorInv'
<1>p. pc \in [Contexts -> PrintStates] /\ HandlerText # <<>>
  BY TerminalAssumption DEF Inv, ControlType, TerminalAssumption
<1>1. CASE \E x \in Chars \cup {Newline} : PrintChar(x)
  BY <1>1, <1>p DEF PrintChar, shared, CursorInv, CursorType, CursorFollows, Tracked, InHandler
<1>2. CASE HandlerChar
  BY <1>2, <1>p DEF HandlerChar, shared, CursorInv, CursorType, CursorFollows, Tracked, InHandler
<1>3. CASE KeyInterrupt
  BY <1>3, <1>p DEF KeyInterrupt, shared, registers, CursorInv, CursorType, CursorFollows,
                    Tracked, InHandler, Position
<1>4. CASE UNCHANGED vars
  BY <1>4 DEF vars, CursorInv, CursorType, CursorFollows, Tracked, InHandler, Position
<1> QED BY <1>1, <1>2, <1>3, <1>4

LEMMA HandlerLeaves ==
  ASSUME Inv, CursorInv, [Next]_vars, InHandler, ~InHandler'
  PROVE  /\ terminal_column' = 0
         /\ crt'["high"] * Radix + crt'["low"] = terminal_row' * Width
<1>p. pc \in [Contexts -> PrintStates]
  BY DEF Inv, ControlType
<1>1. Internal("irq") /\ pc["irq"] # "idle" /\ pc'["irq"] = "idle" /\ left' = left /\ left = <<>>
  <2>1. CASE Internal("irq")
    BY <1>p, <2>1 DEF Internal, LoadRow, LoadColumn, StoreCell, Advance, WrapColumn,
        WrapRow, ZeroRow, ZeroColumn, TestColumn, LoadCursor, AddColumn, UpdateCursor,
        SelectRegister, WriteRegister, Step, bounds, InHandler
  <2>2. CASE Internal("main")
    BY <2>2 DEF Internal, LoadRow, LoadColumn, StoreCell, Advance, WrapColumn,
        WrapRow, ZeroRow, ZeroColumn, TestColumn, LoadCursor, AddColumn, UpdateCursor,
        SelectRegister, WriteRegister, Step, Runs
  <2>3. CASE (\E x \in Chars \cup {Newline} : PrintChar(x)) \/ KeyInterrupt
    BY <2>3 DEF PrintChar, KeyInterrupt
  <2>4. CASE HandlerChar
    BY <1>p, <2>4 DEF HandlerChar, InHandler
  <2>5. CASE UNCHANGED vars
    BY <2>5 DEF vars, InHandler
  <2> QED BY <2>1, <2>2, <2>3, <2>4, <2>5 DEF Next
<1>2. WriteRegister("irq", "datahigh", "idle", at["irq"] \div Radix)
  BY <1>1, <1>p DEF Internal, LoadRow, LoadColumn, StoreCell, Advance, WrapColumn,
        WrapRow, ZeroRow, ZeroColumn, TestColumn, LoadCursor, AddColumn, UpdateCursor,
        SelectRegister, WriteRegister, AfterRow, Return, Step
<1>3. terminal_column = 0 /\ terminal_column' = terminal_column /\ terminal_row' = terminal_row
  BY <1>1, <1>2 DEF WriteRegister, Step, Inv, LineEnded
<1>4. terminal_row * Width \in Nat
  BY <1>2, PositionFits DEF WriteRegister, Step
<1>5. crt'["high"] * Radix + crt'["low"] = terminal_row' * Width + terminal_column'
  BY <1>2, LastWrite
<1> QED BY <1>3, <1>4, <1>5

-----------------------------------------------------------------------------
(* The stubs *)

Names == {General[k] : k \in 1 .. 8}
Codes == Int \X Int
Words ==
  {"kernel", "own", "address", "error", "number", "eip", "cs", "eflags"}
    \X (Names \cup Int \cup Pages \cup ErrorCodes \cup Codes \cup (BOOLEAN \X BOOLEAN))
Vectors == Interrupts \cup Exceptions \cup {14}
Returning == Interrupts \cup {14}

Interruption ==
  [vector : Vectors, ip : Int \X {0}, stack : Seq(Words), reg : [Names -> Words], df : BOOLEAN,
   interruptFlag : BOOLEAN, error : ErrorCodes \cup {0}, cr2 : Words]

StubsType ==
  /\ ip \in Codes /\ stack \in Seq(Words) /\ reg \in [Names -> Words]
  /\ df \in BOOLEAN /\ interruptFlag \in BOOLEAN /\ cr2 \in Words
  /\ interrupted \in Seq(Interruption)

(* What an interruption leaves on the stack, and what the stub adds.       *)
ErrorWord(was) == <<"error", was.error>>
Flags(was) ==
  <<<<"eip", was.ip>>, <<"cs", 8>>, <<"eflags", <<was.df, was.interruptFlag>>>>>>
Frame(was) == Flags(was) \o was.stack
Entry(was) ==
  (IF was.vector \in WithErrorCode THEN <<ErrorWord(was)>> ELSE <<>>) \o Flags(was) \o was.stack
Saved(was) == [k \in 1 .. 8 |-> was.reg[General[k]]] \o Entry(was)
One(was) ==
  <<IF was.vector = 14 THEN ErrorWord(was) ELSE <<"number", was.vector>>>> \o Saved(was)
Two(was) == <<was.cr2>> \o One(was)

(* How much of it is there at each instruction of a stub.                  *)
Phases(v) ==
  CASE v = 14 -> <<"entry", "saved", "saved", "one", "two", "two", "two", "one", "saved",
                   "entry", "frame">>
    [] v < 32 /\ v # 14 -> <<"entry", "entry">>
    [] v = 48 -> <<"entry", "saved", "saved", "saved", "frame">>
    [] v >= 32 /\ v # 48 -> <<"entry", "saved", "one", "one", "one", "saved", "frame">>

StackAt(phase, was) ==
  CASE phase = "entry" -> Entry(was) [] phase = "saved" -> Saved(was) [] phase = "one" -> One(was)
    [] phase = "two" -> Two(was) [] phase = "frame" -> Frame(was)

Last(v) ==
  CASE v = 14 -> 11 [] v < 32 /\ v # 14 -> 2 [] v = 48 -> 5 [] v >= 32 /\ v # 48 -> 7
CallPlace(v) ==
  CASE v = 14 -> 6 [] v < 32 /\ v # 14 -> 1 [] v = 48 -> 3 [] v >= 32 /\ v # 48 -> 4
ReturnTo(v) == <<"eip", <<v, CallPlace(v) + 1>>>>
AtCall(was) == <<ReturnTo(was.vector)>> \o StackAt(Phases(was.vector)[CallPlace(was.vector)], was)

(* Code i with stack s and registers g serves the interruption was.        *)
Inside(i, s, g, was) ==
  /\ i[1] = was.vector /\ g["esp"] = was.reg["esp"]
  /\ \/ /\ i[2] \in 1 .. Last(was.vector)
        /\ s = StackAt(Phases(was.vector)[i[2]], was)
        /\ Phases(was.vector)[i[2]] \in {"entry", "frame"} => g = was.reg
        /\ was.vector = 14 /\ i[2] \in {3, 4} => g["eax"] = was.cr2
        /\ was.vector \notin Returning => i[2] = 1
     \/ i[2] = -1 /\ s = AtCall(was)
     \/ i[2] = 0 /\ \E f \in [1 .. 4 -> Words] : s = f \o AtCall(was)

(* ... the k-th of past, or the kernel is not interrupted.                 *)
Fits(i, s, g, past, k) == IF k > Len(past) THEN i = KernelCode ELSE Inside(i, s, g, past[k])

(* Of the code that runs: the address of the fault until it is read, and   *)
(* the direction flag.                                                     *)
Fresh ==
  /\ ip[1] = 14 /\ ip[2] \in {1, 2} => cr2 = interrupted[1].cr2
  /\ ip[1] \in Returning /\ (ip[2] = -1 \/ ip[2] = CallPlace(ip[1])) => ~df

StubsInv ==
  /\ StubsType /\ Fresh
  /\ Fits(ip, stack, reg, interrupted, 1)
  /\ \A k \in 1 .. Len(interrupted) :
       Fits(interrupted[k].ip, interrupted[k].stack, interrupted[k].reg, interrupted, k + 1)

-----------------------------------------------------------------------------

LEMMA VectorOf ==
  ASSUME NEW v \in Vectors
  PROVE  /\ v \in Int
         /\ v \in Returning => v = 14 \/ v = 48 \/ (v >= 32 /\ v # 48)
         /\ v \notin Returning => v < 32 /\ v # 14
         /\ v \in WithErrorCode => v < 32
BY StubsAssumption DEF StubsAssumption, Vectors, Returning, WithErrorCode

LEMMA GeneralNames ==
  /\ Names = {"edi", "esi", "ebp", "esp", "ebx", "edx", "ecx", "eax"}
  /\ \A k \in 1 .. 8 : General[k] \in Names
  /\ \A x \in Names : Slot(General, x) \in 1 .. 8 /\ General[Slot(General, x)] = x
<1>1. Len(General) = 8 /\ \A k \in 1 .. 8 : General[k] \in Names
  BY DEF General, Names
<1>2. Names = {"edi", "esi", "ebp", "esp", "ebx", "edx", "ecx", "eax"}
  BY DEF General, Names
<1>3. ASSUME NEW x \in Names PROVE Slot(General, x) \in 1 .. 8 /\ General[Slot(General, x)] = x
  <2>1. \E k \in 1 .. Len(General) : General[k] = x
    BY <1>1 DEF Names
  <2> QED BY <1>1, <2>1 DEF Slot
<1> QED BY <1>1, <1>2, <1>3

LEMMA Dropped ==
  ASSUME NEW x \in Seq(Words), NEW y \in Seq(Words)
  PROVE  SubSeq(x \o y, Len(x) + 1, Len(x \o y)) = y
<1>1. /\ Len(x) \in Nat /\ Len(y) \in Nat
      /\ Len(x \o y) = Len(x) + Len(y) /\ x \o y \in Seq(Words)
      /\ \A k \in 1 .. Len(x) + Len(y) : (x \o y)[k] = IF k <= Len(x) THEN x[k] ELSE y[k - Len(x)]
  BY ConcatProperties
<1> DEFINE z == SubSeq(x \o y, Len(x) + 1, Len(x \o y))
<1>2. /\ z \in Seq(Words) /\ Len(z) = Len(y)
      /\ \A k \in 1 .. Len(z) : z[k] = (x \o y)[Len(x) + k]
  BY <1>1
<1>3. \A k \in 1 .. Len(z) : z[k] = y[k]
  BY <1>1, <1>2
<1> QED BY <1>2, <1>3, SeqEqual

(* A word, eight registers or four of them on top of a stack               *)
LEMMA OneMore ==
  ASSUME NEW w \in Words, NEW s \in Seq(Words)
  PROVE  /\ <<w>> \o s \in Seq(Words) /\ (<<w>> \o s)[1] = w
         /\ \A k \in 1 .. Len(s) : (<<w>> \o s)[k + 1] = s[k]
         /\ SubSeq(<<w>> \o s, 2, Len(<<w>> \o s)) = s
<1>1. <<w>> \in Seq(Words) /\ Len(<<w>>) = 1 /\ <<w>>[1] = w
  OBVIOUS
<1>2. SubSeq(<<w>> \o s, 1 + 1, Len(<<w>> \o s)) = s
  BY <1>1, Dropped
<1> QED BY <1>1, <1>2, ConcatProperties

LEMMA OneLonger ==
  ASSUME NEW w \in Words, NEW s \in Seq(Words)
  PROVE  Len(<<w>> \o s) = Len(s) + 1 /\ Len(s) \in Nat
<1>1. <<w>> \in Seq(Words) /\ Len(<<w>>) = 1
  OBVIOUS
<1> QED BY <1>1, ConcatProperties

LEMMA SomeMore ==
  ASSUME NEW n \in Nat, NEW f \in [1 .. n -> Words], NEW s \in Seq(Words)
  PROVE  /\ f \o s \in Seq(Words)
         /\ \A k \in 1 .. n : (f \o s)[k] = f[k]
         /\ \A k \in 1 .. Len(s) : (f \o s)[n + k] = s[k]
         /\ SubSeq(f \o s, n + 1, Len(f \o s)) = s
<1>1. f \in Seq(Words) /\ Len(f) = n
  OBVIOUS
<1>2. SubSeq(f \o s, n + 1, Len(f \o s)) = s
  BY <1>1, Dropped
<1> QED BY <1>1, <1>2, ConcatProperties

LEMMA PushedFirst ==
  ASSUME NEW w \in Words, NEW x \in Seq(Words), NEW y \in Seq(Words)
  PROVE  (<<w>> \o x) \o y = <<w>> \o (x \o y)
BY ConcatAssociative

LEMMA WordsOf ==
  ASSUME NEW was \in Interruption
  PROVE  /\ ErrorWord(was) \in Words /\ <<"number", was.vector>> \in Words
         /\ was.cr2 \in Words /\ ReturnTo(was.vector) \in Words
         /\ Flags(was) \in Seq(Words) /\ Len(Flags(was)) = 3
         /\ [k \in 1 .. 8 |-> was.reg[General[k]]] \in [1 .. 8 -> Words]
<1>1. was.vector \in Int /\ CallPlace(was.vector) + 1 \in Int
  BY VectorOf DEF Interruption, CallPlace, Vectors
<1>2. <<was.vector, CallPlace(was.vector) + 1>> \in Codes
  BY <1>1 DEF Codes
<1>3. /\ was.ip \in Codes /\ was.error \in ErrorCodes \cup {0} /\ was.cr2 \in Words
      /\ <<was.df, was.interruptFlag>> \in BOOLEAN \X BOOLEAN /\ was.reg \in [Names -> Words]
  BY DEF Interruption, Codes
<1>4. /\ ErrorWord(was) \in Words /\ <<"number", was.vector>> \in Words
      /\ ReturnTo(was.vector) \in Words
  BY <1>1, <1>2, <1>3 DEF ErrorWord, Words, ReturnTo
<1>5. /\ <<"eip", was.ip>> \in Words /\ <<"cs", 8>> \in Words
      /\ <<"eflags", <<was.df, was.interruptFlag>>>> \in Words
  BY <1>3 DEF Words
<1>6. Flags(was) \in Seq(Words) /\ Len(Flags(was)) = 3
  BY <1>5 DEF Flags
<1>7. [k \in 1 .. 8 |-> was.reg[General[k]]] \in [1 .. 8 -> Words]
  BY <1>3, GeneralNames
<1> QED BY <1>3, <1>4, <1>6, <1>7

LEMMA Stacks ==
  ASSUME NEW was \in Interruption
  PROVE  /\ Frame(was) \in Seq(Words) /\ Entry(was) \in Seq(Words) /\ Saved(was) \in Seq(Words)
         /\ One(was) \in Seq(Words) /\ Two(was) \in Seq(Words)
         /\ was.vector \notin WithErrorCode => Entry(was) = Frame(was)
         /\ was.vector \in WithErrorCode => Entry(was) = <<ErrorWord(was)>> \o Frame(was)
<1>1. was.stack \in Seq(Words)
  BY DEF Interruption
<1>2. Frame(was) \in Seq(Words)
  BY <1>1, WordsOf, ConcatProperties DEF Frame
<1>3. was.vector \notin WithErrorCode => Entry(was) = Frame(was)
  <2>1. <<>> \o Flags(was) = Flags(was)
    BY WordsOf, ConcatEmptySeq
  <2> QED BY <2>1 DEF Entry, Frame
<1>4. was.vector \in WithErrorCode => Entry(was) = <<ErrorWord(was)>> \o Frame(was)
  <2>1. ErrorWord(was) \in Words
    BY WordsOf
  <2>2. Flags(was) \in Seq(Words)
    BY WordsOf
  <2>3. (<<ErrorWord(was)>> \o Flags(was)) \o was.stack
          = <<ErrorWord(was)>> \o (Flags(was) \o was.stack)
    BY <1>1, <2>1, <2>2, PushedFirst
  <2> QED BY <2>3 DEF Entry, Frame
<1>5. Entry(was) \in Seq(Words)
  BY <1>2, <1>3, <1>4, WordsOf, OneMore
<1>6. Saved(was) \in Seq(Words)
  BY <1>5, WordsOf, SomeMore DEF Saved
<1>7. One(was) \in Seq(Words)
  BY <1>6, WordsOf, OneMore DEF One
<1>8. Two(was) \in Seq(Words)
  BY <1>7, WordsOf, OneMore DEF Two
<1> QED BY <1>2, <1>3, <1>4, <1>5, <1>6, <1>7, <1>8

(* The instructions of the stubs and the phases around them.               *)
Transition(is, from, to) ==
  /\ from \in {"entry", "saved", "one", "two", "frame"}
  /\ is = "pushal" => from = "entry" /\ to = "saved"
  /\ is = "mov_cr2" => from = "saved" /\ to = "saved"
  /\ is = "push_error" => from = "saved" /\ to = "one"
  /\ is = "push_eax" => from = "one" /\ to = "two"
  /\ is = "push_number" => from = "saved" /\ to = "one"
  /\ is = "cld" => to = from /\ from \notin {"entry", "frame"}
  /\ is = "drop" => /\ from \in {"two", "one", "entry"}
                    /\ from = "two" => to = "one"
                    /\ from = "one" => to = "saved"
                    /\ from = "entry" => to = "frame"
  /\ is = "pop_eax" => from = "one" /\ to = "saved"
  /\ is = "popal" => from = "saved" /\ to \in {"entry", "frame"}
  /\ is = "iret" => from = "frame"

(* What of it depends on the vector.                                       *)
Special(v, n, is, from, to) ==
  /\ v = 14 => /\ is = "pushal" <=> n = 1
               /\ is = "mov_cr2" <=> n = 2
               /\ is = "push_error" <=> n = 3
               /\ is = "push_eax" <=> n = 4
               /\ is \notin {"push_number", "pop_eax"}
  /\ is \in {"mov_cr2", "push_error", "push_eax", "drop"} => v = 14
  /\ is = "call" <=> n = CallPlace(v)
  /\ is = "call" /\ v \in Returning => from \notin {"entry", "frame"} /\ to = from
  /\ n + 1 = CallPlace(v) => is = "cld"
  /\ is = "popal" /\ to = "frame" => v # 14

Row(v, n, is, from, to) ==
  /\ Stub(v)[n] = is /\ Phases(v)[n] = from /\ Phases(v)[n + 1] = to
  /\ Transition(is, from, to) /\ Special(v, n, is, from, to)
  /\ is # "iret" => n + 1 \in 1 .. Last(v)

LEMMA Transitions ==
  ASSUME NEW v \in Vectors, NEW n \in 1 .. Last(v), n = 1 \/ v \in Returning
  PROVE  Row(v, n, Stub(v)[n], Phases(v)[n], Phases(v)[n + 1])
<1>1. CASE v = 14
  <2>1. CallPlace(v) = 6 /\ Last(v) = 11
    BY <1>1 DEF Last, CallPlace
  <2>2. /\ Stub(v)[1] = "pushal" /\ Stub(v)[2] = "mov_cr2" /\ Stub(v)[3] = "push_error"
        /\ Stub(v)[4] = "push_eax" /\ Stub(v)[5] = "cld" /\ Stub(v)[6] = "call"
        /\ Stub(v)[7] = "drop" /\ Stub(v)[8] = "drop" /\ Stub(v)[9] = "popal"
        /\ Stub(v)[10] = "drop" /\ Stub(v)[11] = "iret"
    <3>1. Stub(v) = PageFaultStub
      BY <1>1 DEF Stub
    <3> QED BY <3>1 DEF PageFaultStub
  <2>3. /\ Phases(v)[1] = "entry" /\ Phases(v)[2] = "saved" /\ Phases(v)[3] = "saved"
        /\ Phases(v)[4] = "one" /\ Phases(v)[5] = "two" /\ Phases(v)[6] = "two"
        /\ Phases(v)[7] = "two" /\ Phases(v)[8] = "one" /\ Phases(v)[9] = "saved"
        /\ Phases(v)[10] = "entry" /\ Phases(v)[11] = "frame"
    <3>1. Phases(v) = <<"entry", "saved", "saved", "one", "two", "two", "two", "one", "saved",
                        "entry", "frame">>
      BY <1>1 DEF Phases
    <3> QED BY <3>1
  <2>4. /\ Row(v, 1, "pushal", "entry", "saved")
        /\ Row(v, 2, "mov_cr2", "saved", "saved")
        /\ Row(v, 3, "push_error", "saved", "one")
        /\ Row(v, 4, "push_eax", "one", "two")
        /\ Row(v, 5, "cld", "two", "two")
    BY <1>1, <2>1, <2>2, <2>3 DEF Row, Transition, Special
  <2>5. Row(v, 6, "call", "two", "two")
    BY <1>1, <2>1, <2>2, <2>3 DEF Row, Transition, Special
  <2>6. /\ Row(v, 7, "drop", "two", "one")
        /\ Row(v, 8, "drop", "one", "saved")
    BY <1>1, <2>1, <2>2, <2>3 DEF Row, Transition, Special
  <2>7. /\ Row(v, 9, "popal", "saved", "entry")
        /\ Row(v, 10, "drop", "entry", "frame")
        /\ Row(v, 11, "iret", "frame", Phases(v)[12])
    BY <1>1, <2>1, <2>2, <2>3 DEF Row, Transition, Special
  <2>8. n \in {1, 2, 3, 4, 5, 6, 7, 8, 9, 10, 11}
    BY <2>1
  <2> QED
    BY <2>4, <2>5, <2>6, <2>7, <2>8 DEF Row
<1>2. CASE v = 48
  <2>1. CallPlace(v) = 3 /\ Last(v) = 5
    BY <1>2 DEF Last, CallPlace
  <2>2. /\ Stub(v)[1] = "pushal" /\ Stub(v)[2] = "cld" /\ Stub(v)[3] = "call"
        /\ Stub(v)[4] = "popal" /\ Stub(v)[5] = "iret"
    <3>1. Stub(v) = <<"pushal", "cld", "call", "popal", "iret">>
      BY <1>2 DEF Stub, PageFaultStub
    <3> QED BY <3>1
  <2>3. /\ Phases(v)[1] = "entry" /\ Phases(v)[2] = "saved" /\ Phases(v)[3] = "saved"
        /\ Phases(v)[4] = "saved" /\ Phases(v)[5] = "frame"
    <3>1. Phases(v) = <<"entry", "saved", "saved", "saved", "frame">>
      BY <1>2 DEF Phases
    <3> QED BY <3>1
  <2>4. /\ Row(v, 1, "pushal", "entry", "saved")
        /\ Row(v, 2, "cld", "saved", "saved")
        /\ Row(v, 3, "call", "saved", "saved")
        /\ Row(v, 4, "popal", "saved", "frame")
        /\ Row(v, 5, "iret", "frame", Phases(v)[6])
    BY <1>2, <2>1, <2>2, <2>3 DEF Row, Transition, Special
  <2>5. n \in {1, 2, 3, 4, 5}
    BY <2>1
  <2> QED
    BY <2>4, <2>5 DEF Row
<1>3. CASE v >= 32 /\ v # 48
  <2>0. ~(v < 32) /\ v # 14 /\ v \in Int
    BY <1>3, VectorOf
  <2>1. CallPlace(v) = 4 /\ Last(v) = 7
    BY <1>3, <2>0 DEF Last, CallPlace
  <2>2. /\ Stub(v)[1] = "pushal" /\ Stub(v)[2] = "push_number" /\ Stub(v)[3] = "cld"
        /\ Stub(v)[4] = "call" /\ Stub(v)[5] = "pop_eax" /\ Stub(v)[6] = "popal"
        /\ Stub(v)[7] = "iret"
    <3>1. Stub(v) = <<"pushal", "push_number", "cld", "call", "pop_eax", "popal", "iret">>
      BY <1>3, <2>0 DEF Stub, PageFaultStub
    <3> QED BY <3>1
  <2>3. /\ Phases(v)[1] = "entry" /\ Phases(v)[2] = "saved" /\ Phases(v)[3] = "one"
        /\ Phases(v)[4] = "one" /\ Phases(v)[5] = "one" /\ Phases(v)[6] = "saved"
        /\ Phases(v)[7] = "frame"
    <3>1. Phases(v) = <<"entry", "saved", "one", "one", "one", "saved", "frame">>
      BY <1>3, <2>0 DEF Phases
    <3> QED BY <3>1
  <2>4. /\ Row(v, 1, "pushal", "entry", "saved")
        /\ Row(v, 2, "push_number", "saved", "one")
        /\ Row(v, 3, "cld", "one", "one")
        /\ Row(v, 4, "call", "one", "one")
        /\ Row(v, 5, "pop_eax", "one", "saved")
        /\ Row(v, 6, "popal", "saved", "frame")
        /\ Row(v, 7, "iret", "frame", Phases(v)[8])
    BY <1>3, <2>0, <2>1, <2>2, <2>3 DEF Row, Transition, Special
  <2>5. n \in {1, 2, 3, 4, 5, 6, 7}
    BY <2>1
  <2> QED
    BY <2>4, <2>5 DEF Row
<1>4. CASE v \notin Returning
  <2>1. n = 1 /\ v \in Int /\ v < 32 /\ v # 14 /\ v # 48 /\ ~(v >= 32)
    BY <1>4, VectorOf
  <2>2. /\ Stub(v) = <<"call", "iret">> /\ Phases(v) = <<"entry", "entry">>
        /\ CallPlace(v) = 1 /\ Last(v) = 2
    BY <2>1 DEF Stub, PageFaultStub, Phases, CallPlace, Last
  <2>3. Row(v, 1, "call", "entry", "entry")
    BY <1>4, <2>1, <2>2 DEF Row, Transition, Special
  <2> QED
    BY <2>1, <2>3 DEF Row
<1> QED BY <1>1, <1>2, <1>3, <1>4, VectorOf

LEMMA FirstPhase ==
  ASSUME NEW v \in Vectors
  PROVE  Phases(v)[1] = "entry"
<1>1. v \in Int /\ (v = 14 \/ (v < 32 /\ v # 14) \/ v = 48 \/ (v >= 32 /\ v # 48))
  BY VectorOf
<1>2. CASE v = 14
  <2>1. Phases(v) = <<"entry", "saved", "saved", "one", "two", "two", "two", "one", "saved",
                      "entry", "frame">>
    BY <1>2 DEF Phases
  <2> QED BY <2>1
<1>3. CASE v # 14
  BY <1>1, <1>3 DEF Phases
<1> QED BY <1>2, <1>3

-----------------------------------------------------------------------------
(* The state of a stub that is at an instruction *)

LEMMA Running ==
  ASSUME StubsInv, ip # KernelCode
  PROVE  /\ Len(interrupted) >= 1 /\ interrupted[1] \in Interruption
         /\ Inside(ip, stack, reg, interrupted[1])
         /\ interrupted[1].vector \in Vectors
<1>1. interrupted \in Seq(Interruption) /\ Fits(ip, stack, reg, interrupted, 1)
  BY DEF StubsInv, StubsType
<1>2. Len(interrupted) \in Nat /\ ~(1 > Len(interrupted))
  BY <1>1 DEF Fits
<1>3. interrupted[1] \in Interruption /\ Inside(ip, stack, reg, interrupted[1])
  BY <1>1, <1>2 DEF Fits
<1>4. interrupted[1].vector \in Vectors
  BY <1>3 DEF Interruption
<1> QED BY <1>2, <1>3, <1>4

LEMMA InStub ==
  ASSUME StubsInv, NEW is, At(is)
  PROVE  LET was == interrupted[1]
             n == ip[2]
             from == Phases(was.vector)[n]
             to == Phases(was.vector)[n + 1] IN
         /\ Len(interrupted) >= 1 /\ was \in Interruption
         /\ Vector = was.vector /\ was.vector \in Vectors /\ n \in 1 .. Last(was.vector)
         /\ n = 1 \/ was.vector \in Returning
         /\ Row(was.vector, n, is, from, to)
         /\ stack = StackAt(from, was) /\ reg["esp"] = was.reg["esp"]
         /\ from \in {"entry", "frame"} => reg = was.reg
         /\ was.vector = 14 /\ n \in {3, 4} => reg["eax"] = was.cr2
<1>1. ip # KernelCode
  BY DEF At, KernelCode
<1>2. /\ Len(interrupted) >= 1 /\ interrupted[1] \in Interruption
      /\ Inside(ip, stack, reg, interrupted[1]) /\ interrupted[1].vector \in Vectors
  BY <1>1, Running
<1> DEFINE was == interrupted[1]
<1>3. /\ Vector = was.vector /\ ip[2] \in 1 .. Last(was.vector)
      /\ ip[2] = 1 \/ was.vector \in Returning
      /\ stack = StackAt(Phases(was.vector)[ip[2]], was) /\ reg["esp"] = was.reg["esp"]
      /\ Phases(was.vector)[ip[2]] \in {"entry", "frame"} => reg = was.reg
      /\ was.vector = 14 /\ ip[2] \in {3, 4} => reg["eax"] = was.cr2
  BY <1>2 DEF Inside, Vector, At
<1>4. Stub(was.vector)[ip[2]] = is
  BY <1>3 DEF At
<1> QED BY <1>2, <1>3, <1>4, Transitions

(* The instruction that runs is not the last one of its stub and leaves the*)
(* stack and the registers as they should be at the next one.              *)
LEMMA NextInstruction ==
  ASSUME StubsInv, NEW is, At(is), is \notin {"call", "iret"}, ip' = NextIp,
         UNCHANGED <<interruptFlag, cr2, interrupted>>, df' \in BOOLEAN,
         df' = df \/ ~df', is = "cld" => ~df',
         stack' = StackAt(Phases(Vector)[ip[2] + 1], interrupted[1]),
         reg' \in [Names -> Words], reg'["esp"] = reg["esp"],
         Phases(Vector)[ip[2] + 1] \in {"entry", "frame"} => reg' = interrupted[1].reg,
         Vector = 14 /\ ip[2] + 1 \in {3, 4} => reg'["eax"] = interrupted[1].cr2
  PROVE  StubsInv'
<1> DEFINE was == interrupted[1]
           n == ip[2]
           v == was.vector
<1>1. /\ Len(interrupted) >= 1 /\ was \in Interruption /\ Vector = v /\ v \in Vectors
      /\ n \in 1 .. Last(v)
      /\ n = 1 \/ v \in Returning
      /\ Row(v, n, is, Phases(v)[n], Phases(v)[n + 1]) /\ reg["esp"] = was.reg["esp"]
  BY InStub
<1>2. v \in Returning
  <2>1. CASE v \notin Returning
    <3>1. n = 1 /\ v \in Int /\ v < 32 /\ v # 14
      BY <1>1, <2>1, VectorOf
    <3>2. n = CallPlace(v)
      BY <3>1 DEF CallPlace
    <3> QED BY <1>1, <3>2 DEF Row, Special
  <2> QED BY <2>1
<1>3. n + 1 \in 1 .. Last(v) /\ n \in Int /\ n >= 1 /\ v \in Int
  <2>1. v \in Int /\ Last(v) \in Int
    BY <1>1, <1>2, VectorOf DEF Last
  <2>2. n + 1 \in 1 .. Last(v)
    BY <1>1 DEF Row
  <2>3. n \in 1 .. Last(v)
    BY <1>1
  <2> HIDE DEF n, v
  <2> QED BY <2>1, <2>2, <2>3
<1>4. Phases(v)[n + 1] \in {"entry", "saved", "one", "two", "frame"}
  BY <1>1, <1>2, <1>3, Transitions DEF Row, Transition
<1>5. stack' \in Seq(Words)
  BY <1>1, <1>4, Stacks DEF StackAt
<1>6. ip' = <<v, n + 1>> /\ ip' \in Codes
  BY <1>1, <1>3 DEF NextIp, Codes
<1>7. StubsType'
  BY <1>5, <1>6 DEF StubsType, StubsInv
<1>8. Inside(ip', stack', reg', was)
  <2>1. ip'[1] = v /\ ip'[2] = n + 1
    BY <1>6
  <2>2. reg'["esp"] = was.reg["esp"]
    BY <1>1
  <2>3. stack' = StackAt(Phases(v)[n + 1], was)
    BY <1>1
  <2>4. Phases(v)[n + 1] \in {"entry", "frame"} => reg' = was.reg
    BY <1>1
  <2>5. v = 14 /\ n + 1 \in {3, 4} => reg'["eax"] = was.cr2
    BY <1>1
  <2> HIDE DEF n, v, was
  <2>6. /\ ip'[2] \in 1 .. Last(v)
        /\ stack' = StackAt(Phases(v)[ip'[2]], was)
        /\ Phases(v)[ip'[2]] \in {"entry", "frame"} => reg' = was.reg
        /\ v = 14 /\ ip'[2] \in {3, 4} => reg'["eax"] = was.cr2
        /\ v \notin Returning => ip'[2] = 1
    BY <1>2, <1>3, <2>1, <2>3, <2>4, <2>5
  <2> USE DEF v
  <2> QED BY <2>1, <2>2, <2>6 DEF Inside
<1>9. Fresh'
  <2>1. ip'[1] = 14 /\ ip'[2] \in {1, 2} => cr2' = was.cr2
    <3>1. ip[1] = v /\ (v = 14 /\ n \in {1, 2} => cr2 = was.cr2)
      BY <1>1 DEF StubsInv, Fresh, Vector
    <3>2. ip'[1] = v /\ ip'[2] = n + 1
      BY <1>6
    <3>3. n + 1 \in {1, 2} => n = 1
      BY <1>3
    <3> QED BY <3>1, <3>2, <3>3
  <2>2. ip'[2] # -1
    BY <1>3, <1>6
  <2>3. ip'[2] = CallPlace(v) => ~df'
    BY <1>1, <1>6 DEF Row, Special
  <2> QED BY <1>6, <2>1, <2>2, <2>3 DEF Fresh
<1>10. Fits(ip', stack', reg', interrupted, 1)
  BY <1>1, <1>8 DEF Fits
<1> QED BY <1>7, <1>9, <1>10 DEF StubsInv

-----------------------------------------------------------------------------
(* Steps inside a stub *)

LEMMA MovesKeep ==
  ASSUME StubsInv, Moves
  PROVE  StubsInv'
<1> DEFINE was == interrupted[1]
           n == ip[2]
           v == was.vector
           from == Phases(v)[n]
           to == Phases(v)[n + 1]
<1>1. /\ stack \in Seq(Words) /\ reg \in [Names -> Words] /\ df \in BOOLEAN /\ cr2 \in Words
      /\ ip' = NextIp /\ UNCHANGED <<interruptFlag, cr2, interrupted>>
  BY DEF StubsInv, StubsType, Moves
<1>2. "eax" \in Names /\ "esp" \in Names
  BY GeneralNames
<1>3. CASE /\ At("pushal") /\ stack' = [k \in 1 .. 8 |-> reg[General[k]]] \o stack
           /\ UNCHANGED <<reg, df>>
  <2>1. from = "entry" /\ to = "saved" /\ stack = Entry(was) /\ reg = was.reg /\ Vector = v
    BY <1>3, InStub DEF Row, Transition, StackAt
  <2>2. stack' = Saved(was)
    BY <1>3, <2>1 DEF Saved
  <2>3. v = 14 => n + 1 \notin {3, 4}
    BY <1>3, InStub DEF Row, Special
  <2> QED BY <1>1, <1>3, <2>1, <2>2, <2>3, NextInstruction DEF StackAt
<1>4. CASE At("mov_cr2") /\ reg' = [reg EXCEPT !["eax"] = cr2] /\ UNCHANGED <<stack, df>>
  <2>1. from = "saved" /\ to = "saved" /\ stack = Saved(was) /\ Vector = v
    BY <1>4, InStub DEF Row, Transition, StackAt
  <2>2. v = 14 /\ n = 2
    BY <1>4, InStub DEF Row, Special
  <2>3. cr2 = was.cr2
    BY <2>1, <2>2 DEF StubsInv, Fresh, Vector
  <2>4. reg' \in [Names -> Words] /\ reg'["eax"] = was.cr2 /\ reg'["esp"] = reg["esp"]
    BY <1>1, <1>2, <1>4, <2>3
  <2> QED BY <1>1, <1>4, <2>1, <2>4, NextInstruction DEF StackAt
<1>5. CASE At("push_error") /\ Push(stack[32 \div 4 + 1]) /\ UNCHANGED <<reg, df>>
  <2>1. from = "saved" /\ to = "one" /\ stack = Saved(was) /\ Vector = v /\ was \in Interruption
    BY <1>5, InStub DEF Row, Transition, StackAt
  <2>2. v = 14 /\ n = 3 /\ (n \in {3, 4} => reg["eax"] = was.cr2)
    BY <1>5, InStub DEF Row, Special
  <2>3. Entry(was) = <<ErrorWord(was)>> \o Frame(was) /\ Frame(was) \in Seq(Words)
    BY <2>1, <2>2, Stacks DEF WithErrorCode
  <2>4. Entry(was)[1] = ErrorWord(was) /\ Entry(was) \in Seq(Words) /\ Len(Entry(was)) >= 1
    BY <2>1, <2>3, WordsOf, OneMore, Stacks
  <2>5. stack[8 + 1] = ErrorWord(was)
    BY <2>1, <2>4, WordsOf, SomeMore DEF Saved
  <2>6. stack' = One(was)
    BY <1>5, <2>1, <2>2, <2>5 DEF One, Push
  <2> QED BY <1>1, <1>5, <2>1, <2>2, <2>6, NextInstruction DEF StackAt
<1>6. CASE At("push_eax") /\ Push(reg["eax"]) /\ UNCHANGED <<reg, df>>
  <2>1. from = "one" /\ to = "two" /\ stack = One(was) /\ Vector = v
    BY <1>6, InStub DEF Row, Transition, StackAt
  <2>2. v = 14 /\ n = 4 /\ (n \in {3, 4} => reg["eax"] = was.cr2)
    BY <1>6, InStub DEF Row, Special
  <2>3. stack' = Two(was)
    BY <1>6, <2>1, <2>2 DEF Two, Push
  <2> QED BY <1>1, <1>6, <2>1, <2>2, <2>3, NextInstruction DEF StackAt
<1>7. CASE At("push_number") /\ Push(<<"number", Vector>>) /\ UNCHANGED <<reg, df>>
  <2>1. from = "saved" /\ to = "one" /\ stack = Saved(was) /\ Vector = v
    BY <1>7, InStub DEF Row, Transition, StackAt
  <2>2. v # 14
    BY <1>7, InStub DEF Row, Special
  <2>3. stack' = One(was)
    BY <1>7, <2>1, <2>2 DEF One, Push
  <2> QED BY <1>1, <1>7, <2>1, <2>2, <2>3, NextInstruction DEF StackAt
<1>8. CASE At("cld") /\ df' = FALSE /\ UNCHANGED <<stack, reg>>
  <2>1. to = from /\ from \notin {"entry", "frame"} /\ stack = StackAt(from, was) /\ Vector = v
    BY <1>8, InStub DEF Row, Transition
  <2>2. v = 14 => n \notin {2, 3}
    BY <1>8, InStub DEF Row, Special
  <2>3. v = 14 => n + 1 \notin {3, 4}
    BY <1>8, <2>2, InStub
  <2> QED BY <1>1, <1>8, <2>1, <2>3, NextInstruction
<1>9. CASE At("drop") /\ stack' = Below(1) /\ UNCHANGED <<reg, df>>
  <2>1. /\ \/ from = "two" /\ to = "one"
           \/ from = "one" /\ to = "saved"
           \/ from = "entry" /\ to = "frame"
        /\ stack = StackAt(from, was) /\ Vector = v /\ was \in Interruption
        /\ from = "entry" => reg = was.reg
    BY <1>9, InStub DEF Row, Transition
  <2>2. v = 14 /\ n \notin {2, 3}
    BY <1>9, InStub DEF Row, Special
  <2>3. n + 1 \notin {3, 4}
    BY <1>9, <2>2, InStub
  <2>4. stack' = StackAt(to, was)
    <3>1. /\ Frame(was) \in Seq(Words) /\ Saved(was) \in Seq(Words) /\ One(was) \in Seq(Words)
          /\ Entry(was) = <<ErrorWord(was)>> \o Frame(was)
          /\ ErrorWord(was) \in Words /\ was.cr2 \in Words
      BY <2>1, <2>2, Stacks, WordsOf DEF WithErrorCode
    <3>2. One(was) = <<ErrorWord(was)>> \o Saved(was) /\ Two(was) = <<was.cr2>> \o One(was)
      BY <2>2 DEF One, Two
    <3>6. stack' = SubSeq(stack, 2, Len(stack))
      BY <1>9 DEF Below
    <3>7. \A w \in Words, s \in Seq(Words) : stack = <<w>> \o s => stack' = s
      BY <3>6, OneMore
    <3>3. CASE from = "two"
      BY <2>1, <3>1, <3>2, <3>3, <3>7 DEF StackAt
    <3>4. CASE from = "one"
      BY <2>1, <3>1, <3>2, <3>4, <3>7 DEF StackAt
    <3>5. CASE from = "entry"
      BY <2>1, <3>1, <3>5, <3>7 DEF StackAt
    <3> QED BY <2>1, <3>3, <3>4, <3>5
  <2> QED BY <1>1, <1>9, <2>1, <2>3, <2>4, NextInstruction
<1>10. CASE /\ At("pop_eax") /\ reg' = [reg EXCEPT !["eax"] = stack[1]] /\ stack' = Below(1)
            /\ UNCHANGED df
  <2>1. from = "one" /\ to = "saved" /\ stack = One(was) /\ Vector = v /\ was \in Interruption
    BY <1>10, InStub DEF Row, Transition, StackAt
  <2>2. v # 14
    BY <1>10, InStub DEF Row, Special
  <2>3. One(was) = <<<<"number", was.vector>>>> \o Saved(was) /\ Saved(was) \in Seq(Words)
    BY <2>1, <2>2, Stacks DEF One
  <2>4. <<"number", was.vector>> \in Words
    BY <2>1, WordsOf
  <2>5. stack[1] \in Words /\ stack' = Saved(was)
    BY <1>10, <2>1, <2>3, <2>4, OneMore DEF Below
  <2>6. reg' \in [Names -> Words] /\ reg'["esp"] = reg["esp"]
    BY <1>1, <1>2, <1>10, <2>5
  <2> QED BY <1>1, <1>10, <2>1, <2>2, <2>5, <2>6, NextInstruction DEF StackAt
<1> QED BY <1>3, <1>4, <1>5, <1>6, <1>7, <1>8, <1>9, <1>10 DEF Moves

LEMMA PopAllKeeps ==
  ASSUME StubsInv, PopAll
  PROVE  StubsInv'
<1> DEFINE was == interrupted[1]
           n == ip[2]
           v == was.vector
           from == Phases(v)[n]
           to == Phases(v)[n + 1]
           regs == [k \in 1 .. 8 |-> was.reg[General[k]]]
<1>1. /\ stack \in Seq(Words) /\ reg \in [Names -> Words] /\ df \in BOOLEAN
      /\ ip' = NextIp /\ UNCHANGED <<df, interruptFlag, cr2, interrupted>> /\ At("popal")
  BY DEF StubsInv, StubsType, PopAll
<1>2. /\ from = "saved" /\ to \in {"entry", "frame"} /\ stack = Saved(was) /\ Vector = v
      /\ was \in Interruption /\ v \in Vectors /\ reg["esp"] = was.reg["esp"]
      /\ n = 1 \/ v \in Returning
  BY <1>1, InStub DEF Row, Transition, StackAt
<1>3. to = "frame" => v # 14
  BY <1>1, InStub DEF Row, Special
<1>4. n # 1
  BY <1>2, FirstPhase
<1>5. was.reg \in [Names -> Words] /\ regs \in [1 .. 8 -> Words] /\ Entry(was) \in Seq(Words)
  BY <1>2, WordsOf, Stacks DEF Interruption
<1>6. \A k \in 1 .. 8 : stack[k] = was.reg[General[k]]
  BY <1>2, <1>5, SomeMore DEF Saved
<1>7. SubSeq(regs \o Entry(was), 8 + 1, Len(regs \o Entry(was))) = Entry(was)
  <2> HIDE DEF regs
  <2> QED BY <1>5, SomeMore
<1>8. stack' = Entry(was)
  BY <1>2, <1>7 DEF PopAll, Below, Saved
<1>9. stack' = StackAt(to, was)
  <2>1. to = "frame" => v \notin WithErrorCode
    BY <1>2, <1>3, <1>4, VectorOf
  <2>2. to = "frame" => Entry(was) = Frame(was)
    BY <1>2, <2>1, Stacks
  <2> QED BY <1>2, <1>8, <2>2 DEF StackAt
<1>10. reg' = was.reg
  <2>1. reg' = [x \in Names |-> IF x = "esp" THEN reg[x] ELSE stack[Slot(General, x)]]
    BY <1>1 DEF PopAll
  <2>2. \A x \in Names : x # "esp" => stack[Slot(General, x)] = was.reg[x]
    BY <1>6, GeneralNames
  <2>3. \A x \in Names : (IF x = "esp" THEN reg[x] ELSE stack[Slot(General, x)]) = was.reg[x]
    BY <1>2, <2>2
  <2>4. was.reg = [x \in Names |-> was.reg[x]]
    BY <1>5
  <2> QED BY <2>1, <2>3, <2>4
<1>11. ~(v = 14 /\ n + 1 \in {3, 4})
  BY <1>1, <1>2, InStub DEF Row, Special
<1> QED BY <1>1, <1>2, <1>5, <1>9, <1>10, <1>11, NextInstruction

LEMMA CallKeeps ==
  ASSUME StubsInv, Call
  PROVE  StubsInv'
<1> DEFINE was == interrupted[1]
           n == ip[2]
           v == was.vector
<1>1. /\ At("call") /\ Push(<<"eip", NextIp>>) /\ ip' = CalledAt(Vector)
      /\ UNCHANGED <<reg, df, interruptFlag, cr2, interrupted>>
  BY DEF Call
<1>2. /\ Len(interrupted) >= 1 /\ was \in Interruption /\ Vector = v /\ v \in Vectors
      /\ n = CallPlace(v) /\ stack = StackAt(Phases(v)[n], was) /\ reg["esp"] = was.reg["esp"]
  BY <1>1, InStub DEF Row, Special
<1>3. stack' = AtCall(was)
  BY <1>1, <1>2 DEF Push, AtCall, ReturnTo, NextIp
<1>4. ip' = <<v, -1>> /\ ip' \in Codes /\ v \in Int
  BY <1>1, <1>2, VectorOf DEF CalledAt, Codes
<1>5. stack' \in Seq(Words)
  <2>1. stack \in Seq(Words)
    BY DEF StubsInv, StubsType
  <2>2. ReturnTo(v) \in Words
    BY <1>2, WordsOf
  <2> QED BY <1>2, <1>3, <2>1, <2>2, OneMore DEF AtCall
<1>6. StubsType'
  BY <1>1, <1>4, <1>5 DEF StubsInv, StubsType
<1>7. Fresh'
  <2>1. v \in Returning => ~df
    BY <1>2 DEF StubsInv, Fresh, Vector
  <2> QED BY <1>1, <1>4, <2>1 DEF Fresh
<1>8. Inside(ip', stack', reg', was)
  BY <1>1, <1>2, <1>3, <1>4 DEF Inside
<1> QED BY <1>1, <1>2, <1>6, <1>7, <1>8 DEF StubsInv, Fits

(* The C function is at one of its two places.                             *)
LEMMA InFunction ==
  ASSUME StubsInv, ip = CalledAt(Vector) \/ ip = BodyOf(Vector), Vector # -1
  PROVE  LET was == interrupted[1] IN
         /\ Len(interrupted) >= 1 /\ was \in Interruption
         /\ Vector = was.vector /\ was.vector \in Vectors /\ reg["esp"] = was.reg["esp"]
         /\ ip = CalledAt(Vector) => stack = AtCall(was)
         /\ ip = BodyOf(Vector) => \E f \in [1 .. 4 -> Words] : stack = f \o AtCall(was)
<1>1. ip # KernelCode
  BY DEF Vector, KernelCode
<1>2. /\ Len(interrupted) >= 1 /\ interrupted[1] \in Interruption
      /\ Inside(ip, stack, reg, interrupted[1]) /\ interrupted[1].vector \in Vectors
  BY <1>1, Running
<1>3. /\ ip[2] \in {-1, 0}
      /\ ip = CalledAt(Vector) => ip[2] = -1
      /\ ip = BodyOf(Vector) => ip[2] = 0
  BY DEF CalledAt, BodyOf
<1>4. Last(interrupted[1].vector) \in Int
  BY <1>2, VectorOf DEF Last
<1> QED BY <1>2, <1>3, <1>4 DEF Inside, Vector

LEMMA EnterFunctionKeeps ==
  ASSUME StubsInv, EnterFunction
  PROVE  StubsInv'
<1> DEFINE was == interrupted[1]
           v == was.vector
           f == [k \in 1 .. 4 |-> reg[CalleeSaved[k]]]
<1>1. /\ ip = CalledAt(Vector) /\ stack' = f \o stack /\ ip' = BodyOf(Vector)
      /\ reg' = [x \in DOMAIN reg |-> IF x = "esp" THEN reg[x] ELSE <<"own", Len(interrupted)>>]
      /\ UNCHANGED <<df, interruptFlag, cr2, interrupted>>
  BY DEF EnterFunction
<1>2. stack \in Seq(Words) /\ reg \in [Names -> Words] /\ Len(interrupted) \in Nat
  BY DEF StubsInv, StubsType
<1>3. Vector # -1
  <2>1. ip # KernelCode
    BY <1>1 DEF CalledAt, KernelCode
  <2>2. interrupted[1].vector \in Vectors /\ ip[1] = interrupted[1].vector
    BY <2>1, Running DEF Inside
  <2> QED BY <2>2, StubsAssumption DEF StubsAssumption, Vectors, Vector
<1>4. /\ Len(interrupted) >= 1 /\ was \in Interruption /\ Vector = v /\ v \in Vectors
      /\ reg["esp"] = was.reg["esp"] /\ stack = AtCall(was)
  BY <1>1, <1>3, InFunction
<1>5. f \in [1 .. 4 -> Words]
  <2>1. \A k \in 1 .. 4 : CalleeSaved[k] \in Names
    BY GeneralNames DEF CalleeSaved
  <2> QED BY <1>2, <2>1
<1>6. stack' = f \o AtCall(was) /\ stack' \in Seq(Words)
  <2> HIDE DEF f
  <2> QED BY <1>1, <1>2, <1>4, <1>5, SomeMore
<1>7. reg' \in [Names -> Words] /\ reg'["esp"] = reg["esp"]
  <2>1. <<"own", Len(interrupted)>> \in Words
    BY <1>2 DEF Words
  <2> QED BY <1>1, <1>2, <2>1, GeneralNames
<1>8. ip' = <<v, 0>> /\ ip' \in Codes /\ v \in Int
  BY <1>1, <1>4, VectorOf DEF BodyOf, Codes
<1>9. StubsType'
  BY <1>1, <1>6, <1>7, <1>8 DEF StubsInv, StubsType
<1>10. Fresh'
  BY <1>8 DEF Fresh, CallPlace
<1>11. Inside(ip', stack', reg', was)
  <2> HIDE DEF f
  <2> QED BY <1>4, <1>5, <1>6, <1>7, <1>8 DEF Inside
<1> QED BY <1>1, <1>4, <1>9, <1>10, <1>11 DEF StubsInv, Fits

LEMMA UnderMore ==
  ASSUME NEW n \in Nat, NEW f \in [1 .. n -> Words], NEW w \in Words, NEW s \in Seq(Words)
  PROVE  /\ \A k \in 1 .. n : (f \o (<<w>> \o s))[k] = f[k]
         /\ (f \o (<<w>> \o s))[n + 1] = w
         /\ SubSeq(f \o (<<w>> \o s), n + 2, Len(f \o (<<w>> \o s))) = s
<1>1. f \in Seq(Words) /\ Len(f) = n /\ <<w>> \in Seq(Words) /\ Len(<<w>>) = 1
  OBVIOUS
<1>2. <<w>> \o s \in Seq(Words) /\ (<<w>> \o s)[1] = w /\ Len(<<w>> \o s) = 1 + Len(s)
  BY <1>1, OneMore, ConcatProperties
<1>3. (\A k \in 1 .. n : (f \o (<<w>> \o s))[k] = f[k]) /\ (f \o (<<w>> \o s))[n + 1] = w
  <2> DEFINE z == <<w>> \o s
  <2>1. z \in Seq(Words) /\ z[1] = w /\ 1 \in 1 .. Len(z)
    BY <1>2
  <2> HIDE DEF z
  <2>2. (\A k \in 1 .. n : (f \o z)[k] = f[k]) /\ (f \o z)[n + 1] = w
    BY <2>1, SomeMore
  <2> QED BY <2>2 DEF z
<1>5. (f \o <<w>>) \o s = f \o (<<w>> \o s)
  BY <1>1, ConcatAssociative
<1> DEFINE x == f \o <<w>>
<1>6. x \in Seq(Words) /\ Len(x) = n + 1
  BY <1>1, ConcatProperties
<1>7. SubSeq(x \o s, n + 2, Len(x \o s)) = s
  <2> HIDE DEF x
  <2>1. SubSeq(x \o s, Len(x) + 1, Len(x \o s)) = s
    BY <1>6, Dropped
  <2>2. Len(x) + 1 = n + 2
    BY <1>6
  <2> QED BY <2>1, <2>2
<1> QED BY <1>3, <1>5, <1>7

LEMMA LeaveFunctionKeeps ==
  ASSUME StubsInv, LeaveFunction
  PROVE  StubsInv'
<1> DEFINE was == interrupted[1]
           v == was.vector
           p == CallPlace(v)
           before == StackAt(Phases(v)[p], was)
<1>1. /\ ip = BodyOf(Vector) /\ Vector \in Returning
      /\ reg' = [x \in DOMAIN reg |->
                   IF \E k \in 1 .. 4 : CalleeSaved[k] = x
                   THEN stack[Slot(CalleeSaved, x)] ELSE reg[x]]
      /\ ip' = stack[5][2] /\ stack' = Below(5)
      /\ UNCHANGED <<df, interruptFlag, cr2, interrupted>>
  BY DEF LeaveFunction, Returning
<1>2. stack \in Seq(Words) /\ reg \in [Names -> Words]
  BY DEF StubsInv, StubsType
<1>3. /\ Len(interrupted) >= 1 /\ was \in Interruption /\ Vector = v /\ v \in Vectors
      /\ reg["esp"] = was.reg["esp"] /\ \E f \in [1 .. 4 -> Words] : stack = f \o AtCall(was)
  <2>1. Vector # -1
    BY <1>1, StubsAssumption DEF Returning, StubsAssumption
  <2> QED BY <1>1, <2>1, InFunction
<1>4. PICK f \in [1 .. 4 -> Words] : stack = f \o AtCall(was)
  BY <1>3
<1>5. v \in Returning /\ (v = 14 \/ v = 48 \/ (v >= 32 /\ v # 48)) /\ v \in Int
  BY <1>1, <1>3, VectorOf
<1>6. p \in 1 .. Last(v) /\ p >= 3 /\ p \in Int /\ (v = 14 => p = 6)
  BY <1>5 DEF CallPlace, Last
<1>7. Row(v, p, Stub(v)[p], Phases(v)[p], Phases(v)[p + 1])
  <2> HIDE DEF p
  <2> QED BY <1>3, <1>5, <1>6, Transitions
<1>8. /\ Phases(v)[p] \notin {"entry", "frame"} /\ Phases(v)[p + 1] = Phases(v)[p]
      /\ Phases(v)[p] \in {"entry", "saved", "one", "two", "frame"} /\ p + 1 \in 1 .. Last(v)
  BY <1>5, <1>7 DEF Row, Special, Transition
<1>9. before \in Seq(Words) /\ ReturnTo(v) \in Words
  BY <1>3, <1>8, Stacks, WordsOf DEF StackAt
<1>10. AtCall(was) = <<ReturnTo(v)>> \o before
  BY DEF AtCall
<1>11. /\ \A k \in 1 .. 4 : stack[k] = f[k]
       /\ stack[4 + 1] = ReturnTo(v) /\ SubSeq(stack, 4 + 2, Len(stack)) = before
  <2> HIDE DEF before
  <2>1. stack = f \o (<<ReturnTo(v)>> \o before)
    BY <1>4, <1>10
  <2> DEFINE w == ReturnTo(v)
  <2>2. w \in Words /\ f \in [1 .. 4 -> Words] /\ stack = f \o (<<w>> \o before)
    BY <1>9, <2>1
  <2> HIDE DEF w
  <2>3. \A n \in Nat : \A h \in [1 .. n -> Words] :
          /\ \A k \in 1 .. n : (h \o (<<w>> \o before))[k] = h[k]
          /\ (h \o (<<w>> \o before))[n + 1] = w
          /\ SubSeq(h \o (<<w>> \o before), n + 2, Len(h \o (<<w>> \o before))) = before
    BY <1>9, <2>2, UnderMore
  <2>4. /\ \A k \in 1 .. 4 : stack[k] = f[k]
        /\ stack[4 + 1] = w /\ SubSeq(stack, 4 + 2, Len(stack)) = before
    BY <2>2, <2>3
  <2> QED BY <2>4 DEF w
<1>12. ip' = <<v, p + 1>> /\ stack' = before /\ ip' \in Codes
  BY <1>1, <1>5, <1>6, <1>11 DEF Below, ReturnTo, Codes
<1>13. reg' \in [Names -> Words] /\ reg'["esp"] = reg["esp"]
  <2>1. ~\E k \in 1 .. 4 : CalleeSaved[k] = "esp"
    BY DEF CalleeSaved
  <2>2. ASSUME NEW x \in Names, \E k \in 1 .. 4 : CalleeSaved[k] = x
        PROVE  stack[Slot(CalleeSaved, x)] \in Words
    <3>1. Len(CalleeSaved) = 4
      BY DEF CalleeSaved
    <3>2. Slot(CalleeSaved, x) \in 1 .. 4
      BY <2>2, <3>1 DEF Slot
    <3> QED BY <1>11, <3>2
  <2>3. "esp" \in Names
    BY GeneralNames
  <2> QED BY <1>1, <1>2, <2>1, <2>2, <2>3
<1>14. StubsType'
  BY <1>1, <1>9, <1>12, <1>13 DEF StubsInv, StubsType
<1>15. Fresh'
  <2>1. ip'[1] = v /\ ip'[2] = p + 1 /\ p + 1 \notin {-1, 1, 2} /\ p + 1 # p
    BY <1>6, <1>12
  <2> QED BY <2>1 DEF Fresh
<1>16. Inside(ip', stack', reg', was)
  <2>1. v = 14 => p + 1 \notin {3, 4}
    BY <1>6
  <2> HIDE DEF p, before
  <2>2. before = StackAt(Phases(v)[p + 1], was)
    BY <1>8 DEF before
  <2> QED BY <1>3, <1>5, <1>8, <1>12, <1>13, <2>1, <2>2 DEF Inside
<1>17. Fits(ip', stack', reg', interrupted, 1) /\ UNCHANGED interrupted
  <2>1. UNCHANGED interrupted /\ Len(interrupted) >= 1 /\ Len(interrupted) \in Nat
    BY <1>1, <1>3 DEF StubsInv, StubsType
  <2>2. ~(1 > Len(interrupted))
    BY <2>1
  <2> QED BY <1>16, <2>1, <2>2 DEF Fits
<1> QED BY <1>14, <1>15, <1>17 DEF StubsInv

-----------------------------------------------------------------------------
(* Interruptions and returns from them *)

LEMMA Shift ==
  ASSUME NEW was \in Interruption, NEW past \in Seq(Interruption), NEW i, NEW s, NEW g,
         NEW k \in Nat \ {0}
  PROVE  Fits(i, s, g, past, k) <=> Fits(i, s, g, <<was>> \o past, k + 1)
<1>1. /\ Len(<<was>> \o past) = Len(past) + 1
      /\ k \in 1 .. Len(past) => (<<was>> \o past)[k + 1] = past[k]
  <2>1. <<was>> \in Seq(Interruption) /\ Len(<<was>>) = 1
    OBVIOUS
  <2> QED BY <2>1, ConcatProperties
<1>2. k > Len(past) <=> k + 1 > Len(<<was>> \o past)
  BY <1>1
<1>3. ~(k > Len(past)) => k \in 1 .. Len(past)
  OBVIOUS
<1> QED BY <1>1, <1>2, <1>3 DEF Fits

LEMMA TakeKeeps ==
  ASSUME StubsInv, CCode, NEW v \in Vectors, NEW e \in ErrorCodes \cup {0}, cr2' \in Words,
         Take(v, e)
  PROVE  StubsInv'
<1> DEFINE was == [vector |-> v, ip |-> ip, stack |-> stack, reg |-> reg, df |-> df,
                   interruptFlag |-> interruptFlag, error |-> e, cr2 |-> cr2']
<1>1. /\ interrupted' = <<was>> \o interrupted /\ ip' = <<v, 1>> /\ interruptFlag' = FALSE
      /\ UNCHANGED <<reg, df>>
  BY DEF Take
<1>2. /\ stack \in Seq(Words) /\ reg \in [Names -> Words] /\ df \in BOOLEAN
      /\ interruptFlag \in BOOLEAN /\ interrupted \in Seq(Interruption) /\ ip \in Codes
  BY DEF StubsInv, StubsType
<1>3. ip \in Int \X {0} /\ v \in Int
  BY VectorOf, StubsAssumption DEF CCode, KernelCode, BodyOf, StubsAssumption
<1>4. was \in Interruption
  BY <1>2, <1>3 DEF Interruption
<1>5. stack' = Entry(was)
  BY DEF Take, Entry, Flags, ErrorWord
<1>6. /\ was.vector = v /\ was.ip = ip /\ was.stack = stack /\ was.reg = reg /\ was.cr2 = cr2'
  OBVIOUS
<1> HIDE DEF was
<1>7. /\ interrupted' \in Seq(Interruption) /\ Len(interrupted') = Len(interrupted) + 1
      /\ interrupted'[1] = was /\ Len(interrupted) \in Nat
      /\ \A k \in 1 .. Len(interrupted) : interrupted'[k + 1] = interrupted[k]
  <2>1. <<was>> \in Seq(Interruption) /\ Len(<<was>>) = 1 /\ <<was>>[1] = was
    BY <1>4
  <2> QED BY <1>1, <1>2, <2>1, ConcatProperties
<1>8. StubsType'
  <2>1. stack' \in Seq(Words)
    BY <1>4, <1>5, Stacks
  <2>2. ip' \in Codes
    BY <1>1, <1>3 DEF Codes
  <2>3. reg' \in [Names -> Words] /\ df' \in BOOLEAN /\ interruptFlag' \in BOOLEAN
    BY <1>1, <1>2
  <2> QED BY <1>7, <2>1, <2>2, <2>3 DEF StubsType
<1>9. Fresh'
  <2>1. 1 # CallPlace(v) \/ v \notin Returning
    BY VectorOf DEF CallPlace
  <2> QED BY <1>1, <1>6, <1>7, <2>1 DEF Fresh
<1>10. Fits(ip', stack', reg', interrupted', 1)
  <2>1. 1 \in 1 .. Last(v)
    BY <1>3, VectorOf DEF Last
  <2>2. Inside(ip', stack', reg', was)
    BY <1>1, <1>5, <1>6, <2>1, FirstPhase DEF Inside, StackAt
  <2>3. ~(1 > Len(interrupted'))
    BY <1>7
  <2> QED BY <1>7, <2>2, <2>3 DEF Fits
<1>11. ASSUME NEW k \in 1 .. Len(interrupted')
       PROVE  Fits(interrupted'[k].ip, interrupted'[k].stack, interrupted'[k].reg,
                   interrupted', k + 1)
  <2>1. CASE k = 1
    <3>1. Fits(ip, stack, reg, interrupted, 1)
      BY DEF StubsInv
    <3>2. Fits(ip, stack, reg, <<was>> \o interrupted, 1 + 1)
      BY <1>2, <1>4, <3>1, Shift
    <3> QED BY <1>1, <1>6, <1>7, <2>1, <3>2
  <2>2. CASE k # 1
    <3> DEFINE j == k - 1
    <3>1. j \in 1 .. Len(interrupted) /\ j + 1 \in Nat \ {0} /\ k = j + 1
      BY <1>7, <2>2
    <3> HIDE DEF j
    <3>2. Fits(interrupted[j].ip, interrupted[j].stack, interrupted[j].reg, interrupted, j + 1)
      BY <3>1 DEF StubsInv
    <3>3. Fits(interrupted[j].ip, interrupted[j].stack, interrupted[j].reg,
               <<was>> \o interrupted, (j + 1) + 1)
      BY <1>2, <1>4, <3>1, <3>2, Shift
    <3>4. interrupted'[k] = interrupted[j]
      BY <1>7, <3>1
    <3> QED BY <1>1, <3>1, <3>3, <3>4
  <2> QED BY <2>1, <2>2
<1> QED BY <1>8, <1>9, <1>10, <1>11 DEF StubsInv

(* An iret finds the frame of the interruption that is served.             *)
LEMMA AtIret ==
  ASSUME StubsInv, Iret
  PROVE  LET was == interrupted[1] IN
         /\ Len(interrupted) >= 1 /\ was \in Interruption
         /\ ip' = was.ip /\ stack' = was.stack /\ reg' = was.reg
         /\ df' = was.df /\ interruptFlag' = was.interruptFlag
         /\ interrupted' = Tail(interrupted) /\ UNCHANGED cr2
<1> DEFINE was == interrupted[1]
<1>1. At("iret") /\ UNCHANGED <<reg, cr2>> /\ interrupted' = Tail(interrupted)
  BY DEF Iret
<1>2. /\ Len(interrupted) >= 1 /\ was \in Interruption /\ stack = Frame(was) /\ reg = was.reg
  BY <1>1, InStub DEF Row, Transition, StackAt
<1>3. was.stack \in Seq(Words) /\ Flags(was) \in Seq(Words) /\ Len(Flags(was)) = 3
  BY <1>2, WordsOf DEF Interruption
<1>4. /\ stack[1] = Flags(was)[1] /\ stack[3] = Flags(was)[3]
      /\ SubSeq(stack, 3 + 1, Len(stack)) = was.stack
  <2>1. SubSeq(Flags(was) \o was.stack, Len(Flags(was)) + 1, Len(Flags(was) \o was.stack))
          = was.stack
    BY <1>3, Dropped
  <2>2. /\ (Flags(was) \o was.stack)[1] = Flags(was)[1]
        /\ (Flags(was) \o was.stack)[3] = Flags(was)[3]
    <3> DEFINE f == Flags(was)
               s == was.stack
    <3>1. f \in Seq(Words) /\ s \in Seq(Words) /\ Len(f) = 3 /\ Len(s) \in Nat
      BY <1>3
    <3> HIDE DEF f, s
    <3>2. \A k \in 1 .. Len(f) + Len(s) :
            (f \o s)[k] = IF k <= Len(f) THEN f[k] ELSE s[k - Len(f)]
      BY <3>1, ConcatProperties
    <3>3. \A k \in {1, 3} : k \in 1 .. Len(f) + Len(s) /\ k <= Len(f)
      BY <3>1
    <3>4. (f \o s)[1] = f[1] /\ (f \o s)[3] = f[3]
      BY <3>2, <3>3
    <3> QED BY <3>4 DEF f, s
  <2>3. stack = Flags(was) \o was.stack
    BY <1>2 DEF Frame
  <2> HIDE DEF was
  <2> QED BY <1>3, <2>1, <2>2, <2>3
<1>5. stack[1] = <<"eip", was.ip>> /\ stack[3] = <<"eflags", <<was.df, was.interruptFlag>>>>
  BY <1>4 DEF Flags
<1>6. ip' = was.ip /\ df' = was.df /\ interruptFlag' = was.interruptFlag
  BY <1>5 DEF Iret
<1>7. stack' = was.stack
  BY <1>4 DEF Iret, Below
<1> QED BY <1>1, <1>2, <1>6, <1>7

LEMMA IretKeeps ==
  ASSUME StubsInv, Iret
  PROVE  StubsInv'
<1> DEFINE was == interrupted[1]
           past == Tail(interrupted)
<1>1. /\ Len(interrupted) >= 1 /\ was \in Interruption
      /\ ip' = was.ip /\ stack' = was.stack /\ reg' = was.reg
      /\ df' = was.df /\ interruptFlag' = was.interruptFlag
      /\ interrupted' = past /\ UNCHANGED cr2
  BY AtIret
<1>2. interrupted \in Seq(Interruption) /\ Len(interrupted) \in Nat /\ cr2 \in Words
  BY DEF StubsInv, StubsType
<1>3. /\ past \in Seq(Interruption) /\ Len(past) = Len(interrupted) - 1 /\ Len(past) \in Nat
      /\ \A k \in 1 .. Len(past) : past[k] = interrupted[k + 1]
  BY <1>1, <1>2, HeadTailProperties
<1>4. <<was>> \o past = interrupted
  <2> DEFINE both == <<was>> \o past
  <2>1. <<was>> \in Seq(Interruption) /\ Len(<<was>>) = 1 /\ <<was>>[1] = was
    BY <1>1
  <2>2. /\ both \in Seq(Interruption) /\ Len(both) = 1 + Len(past) /\ both[1] = was
        /\ \A k \in 1 .. Len(past) : both[k + 1] = past[k]
    BY <1>3, <2>1, ConcatProperties
  <2>3. ASSUME NEW k \in 1 .. Len(both) PROVE both[k] = interrupted[k]
    <3>1. CASE k = 1
      BY <2>2, <3>1
    <3>2. CASE k # 1
      <4> DEFINE j == k - 1
      <4>1. j \in 1 .. Len(past) /\ k = j + 1
        BY <1>3, <2>2, <3>2
      <4> HIDE DEF j, both, past
      <4> QED BY <1>3, <2>2, <4>1
    <3> QED BY <3>1, <3>2
  <2>4. Len(both) = Len(interrupted)
    BY <1>3, <2>2
  <2> HIDE DEF both, past
  <2> QED BY <1>2, <2>2, <2>3, <2>4, SeqEqual DEF both
<1> HIDE DEF past
<1>5. StubsType'
  BY <1>1, <1>2, <1>3 DEF StubsType, Interruption, Codes
<1>6. Fresh'
  <2>1. ip'[2] = 0 /\ ip'[1] \in Int
    BY <1>1 DEF Interruption
  <2> QED BY <2>1 DEF Fresh, CallPlace
<1>7. Fits(ip', stack', reg', past, 1)
  <2>1. Fits(was.ip, was.stack, was.reg, interrupted, 1 + 1)
    BY <1>1, <1>2 DEF StubsInv
  <2>2. Fits(was.ip, was.stack, was.reg, <<was>> \o past, 1 + 1)
    BY <1>4, <2>1
  <2>3. Fits(was.ip, was.stack, was.reg, past, 1)
    <3> HIDE DEF was
    <3> QED BY <1>1, <1>3, <2>2, Shift
  <2> QED BY <1>1, <2>3
<1>8. ASSUME NEW k \in 1 .. Len(past)
      PROVE  Fits(past[k].ip, past[k].stack, past[k].reg, past, k + 1)
  <2>1. k + 1 \in 1 .. Len(interrupted) /\ k + 1 \in Nat \ {0}
    BY <1>3
  <2>2. Fits(past[k].ip, past[k].stack, past[k].reg, interrupted, (k + 1) + 1)
    BY <1>3, <2>1 DEF StubsInv
  <2> QED BY <1>1, <1>3, <1>4, <2>1, <2>2, Shift
<1> QED BY <1>1, <1>5, <1>6, <1>7, <1>8 DEF StubsInv

-----------------------------------------------------------------------------

(* The other actions leave what was interrupted alone.                     *)
LEMMA StubsStep ==
  ASSUME StubsInv, StubsNext
  PROVE  StubsInv'
<1>1. ASSUME NEW v \in Interrupts, Interrupt(v) PROVE StubsInv'
  <2>1. v \in Vectors /\ CCode /\ Take(v, 0) /\ cr2' \in Words
    BY <1>1 DEF Vectors, Interrupt, StubsInv, StubsType
  <2> QED BY <2>1, TakeKeeps
<1>2. ASSUME NEW a \in Pages, NEW e \in ErrorCodes, PageFault(a, e) PROVE StubsInv'
  <2>1. 14 \in Vectors /\ CCode /\ Take(14, e) /\ cr2' = <<"address", a>>
    BY <1>2 DEF Vectors, PageFault
  <2>2. cr2' \in Words
    BY <2>1 DEF Words
  <2> QED BY <2>1, <2>2, TakeKeeps
<1>3. ASSUME NEW v \in Exceptions, Exception(v) PROVE StubsInv'
  <2>1. v \in Vectors /\ CCode /\ Take(v, 0) /\ cr2' \in Words
    BY <1>3 DEF Vectors, Exception, StubsInv, StubsType
  <2> QED BY <2>1, TakeKeeps
<1> QED
  BY <1>1, <1>2, <1>3, MovesKeep, PopAllKeeps, CallKeeps, IretKeeps, EnterFunctionKeeps,
     LeaveFunctionKeeps
  DEF StubsNext

LEMMA StubsStart ==
  ASSUME StubsInit
  PROVE  StubsInv
<1>1. stack = <<>> /\ interrupted = <<>> /\ ip = KernelCode /\ Len(interrupted) = 0
  BY DEF StubsInit
<1>2. ip \in Codes /\ stack \in Seq(Words) /\ interrupted \in Seq(Interruption)
  BY <1>1 DEF KernelCode, Codes
<1>3. reg \in [Names -> Words] /\ cr2 \in Words /\ df \in BOOLEAN /\ interruptFlag \in BOOLEAN
  BY DEF StubsInit, Names, Words
<1>4. Fresh
  BY <1>1, StubsAssumption DEF Fresh, KernelCode, Returning, StubsAssumption
<1> QED BY <1>1, <1>2, <1>3, <1>4 DEF StubsInv, StubsType, Fits

(* The arguments are in place when a function is called.                   *)
LEMMA InOrder ==
  ASSUME StubsInv
  PROVE  CalledInOrder
<1> SUFFICES ASSUME ip = CalledAt(Vector), Vector \in Returning
             PROVE  LET was == interrupted[1] IN
                    /\ ~df /\ Vector = was.vector
                    /\ Vector = 14 => stack[2] = was.cr2 /\ stack[3] = <<"error", was.error>>
                    /\ Vector # 14 /\ Vector # 48 => stack[2] = <<"number", Vector>>
  BY DEF CalledInOrder, Returning
<1> DEFINE was == interrupted[1]
           v == was.vector
<1>1. Vector # -1
  BY StubsAssumption DEF Returning, StubsAssumption
<1>2. was \in Interruption /\ Vector = v /\ v \in Vectors /\ stack = AtCall(was)
  BY <1>1, InFunction
<1>3. ~df
  BY <1>2 DEF StubsInv, Fresh, Vector, CalledAt
<1>4. ReturnTo(v) \in Words
  BY <1>2, WordsOf
<1>5. CASE v = 14
  <2>1. stack = <<ReturnTo(v)>> \o Two(was)
    <3>1. CallPlace(v) = 6 /\ Stub(v)[6] = "call" /\ Phases(v)[6] = "two"
      BY <1>5 DEF CallPlace, Stub, PageFaultStub, Phases
    <3> QED BY <1>2, <3>1 DEF AtCall, StackAt
  <2>2. Two(was) = <<was.cr2>> \o (<<ErrorWord(was)>> \o Saved(was))
    BY <1>5 DEF Two, One
  <2>3. /\ Saved(was) \in Seq(Words) /\ ErrorWord(was) \in Words /\ was.cr2 \in Words
    BY <1>2, Stacks, WordsOf
  <2>4. /\ <<ErrorWord(was)>> \o Saved(was) \in Seq(Words)
        /\ (<<ErrorWord(was)>> \o Saved(was))[1] = ErrorWord(was)
        /\ Len(<<ErrorWord(was)>> \o Saved(was)) >= 1
    BY <2>3, OneMore, OneLonger
  <2>5. /\ Two(was) \in Seq(Words) /\ Two(was)[1] = was.cr2 /\ Two(was)[1 + 1] = ErrorWord(was)
        /\ Len(Two(was)) >= 2
    BY <2>2, <2>3, <2>4, OneMore, OneLonger
  <2>6. stack[1 + 1] = was.cr2 /\ stack[2 + 1] = ErrorWord(was)
    BY <1>4, <2>1, <2>5, OneMore
  <2> QED BY <1>2, <1>3, <1>5, <2>6 DEF ErrorWord
<1>6. CASE v # 14 /\ v # 48
  <2>1. v >= 32 /\ v \in Int /\ ~(v < 32)
    BY <1>2, <1>6, VectorOf
  <2>2. stack = <<ReturnTo(v)>> \o One(was)
    <3>1. CallPlace(v) = 4 /\ Phases(v)[4] = "one"
      BY <1>6, <2>1 DEF CallPlace, Phases
    <3> QED BY <1>2, <3>1 DEF AtCall, StackAt
  <2>3. One(was) = <<<<"number", v>>>> \o Saved(was)
    BY <1>6 DEF One
  <2>4. Saved(was) \in Seq(Words) /\ <<"number", v>> \in Words
    BY <1>2, Stacks, WordsOf
  <2>5. One(was) \in Seq(Words) /\ One(was)[1] = <<"number", v>> /\ Len(One(was)) >= 1
    BY <2>3, <2>4, OneMore, OneLonger
  <2>6. stack[1 + 1] = <<"number", v>>
    BY <1>4, <2>2, <2>5, OneMore
  <2> QED BY <1>2, <1>3, <1>6, <2>6
<1> QED BY <1>2, <1>3, <1>5, <1>6

(* Only an iret takes an interruption off the list.                        *)
LEMMA OnlyIretReturns ==
  ASSUME StubsInv, StubsNext, Len(interrupted') < Len(interrupted)
  PROVE  Iret
<1>1. interrupted \in Seq(Interruption) /\ Len(interrupted) \in Nat
  BY DEF StubsInv, StubsType
<1>2. ASSUME NEW v, NEW e, Take(v, e) PROVE FALSE
  <2> DEFINE was == [vector |-> v, ip |-> ip, stack |-> stack, reg |-> reg, df |-> df,
                     interruptFlag |-> interruptFlag, error |-> e, cr2 |-> cr2']
  <2>1. interrupted' = <<was>> \o interrupted
    BY <1>2 DEF Take
  <2> HIDE DEF was
  <2> DEFINE W == Interruption \cup {was}
  <2>2. <<was>> \in Seq(W) /\ interrupted \in Seq(W) /\ Len(<<was>>) = 1
    BY <1>1
  <2>3. Len(interrupted') = 1 + Len(interrupted)
    <3> HIDE DEF W
    <3> QED BY <2>1, <2>2, ConcatProperties
  <2> QED BY <1>1, <2>3
<1>3. ~(Len(interrupted) < Len(interrupted))
  BY <1>1
<1> QED
  BY <1>2, <1>3
  DEF StubsNext, Interrupt, PageFault, Exception, Moves, PopAll, Call, EnterFunction,
      LeaveFunction

-----------------------------------------------------------------------------
(* The handlers as a whole: one of the two sides moves, and the stubs never*)
(* do when they are nowhere.                                               *)

LEMMA NowhereStays == ~(ip = Nowhere /\ StubsNext)
<1> SUFFICES ASSUME ip = Nowhere, StubsNext PROVE FALSE
  OBVIOUS
<1>1. Vector = -1 /\ ip[2] = -3
  BY DEF Nowhere, Vector
<1>2. ~CCode /\ \A is : ~At(is)
  BY <1>1 DEF CCode, KernelCode, BodyOf, At
<1> QED
  BY <1>1, <1>2 DEF StubsNext, Interrupt, PageFault, Exception, Moves, PopAll, Call, Iret,
     EnterFunction, LeaveFunction, CalledAt, BodyOf

StubsOk == ip = Nowhere \/ StubsInv

LEMMA StubsOkNext == StubsOk /\ [HandlersNext]_handlersVars => StubsOk'
<1> SUFFICES ASSUME StubsOk, [HandlersNext]_handlersVars PROVE StubsOk'
  OBVIOUS
<1>1. CASE StubStep
  BY <1>1, NowhereStays, StubsStep DEF StubsOk, StubStep
<1>2. CASE UNCHANGED stubsVars
  BY <1>2 DEF stubsVars, StubsOk, StubsInv, StubsType, Fresh, Fits, Inside
<1> QED
  BY <1>1, <1>2 DEF HandlersNext, handlersVars, CallStep, MainStep, KeyStep, HandlerStep, Printing

LEMMA TerminalSteps == [HandlersNext]_handlersVars => [Next]_vars
BY DEF HandlersNext, handlersVars, CallStep, MainStep, KeyStep, HandlerStep, StubStep, Next,
       Contexts

LEMMA HandlersInv == HandlersSpec => [](Inv /\ CursorInv /\ StubsOk)
<1>1. HandlersInit => Inv /\ CursorInv /\ StubsOk
  BY InitInv, InitCursor, StubsStart DEF HandlersInit, StubsOk, NoStubs
<1>2. Inv /\ CursorInv /\ [Next]_vars => Inv' /\ CursorInv'
  BY InternalInv, PrintCharInv, HandlerCharInv, KeyInterruptInv, StutterInv, InternalCursor,
     OtherCursor
     DEF Next
<1> QED
  BY <1>1, <1>2, TerminalSteps, StubsOkNext, PTL DEF HandlersSpec

(* Whatever a handler that prints whole lines interrupts, every store of   *)
(* terminal_putchar is on the screen or in the first cell after it: the    *)
(* equality tests of terminal_handle_position are never jumped over.       *)
THEOREM StoresStayInVideo == HandlersSpec => []StoresInsideVideo
BY HandlersInv, InvStores, PTL

(* Between two characters of the kernel that no handler disturbed, the     *)
(* registers of the CRT hold the position the next one goes to: what       *)
(* update_cursor wrote byte by byte is what terminal_putchar meant.        *)
THEOREM CursorAlwaysFollows == HandlersSpec => []CursorFollows
<1>1. CursorInv => CursorFollows
  BY DEF CursorInv
<1> QED
  BY <1>1, HandlersInv, PTL

(* A handler that returns leaves the cursor at the start of a line, where  *)
(* it has put the next character, whatever it interrupted.                 *)
THEOREM CursorLeftRight == HandlersSpec => HandlerLeavesCursor
<1>1. Inv /\ CursorInv /\ [Next]_vars
      => [InHandler /\ ~InHandler' =>
           /\ terminal_column' = 0
           /\ crt'["high"] * Radix + crt'["low"] = terminal_row' * Width]_vars
  BY HandlerLeaves
<1> QED
  BY <1>1, TerminalSteps, HandlersInv, PTL DEF HandlersSpec, HandlerLeavesCursor

(* At the first instruction of every C function that a stub calls and that *)
(* returns, the direction flag is clear and the words above the return     *)
(* address are the arguments it is declared with: of the fault it serves,  *)
(* also when that one interrupted the service of another.                  *)
THEOREM ArgumentsInPlace == HandlersSpec => []CalledInOrder
<1>1. StubsOk => CalledInOrder
  BY InOrder, StubsAssumption DEF StubsOk, CalledInOrder, Nowhere, Vector, StubsAssumption
<1> QED
  BY <1>1, HandlersInv, PTL

(* Every iret resumes the code, the stack, the registers and the flags that*)
(* the interruption found, however deep the handlers were nested.          *)
THEOREM InterruptedResumes == HandlersSpec => Resumes
<1>1. ASSUME StubsOk, [HandlersNext]_handlersVars
      PROVE  [Len(interrupted') < Len(interrupted) =>
                LET was == Head(interrupted) IN
                /\ ip' = was.ip /\ stack' = was.stack /\ reg' = was.reg
                /\ df' = was.df /\ interruptFlag' = was.interruptFlag]_stubsVars
  <2> SUFFICES ASSUME ~UNCHANGED stubsVars, Len(interrupted') < Len(interrupted)
               PROVE  LET was == Head(interrupted) IN
                      /\ ip' = was.ip /\ stack' = was.stack /\ reg' = was.reg
                      /\ df' = was.df /\ interruptFlag' = was.interruptFlag
    OBVIOUS
  <2>1. StubsNext /\ StubsInv
    BY <1>1, NowhereStays
       DEF StubsOk, HandlersNext, handlersVars, CallStep, MainStep, KeyStep, HandlerStep,
           StubStep, Printing
  <2>2. Iret
    BY <2>1, OnlyIretReturns
  <2> QED BY <2>1, <2>2, AtIret
<1> QED
  BY <1>1, HandlersInv, PTL DEF HandlersSpec, Resumes

-----------------------------------------------------------------------------
(* Printing a character ends: the steps that are left until its four port  *)
(* writes are over, eight for each blank of a newline that is not the last.*)
(* A blank moves the column nearer to the end of the line, from where it   *)
(* wraps; a handler moves it only to 0, where the loop ends or begins.     *)

Rank ==
  [idle |-> 0, datahigh |-> 1, indexhigh |-> 2, datalow |-> 3, indexlow |-> 4, addcolumn |-> 5,
   cursor |-> 6, test |-> 7, zerocolumn |-> 8, zerorow |-> 9, wraprow |-> 10, advance |-> 10,
   wrapcolumn |-> 11, cell |-> 12, column |-> 13, row |-> 14]

BlanksLeft(p) ==
  CASE pc[p] \in {"row", "column"} -> Width - 1 - terminal_column
    [] pc[p] \in {"cell", "advance"} -> Width - 1 - c[p]
    [] pc[p] \in {"wraprow", "test"} -> IF terminal_column = 0 THEN 0 ELSE Width - terminal_column
    [] OTHER -> 0

StepsLeft(p) == 8 * BlanksLeft(p) + Rank[pc[p]]
MostSteps == 8 * Width + 14

(* What runs, the kernel or a handler, comes nearer to its end.            *)
ComesNearer ==
  /\ MainStep => StepsLeft("main")' < StepsLeft("main")
  /\ HandlerStep => \/ Len(left') < Len(left)
                    \/ left' = left /\ StepsLeft("irq")' < StepsLeft("irq")

LEMMA RankOf ==
  /\ Rank["idle"] = 0 /\ Rank["datahigh"] = 1 /\ Rank["indexhigh"] = 2 /\ Rank["datalow"] = 3
  /\ Rank["indexlow"] = 4 /\ Rank["addcolumn"] = 5 /\ Rank["cursor"] = 6 /\ Rank["test"] = 7
  /\ Rank["zerocolumn"] = 8 /\ Rank["zerorow"] = 9 /\ Rank["wraprow"] = 10
  /\ Rank["advance"] = 10 /\ Rank["wrapcolumn"] = 11 /\ Rank["cell"] = 12
  /\ Rank["column"] = 13 /\ Rank["row"] = 14
BY DEF Rank

Bounded == \A p \in Contexts : StepsLeft(p) \in 0 .. MostSteps

LEMMA Eights ==
  /\ \A w \in Nat : \A x \in 0 .. w, k \in 0 .. 14 : 8 * x + k \in 0 .. 8 * w + 14
  /\ \A x \in Nat, k \in Nat, l \in Nat : l < k => 8 * x + l < 8 * x + k
  /\ \A x, y \in Nat, k \in Nat, l \in Nat :
       y < x /\ l < k + 8 => 8 * y + l < 8 * x + k
OBVIOUS

(* What the shapes of Inv say about the context that moves.                *)
LEMMA Shapes ==
  ASSUME Inv, NEW p \in Contexts
  PROVE  /\ Width \in Nat /\ Width > 1
         /\ terminal_column \in Nat /\ terminal_column < Width
         /\ c[p] \in Nat /\ c[p] < Width
         /\ pc[p] \in PrintStates
<1>1. Width \in Nat /\ Width > 1
  BY TerminalAssumption DEF TerminalAssumption
<1>2. terminal_column \in 0 .. Width - 1 /\ c[p] \in 0 .. Width - 1 /\ pc[p] \in PrintStates
  BY DEF Inv, ControlType
<1> QED
  BY <1>1, <1>2

LEMMA BlanksBounded ==
  ASSUME Inv, NEW p \in Contexts
  PROVE  BlanksLeft(p) \in 0 .. Width
<1>1. /\ Width - 1 - terminal_column \in 0 .. Width /\ Width - 1 - c[p] \in 0 .. Width
      /\ Width - terminal_column \in 0 .. Width /\ 0 \in 0 .. Width
  BY Shapes
<1> QED
  BY <1>1 DEF BlanksLeft

LEMMA StepsBounded == Inv => Bounded
<1> SUFFICES ASSUME Inv, NEW p \in Contexts PROVE StepsLeft(p) \in 0 .. MostSteps
  BY DEF Bounded
<1>1. Rank[pc[p]] \in 0 .. 14
  BY Shapes, RankOf
<1>2. BlanksLeft(p) \in 0 .. Width /\ Width \in Nat
  BY Shapes, BlanksBounded
<1> QED
  BY <1>1, <1>2, Eights DEF StepsLeft, MostSteps

(* The step of one context: it goes on in the same blank, or to the next.  *)
LEMMA SameBlank ==
  ASSUME NEW p \in Contexts, NEW x \in Nat, NEW k \in Nat, NEW l \in Nat, l < k,
         BlanksLeft(p) = x, BlanksLeft(p)' = x, Rank[pc[p]] = k, Rank[pc'[p]] = l
  PROVE  StepsLeft(p)' < StepsLeft(p)
<1>1. StepsLeft(p) = 8 * x + k /\ StepsLeft(p)' = 8 * x + l
  BY DEF StepsLeft
<1>2. 8 * x + l < 8 * x + k
  BY Eights
<1> QED
  BY <1>1, <1>2

LEMMA NextBlank ==
  ASSUME NEW p \in Contexts, NEW x \in Nat, NEW y \in Nat, NEW k \in Nat, NEW l \in Nat,
         y < x, l < k + 8,
         BlanksLeft(p) = x, BlanksLeft(p)' = y, Rank[pc[p]] = k, Rank[pc'[p]] = l
  PROVE  StepsLeft(p)' < StepsLeft(p)
<1>1. StepsLeft(p) = 8 * x + k /\ StepsLeft(p)' = 8 * y + l
  BY DEF StepsLeft
<1>2. 8 * y + l < 8 * x + k
  BY Eights
<1> QED
  BY <1>1, <1>2

LEMMA StepNearer ==
  ASSUME Inv, Inv', NEW p \in Contexts, Internal(p)
  PROVE  StepsLeft(p)' < StepsLeft(p)
<1> USE DEF Step
<1>0. /\ pc \in [Contexts -> PrintStates] /\ c \in [Contexts -> 0 .. Width - 1]
      /\ Width \in Nat /\ Width > 1 /\ terminal_column \in Nat /\ terminal_column < Width
      /\ c[p] \in Nat /\ c[p] < Width
  BY Shapes DEF Inv, ControlType
<1>1. CASE LoadRow(p)
  <2>1. pc[p] = "row" /\ pc'[p] = "column" /\ terminal_column' = terminal_column
    BY <1>0, <1>1 DEF LoadRow, shared
  <2>2. BlanksLeft(p) = Width - 1 - terminal_column /\ BlanksLeft(p)' = Width - 1 - terminal_column
    BY <2>1 DEF BlanksLeft
  <2>3. Width - 1 - terminal_column \in Nat
    BY <1>0
  <2> QED
    BY <2>1, <2>2, <2>3, RankOf, SameBlank
<1>2. CASE LoadColumn(p)
  <2>1. /\ pc[p] = "column" /\ pc'[p] = "cell" /\ terminal_column' = terminal_column
        /\ c'[p] = terminal_column
    BY <1>0, <1>2 DEF LoadColumn, shared
  <2>2. BlanksLeft(p) = Width - 1 - terminal_column /\ BlanksLeft(p)' = Width - 1 - terminal_column
    BY <2>1 DEF BlanksLeft
  <2>3. Width - 1 - terminal_column \in Nat
    BY <1>0
  <2> QED
    BY <2>1, <2>2, <2>3, RankOf, SameBlank
<1>3. CASE StoreCell(p)
  <2>1. /\ pc[p] = "cell" /\ c'[p] = c[p]
        /\ pc'[p] = IF c[p] = Width - 1 THEN "wrapcolumn" ELSE "advance"
    BY <1>0, <1>3 DEF StoreCell, registers
  <2>2. BlanksLeft(p) = Width - 1 - c[p] /\ Width - 1 - c[p] \in Nat
    BY <1>0, <2>1 DEF BlanksLeft
  <2>3. CASE c[p] = Width - 1
    <3>1. Width - 1 - c[p] = 0 /\ pc'[p] = "wrapcolumn"
      BY <1>0, <2>1, <2>3
    <3>2. BlanksLeft(p)' = 0
      BY <3>1 DEF BlanksLeft
    <3> QED
      BY <2>1, <2>2, <3>1, <3>2, RankOf, SameBlank
  <2>4. CASE c[p] # Width - 1
    <3>1. BlanksLeft(p)' = Width - 1 - c[p]
      BY <2>1, <2>4 DEF BlanksLeft
    <3> QED
      BY <2>1, <2>2, <2>4, <3>1, RankOf, SameBlank
  <2> QED
    BY <2>3, <2>4
<1>4. CASE Advance(p)
  <2>1. /\ pc[p] = "advance" /\ terminal_column' = c[p] + 1
        /\ pc'[p] \in {"zerorow", "test", "cursor"}
    BY <1>0, <1>4 DEF Advance, AfterRow, Return
  <2>2. c[p] < Width - 1
    BY <2>1 DEF Inv, Copies
  <2>3. BlanksLeft(p) = Width - 1 - c[p] /\ Width - 1 - c[p] \in Nat /\ Width - 1 - c[p] > 0
    BY <1>0, <2>1, <2>2 DEF BlanksLeft
  <2>4. CASE pc'[p] = "test"
    <3>1. terminal_column' # 0 /\ Width - terminal_column' = Width - 1 - c[p]
      BY <1>0, <2>1
    <3>2. BlanksLeft(p)' = Width - 1 - c[p]
      BY <2>4, <3>1 DEF BlanksLeft
    <3> QED
      BY <2>1, <2>3, <2>4, <3>2, RankOf, SameBlank
  <2>5. CASE pc'[p] \in {"zerorow", "cursor"}
    <3>1. BlanksLeft(p)' = 0
      BY <2>5 DEF BlanksLeft
    <3>2. Rank[pc'[p]] \in Nat /\ Rank[pc'[p]] < Rank[pc[p]] + 8 /\ Rank[pc[p]] \in Nat
      BY <2>1, <2>5, RankOf
    <3> QED
      BY <2>3, <3>1, <3>2, NextBlank
  <2> QED
    BY <2>1, <2>4, <2>5
<1>5. CASE WrapColumn(p)
  <2>1. pc[p] = "wrapcolumn" /\ pc'[p] = "wraprow" /\ terminal_column' = 0
    BY <1>0, <1>5 DEF WrapColumn
  <2>2. BlanksLeft(p) = 0 /\ BlanksLeft(p)' = 0
    BY <2>1 DEF BlanksLeft
  <2> QED
    BY <2>1, <2>2, RankOf, SameBlank
<1>6. CASE WrapRow(p)
  <2>1. /\ pc[p] = "wraprow" /\ terminal_column' = terminal_column
        /\ pc'[p] \in {"zerorow", "test", "cursor"}
    BY <1>0, <1>6 DEF WrapRow, AfterRow, Return
  <2>2. BlanksLeft(p) \in Nat
    BY <1>0, BlanksBounded
  <2>3. CASE pc'[p] = "test"
    <3>1. BlanksLeft(p)' = BlanksLeft(p)
      BY <2>1, <2>3 DEF BlanksLeft
    <3> QED
      BY <2>1, <2>2, <2>3, <3>1, RankOf, SameBlank
  <2>4. CASE pc'[p] \in {"zerorow", "cursor"}
    <3>1. BlanksLeft(p)' = 0
      BY <2>4 DEF BlanksLeft
    <3>2. /\ Rank[pc'[p]] \in Nat /\ Rank[pc'[p]] < Rank[pc[p]] + 8 /\ Rank[pc[p]] \in Nat
          /\ Rank[pc'[p]] < Rank[pc[p]]
      BY <2>1, <2>4, RankOf
    <3>3. BlanksLeft(p) = 0 \/ 0 < BlanksLeft(p)
      BY <2>2
    <3> QED
      BY <2>2, <3>1, <3>2, <3>3, SameBlank, NextBlank
  <2> QED
    BY <2>1, <2>3, <2>4
<1>7. CASE ZeroRow(p)
  <2>1. pc[p] = "zerorow" /\ pc'[p] = "zerocolumn"
    BY <1>0, <1>7 DEF ZeroRow
  <2>2. BlanksLeft(p) = 0 /\ BlanksLeft(p)' = 0
    BY <2>1 DEF BlanksLeft
  <2> QED
    BY <2>1, <2>2, RankOf, SameBlank
<1>8. CASE ZeroColumn(p)
  <2>1. pc[p] = "zerocolumn" /\ pc'[p] \in {"test", "cursor"} /\ terminal_column' = 0
    BY <1>0, <1>8 DEF ZeroColumn, Return
  <2>2. BlanksLeft(p) = 0 /\ BlanksLeft(p)' = 0
    BY <2>1 DEF BlanksLeft
  <2>3. Rank[pc'[p]] \in Nat /\ Rank[pc'[p]] < Rank[pc[p]] /\ Rank[pc[p]] \in Nat
    BY <2>1, RankOf
  <2> QED
    BY <2>2, <2>3, SameBlank
<1>9. CASE TestColumn(p)
  <2>1. /\ pc[p] = "test" /\ terminal_column' = terminal_column
        /\ pc'[p] = IF terminal_column = 0 THEN "cursor" ELSE "row"
    BY <1>0, <1>9 DEF TestColumn, shared
  <2>2. CASE terminal_column = 0
    <3>1. BlanksLeft(p) = 0 /\ BlanksLeft(p)' = 0
      BY <2>1, <2>2 DEF BlanksLeft
    <3> QED
      BY <2>1, <2>2, <3>1, RankOf, SameBlank
  <2>3. CASE terminal_column # 0
    <3>1. /\ BlanksLeft(p) = Width - terminal_column
          /\ BlanksLeft(p)' = Width - 1 - terminal_column
      BY <2>1, <2>3 DEF BlanksLeft
    <3>2. /\ Width - terminal_column \in Nat /\ Width - 1 - terminal_column \in Nat
          /\ Width - 1 - terminal_column < Width - terminal_column
      BY <1>0
    <3> QED
      BY <2>1, <2>3, <3>1, <3>2, RankOf, NextBlank
  <2> QED
    BY <2>2, <2>3
<1>10. CASE LoadCursor(p) \/ AddColumn(p) \/ UpdateCursor(p)
  <2>1. \/ pc[p] = "cursor" /\ pc'[p] = "addcolumn"
        \/ pc[p] = "addcolumn" /\ pc'[p] = "indexlow"
        \/ pc[p] = "indexlow" /\ pc'[p] = "datalow"
        \/ pc[p] = "datalow" /\ pc'[p] = "indexhigh"
        \/ pc[p] = "indexhigh" /\ pc'[p] = "datahigh"
        \/ pc[p] = "datahigh" /\ pc'[p] = "idle"
    BY <1>0, <1>10 DEF LoadCursor, AddColumn, UpdateCursor, SelectRegister, WriteRegister
  <2>2. BlanksLeft(p) = 0 /\ BlanksLeft(p)' = 0
    BY <2>1 DEF BlanksLeft
  <2>3. Rank[pc'[p]] \in Nat /\ Rank[pc'[p]] < Rank[pc[p]] /\ Rank[pc[p]] \in Nat
    BY <2>1, RankOf
  <2> QED
    BY <2>2, <2>3, SameBlank
<1> QED
  BY <1>1, <1>2, <1>3, <1>4, <1>5, <1>6, <1>7, <1>8, <1>9, <1>10 DEF Internal

(* A handler's characters become fewer, and its character nearer its end.  *)
LEMMA NearerStep ==
  ASSUME Inv, Inv', [HandlersNext]_handlersVars
  PROVE  [ComesNearer]_handlersVars
<1>1. ASSUME MainStep PROVE StepsLeft("main")' < StepsLeft("main")
  BY <1>1, StepNearer DEF MainStep
<1>2. ASSUME HandlerStep
      PROVE  \/ Len(left') < Len(left)
             \/ left' = left /\ StepsLeft("irq")' < StepsLeft("irq")
  <2>1. CASE Internal("irq")
    <3>1. left' = left
      BY <2>1 DEF Internal, LoadRow, LoadColumn, StoreCell, Advance, WrapColumn, WrapRow,
         ZeroRow, ZeroColumn, TestColumn, LoadCursor, AddColumn, UpdateCursor, SelectRegister,
         WriteRegister, bounds
    <3> QED
      BY <2>1, <3>1, StepNearer
  <2>2. CASE HandlerChar
    <3>1. left # <<>> /\ left' = Tail(left) /\ left \in Seq(Chars \cup {Newline})
      BY <2>2 DEF HandlerChar, Inv, ControlType
    <3>2. Len(left') = Len(left) - 1 /\ Len(left) \in Nat
      BY <3>1, HeadTailProperties, LenProperties
    <3> QED
      BY <3>2
  <2> QED
    BY <1>2, <2>1, <2>2 DEF HandlerStep
<1> QED
  BY <1>1, <1>2 DEF ComesNearer

(* The loop of terminal_clear_rest_of_line ends in any column a handler    *)
(* may leave (tty.c:99-104): each step of the kernel or of a handler       *)
(* brings the character it prints nearer to its end, and however often the *)
(* kernel is interrupted, it is at most MostSteps of its own steps away.   *)
THEOREM PrintsComeNearer ==
  HandlersSpec => []Bounded /\ [][ComesNearer]_handlersVars
BY HandlersInv, StepsBounded, NearerStep, PTL DEF HandlersSpec
=============================================================================
