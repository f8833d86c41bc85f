--------------------------- MODULE InterruptStubs ---------------------------
(***************************************************************************)
(* The assembly stubs through which pekOS enters and leaves its interrupt  *)
(* handlers (exception_caller.S), instruction by instruction, on one kernel*)
(* stack.  An interrupt is taken where interrupts are on, a page fault     *)
(* wherever C code runs: handlers touch pages that are not mapped, and     *)
(* page_fault_handler itself faults once more when map_page looks at a page*)
(* table that is not there.                                                *)
(*                                                                         *)
(* A word of the stack or of a register is a pair of what it is and which; *)
(* the top of the stack is its first element.  The code that runs is a     *)
(* pair of a vector and a place: the stub's next instruction, or one of the*)
(* two places of its C function.                                           *)
(***************************************************************************)
EXTENDS Integers, Sequences

CONSTANTS
  Interrupts,   \* vectors from 32 on that devices use
  Exceptions,   \* vectors below 32 but 14 that happen
  Pages,        \* addresses that are touched without being mapped
  ErrorCodes,   \* error codes of page faults
  MaxDepth      \* bound: handlers on the stack

ASSUME StubsAssumption ==
  /\ Interrupts \subseteq 32 .. 255 /\ Exceptions \subseteq (0 .. 31) \ {14}
  /\ MaxDepth \in Nat

VARIABLES
  ip,           \* the code that runs
  stack, reg,   \* the kernel stack and the registers of pushal
  df, interruptFlag,
  cr2,
  interrupted   \* history: what each interruption found, the last one first

stubsVars == <<ip, stack, reg, df, interruptFlag, cr2, interrupted>>

KernelCode == <<-1, 0>>
Astray == <<-1, -2>>
CalledAt(v) == <<v, -1>>   \* the first instruction of the C function
BodyOf(v) == <<v, 0>>

General == <<"edi", "esi", "ebp", "esp", "ebx", "edx", "ecx", "eax">>  \* as pushal leaves them
CalleeSaved == <<"edi", "esi", "ebp", "ebx">>

Slot(order, x) == CHOOSE k \in 1 .. Len(order) : order[k] = x

WithErrorCode == {8, 10, 11, 12, 13, 14, 17, 30}

(* Names that end in capitals are faulty variants of the definition that   *)
(* follows; nothing uses them.                                             *)
PageFaultStub_ERROR_CODE_LEFT ==
  <<"pushal", "mov_cr2", "push_error", "push_eax", "cld", "call", "drop", "drop", "popal", "iret">>

PageFaultStub_ADDRESS_FIRST ==
  <<"pushal", "mov_cr2", "push_eax", "push_error", "cld", "call", "drop", "drop", "popal",
    "drop", "iret">>

PageFaultStub ==
  <<"pushal", "mov_cr2", "push_error", "push_eax", "cld", "call", "drop", "drop", "popal",
    "drop", "iret">>

Stub(v) ==
  CASE v = 14 -> PageFaultStub
    [] v < 32 /\ v # 14 -> <<"call", "iret">>
    [] v = 48 -> <<"pushal", "cld", "call", "popal", "iret">>
    [] v >= 32 /\ v # 48 -> <<"pushal", "push_number", "cld", "call", "pop_eax", "popal", "iret">>

(* The boot loader leaves the direction flag as it likes.                  *)
StubsInit ==
  /\ ip = KernelCode
  /\ stack = <<>> /\ reg = [x \in {General[k] : k \in 1 .. 8} |-> <<"kernel", x>>]
  /\ df \in BOOLEAN /\ interruptFlag \in BOOLEAN
  /\ cr2 = <<"address", 0>> /\ interrupted = <<>>

-----------------------------------------------------------------------------
(* The processor takes vector v.                                           *)

Take(v, error) ==
  /\ Len(interrupted) < MaxDepth
  /\ interrupted' = <<[vector |-> v, ip |-> ip, stack |-> stack, reg |-> reg, df |-> df,
                       interruptFlag |-> interruptFlag, error |-> error, cr2 |-> cr2']>>
                       \o interrupted
  /\ stack' = (IF v \in WithErrorCode THEN <<<<"error", error>>>> ELSE <<>>)
                \o <<<<"eip", ip>>, <<"cs", 8>>, <<"eflags", <<df, interruptFlag>>>>>>
                \o stack
  /\ ip' = <<v, 1>> /\ interruptFlag' = FALSE
  /\ UNCHANGED <<reg, df>>

CCode == ip = KernelCode \/ \E v \in Interrupts \cup {14} : ip = BodyOf(v)

Interrupt(v) == CCode /\ interruptFlag /\ UNCHANGED cr2 /\ Take(v, 0)

PageFault(a, e) == CCode /\ cr2' = <<"address", a>> /\ Take(14, e)

Exception(v) == CCode /\ UNCHANGED cr2 /\ Take(v, 0)

-----------------------------------------------------------------------------
(* An instruction of a stub *)

Vector == ip[1]
At(instruction) ==
  ip[2] > 0 /\ Stub(Vector)[ip[2]] = instruction
NextIp == <<Vector, ip[2] + 1>>
Push(w) == stack' = <<w>> \o stack
Below(n) == SubSeq(stack, n + 1, Len(stack))

Moves ==
  /\ \/ At("pushal") /\ stack' = [k \in 1 .. 8 |-> reg[General[k]]] \o stack /\ UNCHANGED <<reg, df>>
     \/ At("mov_cr2") /\ reg' = [reg EXCEPT !["eax"] = cr2] /\ UNCHANGED <<stack, df>>
     \/ At("push_error") /\ Push(stack[32 \div 4 + 1]) /\ UNCHANGED <<reg, df>>
     \/ At("push_eax") /\ Push(reg["eax"]) /\ UNCHANGED <<reg, df>>
     \/ At("push_number") /\ Push(<<"number", Vector>>) /\ UNCHANGED <<reg, df>>
     \/ At("cld") /\ df' = FALSE /\ UNCHANGED <<stack, reg>>
     \/ At("drop") /\ stack' = Below(1) /\ UNCHANGED <<reg, df>>
     \/ At("pop_eax") /\ reg' = [reg EXCEPT !["eax"] = stack[1]] /\ stack' = Below(1) /\ UNCHANGED df
  /\ ip' = NextIp /\ UNCHANGED <<interruptFlag, cr2, interrupted>>

(* All registers but esp come from the stack.                              *)
PopAll ==
  /\ At("popal")
  /\ reg' = [x \in DOMAIN reg |->
               IF x = "esp" THEN reg[x] ELSE stack[Slot(General, x)]]
  /\ stack' = Below(8) /\ ip' = NextIp
  /\ UNCHANGED <<df, interruptFlag, cr2, interrupted>>

Call ==
  /\ At("call") /\ Push(<<"eip", NextIp>>) /\ ip' = CalledAt(Vector)
  /\ UNCHANGED <<reg, df, interruptFlag, cr2, interrupted>>

(* What is not a return address where one should be sends the processor    *)
(* astray.                                                                 *)
Iret ==
  /\ At("iret")
  /\ IF stack[1][1] = "eip" /\ stack[3][1] = "eflags"
     THEN ip' = stack[1][2] /\ df' = stack[3][2][1] /\ interruptFlag' = stack[3][2][2]
     ELSE ip' = Astray /\ UNCHANGED <<df, interruptFlag>>
  /\ stack' = Below(3) /\ interrupted' = Tail(interrupted)
  /\ UNCHANGED <<reg, cr2>>

(* The C function that a stub calls keeps to the calling convention: it    *)
(* saves four registers and may use the others and its arguments.          *)
EnterFunction ==
  /\ ip = CalledAt(Vector)
  /\ stack' = [k \in 1 .. 4 |-> reg[CalleeSaved[k]]] \o stack
  /\ reg' = [x \in DOMAIN reg |-> IF x = "esp" THEN reg[x] ELSE <<"own", Len(interrupted)>>]
  /\ ip' = BodyOf(Vector)
  /\ UNCHANGED <<df, interruptFlag, cr2, interrupted>>

(* exception_handler never returns: it halts with interrupts off.          *)
LeaveFunction ==
  /\ ip = BodyOf(Vector) /\ Vector \in Interrupts \cup {14}
  /\ reg' = [x \in DOMAIN reg |->
               IF \E k \in 1 .. 4 : CalleeSaved[k] = x
               THEN stack[Slot(CalleeSaved, x)] ELSE reg[x]]
  /\ ip' = stack[5][2] /\ stack' = Below(5)
  /\ UNCHANGED <<df, interruptFlag, cr2, interrupted>>

StubsNext ==
  \/ \E v \in Interrupts : Interrupt(v)
  \/ \E a \in Pages, e \in ErrorCodes : PageFault(a, e)
  \/ \E v \in Exceptions : Exception(v)
  \/ Moves \/ PopAll \/ Call \/ Iret \/ EnterFunction \/ LeaveFunction

-----------------------------------------------------------------------------
(* Properties *)

(* iret gives the processor back as the interruption found it: the code,   *)
(* the stack, all registers and the flags, whatever happened in between.   *)
(* exception_caller.S:43 asks it of the last instruction before the iret of*)
(* the page fault's stub: "is this correct? check later".                  *)
Resumes ==
  [][Len(interrupted') < Len(interrupted) =>
       LET was == Head(interrupted) IN
       /\ ip' = was.ip /\ stack' = was.stack /\ reg' = was.reg
       /\ df' = was.df /\ interruptFlag' = was.interruptFlag]_stubsVars

(* A handler that returns is called with the arguments it is declared with,*)
(* page_fault_handler with the address and the error code of the fault that*)
(* is being served even when it interrupted another one, and with the      *)
(* direction flag clear, as compiled code expects it.                      *)
CalledInOrder ==
  ip = CalledAt(Vector) /\ Vector \in Interrupts \cup {14} =>
    LET was == Head(interrupted) IN
    /\ ~df /\ Vector = was.vector
    /\ CASE Vector = 14 -> stack[2] = was.cr2 /\ stack[3] = <<"error", was.error>>
         [] Vector = 48 -> TRUE
         [] OTHER -> stack[2] = <<"number", Vector>>
=============================================================================
