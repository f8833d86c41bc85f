------------------------------ MODULE Handlers ------------------------------
(***************************************************************************)
(* Interrupt handlers from both ends: in Terminal the keyboard handler runs*)
(* whole between two accesses of the code it interrupts and leaves nothing *)
(* changed but memory and ports; InterruptStubs shows that it may, because *)
(* the stubs give back everything else.  One of the two moves in a         *)
(* behaviour: Terminal when the stubs are nowhere.                         *)
(***************************************************************************)
EXTENDS Terminal, InterruptStubs

handlersVars == <<vars, stubsVars>>

Nowhere == <<-1, -3>>

NoStubs ==
  /\ ip = Nowhere /\ stack = <<>> /\ reg = <<>> /\ df = FALSE /\ interruptFlag = TRUE
  /\ cr2 = <<"address", 0>> /\ interrupted = <<>>

HandlersInit == Init /\ (StubsInit \/ NoStubs)

Printing == ip = Nowhere /\ UNCHANGED stubsVars

CallStep == Printing /\ \E x \in Chars \cup {Newline} : PrintChar(x)
MainStep == Printing /\ Internal("main")
KeyStep == Printing /\ KeyInterrupt
HandlerStep == Printing /\ (Internal("irq") \/ HandlerChar)
StubStep == StubsNext /\ UNCHANGED vars

HandlersNext == CallStep \/ MainStep \/ KeyStep \/ HandlerStep \/ StubStep

(* The processor executes the next instruction of whichever code it is in. *)
HandlersSpec ==
  /\ HandlersInit /\ [][HandlersNext]_handlersVars
  /\ WF_handlersVars(MainStep) /\ WF_handlersVars(HandlerStep)
=============================================================================
