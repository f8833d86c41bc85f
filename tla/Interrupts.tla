----------------------------- MODULE Interrupts -----------------------------
(***************************************************************************)
(* Interrupt delivery and acknowledgement in pekOS: init_idt (idt.c), the  *)
(* stubs of exception_caller.S, the handlers of exception_handler.c, and   *)
(* the programming of the local APIC and the I/O APIC in apic.c.           *)
(*                                                                         *)
(* All 256 gates are interrupt gates (0x8E), so a handler runs with        *)
(* interrupts off and is never interrupted; iret turns them on again.  The *)
(* 8259 PICs stay masked after init_pic and deliver nothing.               *)
(*                                                                         *)
(* The hardware: an edge on an unmasked I/O APIC pin sets the request bit  *)
(* of the vector it is redirected to (edges on a masked pin are lost); the *)
(* local APIC delivers the highest requested vector when its class, the    *)
(* vector divided by 16, is above that of the highest one in service; a    *)
(* write to the EOI register ends the highest one in service.              *)
(***************************************************************************)
EXTENDS Integers

CONSTANTS
  Pins,        \* I/O APIC pins with a device behind them (of 0 .. 15)
  ApicBases,   \* pages where the firmware may have put the local APIC
  MaxEvents    \* bound: edges and timer ticks

None == 0
AllPins == 0 .. 15
TimerVector == 48
KeyboardVector == 50
PinVector(i) == 48 + i + 1
Vectors == {TimerVector} \cup {PinVector(i) : i \in AllPins}
Class(v) == v \div 16

ASSUME InterruptsAssumption ==
  Pins \subseteq AllPins /\ MaxEvents \in Nat /\ ApicBases \subseteq Nat \ {0}

VARIABLES
  stage,       \* how far kernel_main has come
  msr,         \* msr_available
  apicBase,    \* the page of the local APIC's registers
  localApic,   \* the page mapped at local_apic1_virt_addr, or None
  nextPin,     \* the pin the loop of init_apic programs next
  unmasked,    \* pins whose mask bit is clear
  redirect,    \* vector of each pin, None at reset
  irr, isr,    \* requested and in-service bits of the local APIC
  running,     \* the vector whose handler runs, or None
  eois,        \* EOI writes it has yet to make
  events       \* for the bound

base == <<msr, apicBase, localApic>>
vars == <<stage, base, nextPin, unmasked, redirect, irr, isr, running, eois, events>>

Init ==
  /\ stage = "cli" /\ nextPin = 0
  /\ msr \in BOOLEAN /\ apicBase \in ApicBases /\ localApic = None
  /\ unmasked = {} /\ redirect = [i \in AllPins |-> None]
  /\ irr = {} /\ isr = {} /\ running = None /\ eois = 0
  /\ events = 0

-----------------------------------------------------------------------------
(* kernel_main; it moves only while no handler runs.                       *)
(* Names that end in capitals are faulty variants of the definition that   *)
(* follows; nothing uses them.                                             *)

Advance(from, to) == running = None /\ stage = from /\ stage' = to

(* init_idt: lidt, sti *)
EnableInterrupts ==
  /\ Advance("cli", "sti")
  /\ UNCHANGED <<base, nextPin, unmasked, redirect, irr, isr, running, eois, events>>

(* init_apic returns: no MADT, or a processor without an APIC.             *)
NoApic ==
  /\ Advance("sti", "no apic")
  /\ UNCHANGED <<base, nextPin, unmasked, redirect, irr, isr, running, eois, events>>

(* From here on local_apic1_virt_addr is where the MSR, or the MADT, says  *)
(* that the APIC is.                                                       *)
MapLocalApic ==
  /\ Advance("sti", "mapped")
  /\ localApic' = apicBase
  /\ UNCHANGED <<msr, apicBase, nextPin, unmasked, redirect, irr, isr, running, eois, events>>

(* enable_apic writes the base back with the mask 0xfffff0000, which has a *)
(* digit too many: 16 bits are cleared, not 12.                            *)
EnableApic ==
  /\ Advance("mapped", "enabled")
  /\ apicBase' = IF msr THEN apicBase - (apicBase % 16) ELSE apicBase
  /\ UNCHANGED <<msr, localApic, nextPin, unmasked, redirect, irr, isr, running, eois, events>>

StartTimer_BEFORE_MAPPING ==
  /\ Advance("sti", "ticking")
  /\ UNCHANGED <<base, nextPin, unmasked, redirect, irr, isr, running, eois, events>>

(* Spurious vector register, task priority, apic_start_timer               *)
StartTimer ==
  /\ Advance("enabled", "ticking")
  /\ UNCHANGED <<base, nextPin, unmasked, redirect, irr, isr, running, eois, events>>

(* init_apic returns: the MADT has no I/O APIC.                            *)
NoIoApic ==
  /\ nextPin = 0 /\ Advance("ticking", "no io apic")
  /\ UNCHANGED <<base, nextPin, unmasked, redirect, irr, isr, running, eois, events>>

(* One turn of the loop: the low word is replaced by the vector, which     *)
(* makes the pin edge triggered, and the mask bit is cleared but for pin 2.*)
ProgramPin ==
  /\ running = None /\ stage = "ticking" /\ nextPin < 16
  /\ redirect' = [redirect EXCEPT ![nextPin] = PinVector(nextPin)]
  /\ unmasked' = IF nextPin = 2 THEN unmasked ELSE unmasked \cup {nextPin}
  /\ nextPin' = nextPin + 1
  /\ UNCHANGED <<stage, base, irr, isr, running, eois, events>>

-----------------------------------------------------------------------------
(* Devices and the local APIC *)

MoreEvents == events < MaxEvents /\ events' = events + 1

Tick ==
  /\ stage \in {"ticking", "no io apic"} /\ MoreEvents
  /\ irr' = irr \cup {TimerVector}
  /\ UNCHANGED <<stage, base, nextPin, unmasked, redirect, isr, running, eois>>

Edge(i) ==
  /\ i \in unmasked /\ MoreEvents
  /\ irr' = irr \cup {redirect[i]}
  /\ UNCHANGED <<stage, base, nextPin, unmasked, redirect, isr, running, eois>>

Deliverable(v) ==
  /\ v \in irr
  /\ \A w \in irr : w <= v
  /\ \A w \in isr : Class(w) < Class(v)

(* The EOI writes of the handler that the stub of vector v calls:          *)
(* system_timer_interrupt, test_kbd_interrupt (one in the switch, one after*)
(* it) and exception_handler_code.                                         *)
Acknowledgements_NONE_IN_SWITCH(v) ==
  CASE v = TimerVector -> 1
    [] v = KeyboardVector -> 0
    [] v # KeyboardVector /\ v > 48 /\ v < 64 -> 1
    [] OTHER -> 0

Acknowledgements(v) ==
  CASE v = TimerVector -> 1
    [] v = KeyboardVector -> 2
    [] v # KeyboardVector /\ v > 48 /\ v < 64 -> 1
    [] OTHER -> 0

Deliver(v) ==
  /\ stage # "cli" /\ running = None /\ Deliverable(v)
  /\ irr' = irr \ {v} /\ isr' = isr \cup {v}
  /\ running' = v /\ eois' = Acknowledgements(v)
  /\ UNCHANGED <<stage, base, nextPin, unmasked, redirect, events>>

(* apic_send_eoi *)
WriteEOI == isr' = {v \in isr : \E w \in isr : w > v}

SendEOI ==
  /\ running # None /\ eois > 0
  /\ WriteEOI
  /\ eois' = eois - 1
  /\ UNCHANGED <<stage, base, nextPin, unmasked, redirect, irr, running, events>>

(* iret *)
Iret ==
  /\ running # None /\ eois = 0
  /\ running' = None
  /\ UNCHANGED <<stage, base, nextPin, unmasked, redirect, irr, isr, eois, events>>

Handler == SendEOI \/ Iret

Next == \/ EnableInterrupts \/ NoApic \/ MapLocalApic \/ EnableApic
        \/ StartTimer \/ NoIoApic \/ ProgramPin
        \/ Tick \/ (\E i \in Pins : Edge(i))
        \/ (\E v \in Vectors : Deliver(v)) \/ Handler

(* The local APIC delivers what it can; the processor executes handlers.   *)
Fairness == WF_vars(\E v \in Vectors : Deliver(v)) /\ WF_vars(Handler)

Spec == Init /\ [][Next]_vars /\ Fairness

-----------------------------------------------------------------------------
(* Properties *)

(* The request and in-service bits are of vectors that the kernel set up.  *)
TypeOK ==
  /\ stage \in {"cli", "sti", "no apic", "mapped", "enabled", "ticking", "no io apic"}
  /\ msr \in BOOLEAN /\ apicBase \in ApicBases /\ localApic \in ApicBases \cup {None}
  /\ nextPin \in 0 .. 16 /\ unmasked \in SUBSET AllPins
  /\ redirect \in [AllPins -> Vectors \cup {None}]
  /\ irr \in SUBSET Vectors /\ isr \in SUBSET Vectors
  /\ running \in Vectors \cup {None} /\ eois \in 0 .. 2
  /\ events \in 0 .. MaxEvents

(* Every handler acknowledges its interrupt: nothing is in service when    *)
(* none runs.  init_apic says "map IOAPIC interrupts to interrupt vectors  *)
(* [49 ~ 64]" (apic.c:142), so the handlers of exception_handler.c must    *)
(* acknowledge all of these; one bit left over silences the timer and the  *)
(* keyboard for good.                                                      *)
NothingLeftInService == running = None => isr = {}

(* Handlers write to the EOI register where it is: apic_send_eoi does not  *)
(* test local_apic1_virt_addr, interrupts are enabled well before it is    *)
(* set (kernel.c:34-38), and enable_apic may move the registers after the  *)
(* page has been mapped.                                                   *)
AcknowledgesReachApic == running # None => localApic = apicBase

(* The cascade pin stays masked (apic.c:147), although it is given a       *)
(* vector like the others: no interrupt with that vector is requested, in  *)
(* service or handled, whichever pin it might come from.                   *)
CascadeSilent ==
  2 \notin unmasked /\ PinVector(2) \notin irr \cup isr /\ running # PinVector(2)

(* Every interrupt that was requested is handled in the end.               *)
Served == \A v \in Vectors : v \in irr ~> running = v
=============================================================================
