---------------------------- MODULE KernelProofs ----------------------------
(***************************************************************************)
(* The start-up of the kernel as a whole: what is proved of its parts      *)
(* holds when they run together, for any devices, firmware, chip at the    *)
(* serial port, and number and place of the gates.                         *)
(***************************************************************************)
EXTENDS Kernel, PicProofs, SequenceTheorems, TLAPS

-----------------------------------------------------------------------------
(* Interrupts by themselves: every one is acknowledged by its handler,     *)
(* whatever devices are on the pins of the I/O APIC, pin 15 excepted.      *)

(* The vectors that can be requested: 48 .. 63 but the cascade's.          *)
Live == {TimerVector} \cup {PinVector(i) : i \in Pins \ {2}}

(* A pin is unmasked only with its own vector, and never pin 2.            *)
PinsProgrammed ==
  /\ nextPin \in Nat /\ redirect \in [AllPins -> Nat]
  /\ \A i \in AllPins : i \in unmasked => i # 2 /\ redirect[i] = PinVector(i)

Ticking == {"ticking", "no io apic"}

(* Nothing is requested before the local APIC is mapped.                   *)
MappedFirst ==
  /\ apicBase \in ApicBases
  /\ stage \in Ticking \cup {"mapped", "enabled"} => localApic = apicBase
  /\ unmasked # {} => stage \in Ticking
  /\ irr # {} => stage \in Ticking
  /\ running # None => stage \in Ticking

(* Handlers do not nest, and one whose bit is still set has an EOI to make.*)
OneInService ==
  /\ irr \subseteq Live
  /\ running \in Live \cup {None} /\ eois \in Nat
  /\ isr = {} \/ (isr = {running} /\ running # None /\ eois > 0)

Inv == PinsProgrammed /\ MappedFirst /\ OneInService

LEMMA LiveVectors == \A v \in Live : /\ v \in 48 .. 63 /\ v # PinVector(2)
                                     /\ Acknowledgements(v) \in Nat \ {0}
BY InterruptsAssumption, QuietPin
   DEF InterruptsAssumption, QuietPin, Live, PinVector, AllPins, TimerVector,
       KeyboardVector, Acknowledgements

LEMMA InvInit == Init => Inv
BY DEF Init, Inv, PinsProgrammed, MappedFirst, OneInService, None, Ticking

(* The base of the local APIC stays where it is.                           *)
LEMMA BaseStays == ASSUME MappedFirst, EnableApic PROVE apicBase' = apicBase
<1>1. apicBase \in Nat
  BY InterruptsAssumption DEF InterruptsAssumption, MappedFirst
<1>2. apicBase % 16 = 0
  BY AlignedBase DEF AlignedBase, MappedFirst
<1>3. apicBase - 0 = apicBase
  BY <1>1
<1> QED BY <1>2, <1>3, Zenon DEF EnableApic

LEMMA InvNext == Inv /\ [Next]_vars => Inv'
<1> SUFFICES ASSUME Inv, [Next]_vars PROVE Inv'
  OBVIOUS
<1> USE DEF Inv
<1>1. CASE EnableInterrupts \/ NoApic \/ MapLocalApic \/ StartTimer \/ NoIoApic
  BY <1>1 DEF EnableInterrupts, NoApic, MapLocalApic, StartTimer, NoIoApic, Advance, base,
     PinsProgrammed, MappedFirst, OneInService, Ticking
<1>9. CASE EnableApic
  <2>1. apicBase' = apicBase /\ localApic' = localApic
    BY <1>9, BaseStays DEF EnableApic
  <2> QED
    BY <1>9, <2>1 DEF EnableApic, Advance, PinsProgrammed, MappedFirst, OneInService, Ticking
<1>2. CASE ProgramPin
  <2>1. PinsProgrammed'
    <3>1. nextPin \in AllPins /\ PinVector(nextPin) \in Nat
      BY <1>2 DEF ProgramPin, PinsProgrammed, PinVector, AllPins
    <3>2. nextPin' \in Nat /\ redirect' \in [AllPins -> Nat]
      BY <1>2, <3>1 DEF ProgramPin, PinsProgrammed
    <3>3. ASSUME NEW i \in AllPins, i \in unmasked'
          PROVE  i # 2 /\ redirect'[i] = PinVector(i)
      <4>1. CASE i = nextPin
        <5>1. i # 2
          BY <1>2, <3>3, <4>1 DEF ProgramPin, PinsProgrammed
        <5> QED
          BY <1>2, <3>1, <4>1, <5>1 DEF ProgramPin, PinsProgrammed
      <4>2. CASE i # nextPin
        <5>1. i \in unmasked
          BY <1>2, <3>3, <4>2 DEF ProgramPin
        <5> QED
          BY <1>2, <3>1, <4>2, <5>1 DEF ProgramPin, PinsProgrammed
      <4> QED BY <4>1, <4>2
    <3> QED BY <3>2, <3>3 DEF PinsProgrammed
  <2> QED
    BY <1>2, <2>1 DEF ProgramPin, base, MappedFirst, OneInService, Ticking
<1>3. CASE Tick
  BY <1>3 DEF Tick, base, PinsProgrammed, MappedFirst, OneInService, Live, Ticking
<1>4. CASE \E i \in Pins : Edge(i)
  <2>1. PICK i \in Pins : Edge(i)
    BY <1>4
  <2>2. redirect[i] \in Live /\ stage \in Ticking
    BY <2>1, InterruptsAssumption
       DEF InterruptsAssumption, Edge, PinsProgrammed, MappedFirst, Live
  <2> QED
    BY <2>1, <2>2 DEF Edge, base, PinsProgrammed, MappedFirst, OneInService
<1>5. CASE \E v \in Vectors : Deliver(v)
  <2>1. PICK v \in Vectors : Deliver(v)
    BY <1>5
  <2>2. v \in Live /\ v # None /\ Acknowledgements(v) \in Nat \ {0} /\ isr = {}
    BY <2>1, LiveVectors DEF Deliver, Deliverable, OneInService, None
  <2> QED
    BY <2>1, <2>2 DEF Deliver, Deliverable, base, PinsProgrammed, MappedFirst, OneInService
<1>6. CASE SendEOI
  <2>1. isr' = {}
    BY <1>6, LiveVectors DEF SendEOI, WriteEOI, OneInService
  <2> QED
    BY <1>6, <2>1 DEF SendEOI, base, PinsProgrammed, MappedFirst, OneInService
<1>7. CASE Iret
  BY <1>7 DEF Iret, base, PinsProgrammed, MappedFirst, OneInService
<1>8. CASE UNCHANGED vars
  BY <1>8 DEF vars, base, PinsProgrammed, MappedFirst, OneInService
<1> QED
  BY <1>1, <1>2, <1>3, <1>4, <1>5, <1>6, <1>7, <1>8, <1>9 DEF Next, Handler

LEMMA InvHolds == Spec => []Inv
BY InvInit, InvNext, PTL DEF Spec

(* When no handler runs no vector is in service, so every request can be   *)
(* delivered: the EOIs of exception_handler.c cover all vectors in use.    *)
THEOREM AllAcknowledged == Spec => []NothingLeftInService
<1>1. Inv => NothingLeftInService
  BY DEF Inv, OneInService, NothingLeftInService
<1> QED
  BY <1>1, InvHolds, PTL

(* apic_send_eoi never runs while local_apic1_virt_addr is unset.          *)
THEOREM AcknowledgedAtApic == Spec => []AcknowledgesReachApic
<1>1. Inv => AcknowledgesReachApic
  BY DEF Inv, MappedFirst, AcknowledgesReachApic, Ticking
<1> QED
  BY <1>1, InvHolds, PTL

(* The cascade pin is never unmasked, and its vector is never requested,   *)
(* in service or handled (apic.c:143-148).                                 *)
THEOREM CascadeStaysSilent == Spec => []CascadeSilent
<1>1. Inv => CascadeSilent
  <2> SUFFICES ASSUME Inv PROVE CascadeSilent
    OBVIOUS
  <2>1. PinVector(2) \notin Live /\ PinVector(2) # None
    BY LiveVectors DEF PinVector, None
  <2>2. 2 \notin unmasked
    BY DEF Inv, PinsProgrammed, AllPins
  <2> QED
    BY <2>1, <2>2 DEF Inv, OneInService, CascadeSilent
<1> QED
  BY <1>1, InvHolds, PTL

LEMMA InitType == Init => TypeOK
<1> SUFFICES ASSUME Init PROVE TypeOK
  OBVIOUS
<1>1. 0 \in 0 .. 16 /\ 0 \in 0 .. 2 /\ 0 \in 0 .. MaxEvents
  BY InterruptsAssumption DEF InterruptsAssumption
<1>2. redirect \in [AllPins -> Vectors \cup {None}]
  BY DEF Init
<1> QED
  BY <1>1, <1>2 DEF Init, TypeOK

LEMMA CountStays == ASSUME events \in 0 .. MaxEvents, MoreEvents
                    PROVE  events' \in 0 .. MaxEvents
BY InterruptsAssumption DEF InterruptsAssumption, MoreEvents

LEMMA Vectored == \A v \in Vectors : v \in Nat
BY DEF Vectors, TimerVector, PinVector, AllPins

LEMMA AtMostTwo == ASSUME NEW v \in Nat PROVE Acknowledgements(v) \in 0 .. 2
BY DEF Acknowledgements, TimerVector, KeyboardVector

LEMMA TypeNext == TypeOK /\ Inv /\ [Next]_vars => TypeOK'
<1> SUFFICES ASSUME TypeOK, Inv, [Next]_vars PROVE TypeOK'
  OBVIOUS
<1> USE DEF TypeOK
<1>1. CASE EnableInterrupts \/ NoApic \/ MapLocalApic \/ StartTimer \/ NoIoApic
  BY <1>1 DEF EnableInterrupts, NoApic, MapLocalApic, StartTimer, NoIoApic, Advance, base
<1>9. CASE EnableApic
  BY <1>9, BaseStays DEF EnableApic, Advance, Inv
<1>2. CASE ProgramPin
  <2>1. nextPin \in AllPins /\ PinVector(nextPin) \in Vectors
    BY <1>2 DEF ProgramPin, AllPins, Vectors
  <2>2. /\ redirect' \in [AllPins -> Vectors \cup {None}] /\ nextPin' \in 0 .. 16
        /\ unmasked' \in SUBSET AllPins
    BY <1>2, <2>1 DEF ProgramPin, AllPins
  <2> QED BY <1>2, <2>2 DEF ProgramPin, base
<1>3. CASE Tick
  <2>1. events' \in 0 .. MaxEvents
    BY <1>3, CountStays DEF Tick
  <2>2. irr' \in SUBSET Vectors
    BY <1>3 DEF Tick, Vectors
  <2> QED BY <1>3, <2>1, <2>2 DEF Tick, base
<1>4. CASE \E i \in Pins : Edge(i)
  <2>1. PICK i \in Pins : Edge(i)
    BY <1>4
  <2>2. i \in AllPins /\ redirect[i] = PinVector(i)
    BY <2>1 DEF Edge, Inv, PinsProgrammed
  <2>3. redirect[i] \in Vectors
    BY <2>2 DEF Vectors
  <2>4. events' \in 0 .. MaxEvents
    BY <2>1, CountStays DEF Edge
  <2>5. irr' \in SUBSET Vectors
    BY <2>1, <2>3 DEF Edge
  <2> QED
    BY <2>1, <2>4, <2>5 DEF Edge, base
<1>5. CASE \E v \in Vectors : Deliver(v)
  <2>1. PICK v \in Vectors : Deliver(v)
    BY <1>5
  <2>2. Acknowledgements(v) \in 0 .. 2
    BY Vectored, AtMostTwo
  <2>3. /\ running' \in Vectors \cup {None} /\ eois' \in 0 .. 2
        /\ irr' \in SUBSET Vectors /\ isr' \in SUBSET Vectors
    BY <2>1, <2>2 DEF Deliver
  <2> QED BY <2>1, <2>3 DEF Deliver, base
<1>6. CASE SendEOI
  <2>1. isr' \in SUBSET Vectors
    BY <1>6 DEF SendEOI, WriteEOI
  <2>2. eois' \in 0 .. 2
    <3>1. eois > 0 /\ eois' = eois - 1
      BY <1>6, Zenon DEF SendEOI
    <3>2. eois \in 0 .. 2
      BY Zenon
    <3> HIDE DEF TypeOK
    <3> QED BY <3>1, <3>2
  <2> QED BY <1>6, <2>1, <2>2 DEF SendEOI, base
<1>7. CASE Iret
  BY <1>7 DEF Iret, base
<1>8. CASE UNCHANGED vars
  BY <1>8 DEF vars, base
<1> QED
  BY <1>1, <1>2, <1>3, <1>4, <1>5, <1>6, <1>7, <1>8, <1>9 DEF Next, Handler

(* Only vectors that init_apic programmed are ever requested or in service *)
(* (apic.c:142-160), and handlers make at most two EOI writes.             *)
THEOREM TypeCorrect == Spec => []TypeOK
BY InitType, TypeNext, InvHolds, PTL DEF Spec

-----------------------------------------------------------------------------
(* Interrupts, with the rest of the kernel                                 *)

(* With drivers of legacy lines the kernel stays where interrupts are off  *)
(* and the local APIC has nothing in service.                              *)
DriversAlone ==
  /\ code # 0 => drivers
  /\ drivers => stage = "cli" /\ running = None /\ isr = {}

LEMMA DriversAloneNext ==
  ASSUME DriversAlone, [KernelNext]_kernelVars PROVE DriversAlone'
<1> USE DEF DriversAlone, RestOf
<1>1. CASE UNCHANGED kernelVars
  BY <1>1 DEF kernelVars, vars, picVars
<1>2. CASE SerialStep \/ ChipStep \/ DescriptorStep \/ EnableInterruptsStep
  BY <1>2 DEF SerialStep, ChipStep, DescriptorStep, EnableInterruptsStep, SetUp, vars, picVars
<1>3. CASE PicStep
  BY <1>3 DEF PicStep, PicKernel, SaveMasks, InitWrite, vars
<1>4. CASE LineStep
  BY <1>4 DEF LineStep, PicDevices, Raise, vars
<1>5. CASE DriverStep
  <2>1. drivers /\ drivers' = drivers
    BY <1>5 DEF DriverStep, PicDrivers, Driver, AllMasks, SetMasks, IRQ_set_mask, IRQ_clear_mask,
                Acknowledge, LegacyHandler
  <2>2. UNCHANGED <<stage, running>> /\ isr' = {}
    BY <1>5, <2>1 DEF DriverStep, WriteEOI
  <2> QED BY <2>1, <2>2
<1>6. CASE ApicStep \/ DeliverStep \/ HandlerStep \/ EventStep
  <2>1. drivers' = drivers /\ code' = code
    BY <1>6 DEF ApicStep, DeliverStep, HandlerStep, EventStep, picVars
  <2>2. drivers => UNCHANGED <<stage, running, isr>>
    BY <1>6 DEF ApicStep, NoApic, MapLocalApic, EnableApic, StartTimer, NoIoApic, ProgramPin, Advance,
                DeliverStep, Deliver, HandlerStep, Handler, SendEOI, Iret, EventStep, Tick, Edge
  <2> QED BY <2>1, <2>2
<1> QED
  BY <1>1, <1>2, <1>3, <1>4, <1>5, <1>6 DEF KernelNext, KernelMain

LEMMA DriversStayAlone == KernelSpec => []DriversAlone
<1>1. KernelInit => DriversAlone
  BY DEF KernelInit, Init, PicInit, DriversAlone
<1> QED
  BY <1>1, DriversAloneNext, PTL DEF KernelSpec

(* The machine does, of interrupts, what Interrupts says or nothing.       *)
LEMMA KernelSteps == DriversAlone /\ [KernelNext]_kernelVars => [Next]_vars
<1> SUFFICES ASSUME DriversAlone, [KernelNext]_kernelVars PROVE [Next]_vars
  OBVIOUS
<1>1. CASE UNCHANGED kernelVars
  BY <1>1 DEF kernelVars
<1>2. CASE SerialStep \/ ChipStep \/ PicStep \/ LineStep
  BY <1>2 DEF SerialStep, ChipStep, PicStep, LineStep, RestOf
<1>7. CASE DriverStep
  <2>1. isr' = isr
    BY <1>7 DEF DriverStep, WriteEOI, DriversAlone
  <2> QED BY <1>7, <2>1 DEF DriverStep, vars
<1>3. CASE DescriptorStep
  BY <1>3 DEF DescriptorStep
<1>4. CASE EnableInterruptsStep
  BY <1>4 DEF EnableInterruptsStep, Next
<1>5. CASE ApicStep
  BY <1>5 DEF ApicStep, Next
<1>6. CASE DeliverStep \/ HandlerStep \/ EventStep
  BY <1>6 DEF DeliverStep, HandlerStep, EventStep, Next
<1> QED
  BY <1>1, <1>2, <1>3, <1>4, <1>5, <1>6, <1>7 DEF KernelNext, KernelMain

LEMMA KernelInterrupts == KernelSpec => [](Inv /\ TypeOK)
<1>1. KernelInit => Init
  BY DEF KernelInit
<1>2. Init => TypeOK
  BY InitType
<1> QED
  BY <1>1, <1>2, KernelSteps, DriversStayAlone, InvInit, InvNext, TypeNext, PTL DEF KernelSpec

(* Nothing that runs next to it keeps the kernel from acknowledging every  *)
(* interrupt (exception_handler.c:33-70).                                  *)
THEOREM KernelAcknowledges == KernelSpec => []NothingLeftInService
<1>1. Inv => NothingLeftInService
  BY DEF Inv, OneInService, NothingLeftInService
<1> QED
  BY <1>1, KernelInterrupts, PTL

(* ... and of doing so at the address the local APIC has, as nothing moves *)
(* its base or its mapping while serial port, PICs and segments are set up *)
(* next to it (apic.c:98-121).                                             *)
THEOREM KernelReachesApic == KernelSpec => []AcknowledgesReachApic
<1>1. Inv => AcknowledgesReachApic
  BY DEF Inv, MappedFirst, Ticking, AcknowledgesReachApic
<1> QED
  BY <1>1, KernelInterrupts, PTL

(* The whole kernel is, for its interrupts, what module Interrupts says:   *)
(* serial port, PICs and segments never touch what the handlers rely on    *)
(* (kernel.c:20-44).                                                       *)
THEOREM KernelRunsInterrupts == KernelSpec => Init /\ [][Next]_vars
<1>1. KernelInit => Init
  BY DEF KernelInit
<1> QED
  BY <1>1, KernelSteps, DriversStayAlone, PTL DEF KernelSpec

-----------------------------------------------------------------------------
(* The serial port *)

Letters == {"I", "NL", "R", "F"}

(* The registers after each access of init_serial.                         *)
Registers ==
  /\ accesses \in 0 .. 10
  /\ latch <=> accesses \in 2 .. 4
  /\ divisor = IF accesses < 3 THEN <<1, 0>> ELSE <<BAUD_RATE, 0>>
  /\ accesses > 0 => irqEnable = 0
  /\ modem = CASE accesses < 7 -> 0 [] accesses = 7 -> 11 [] accesses \in {8, 9} -> LOOP
               [] OTHER -> IF chip = "prompt" THEN OPERATION ELSE LOOP
  /\ accesses < 9 => receiver = 0
  /\ accesses = 9 => receiver = IF chip = "prompt" THEN PATTERN ELSE 0

(* The line is used only by a chip in operation.                           *)
LineInv ==
  /\ text \in Seq(Letters) /\ line \in Seq(Letters) /\ sent \in Seq(Letters)
  /\ waiting = <<>> \/ \E b \in Letters : waiting = <<b>>
  /\ accesses < 10 => text = <<>>
  /\ accesses < 10 \/ chip # "prompt" => waiting = <<>> /\ line = <<>> /\ sent = <<>>
  /\ LineCarriesText

SerialInv == Registers /\ LineInv

LEMMA SetupWrites ==
  /\ Len(Setup) = 9
  /\ Setup[1] = <<1, 0>> /\ Setup[2] = <<3, 1>> /\ Setup[3] = <<0, 12>>
  /\ Setup[4] = <<1, 0>> /\ Setup[5] = <<3, 0>> /\ Setup[6] = <<2, 199>>
  /\ Setup[7] = <<4, 11>> /\ Setup[8] = <<4, 30>> /\ Setup[9] = <<0, 174>>
BY DEF Setup, BAUD_RATE, LOOP, PATTERN

LEMMA SerialInitInvariant == SerialInit => SerialInv
<1> SUFFICES ASSUME SerialInit PROVE SerialInv
  OBVIOUS
<1>1. /\ accesses = 0 /\ divisor = <<1, 0>> /\ modem = 0 /\ receiver = 0 /\ waiting = <<>>
      /\ line = <<>> /\ text = <<>> /\ sent = <<>>
  BY DEF SerialInit
<1>2. latch <=> accesses \in 2 .. 4
  BY DEF SerialInit
<1>3. Registers
  BY <1>1, <1>2 DEF Registers
<1>4. <<>> \o <<>> = <<>>
  OBVIOUS
<1>5. LineInv
  BY <1>1, <1>4 DEF LineInv, LineCarriesText
<1> QED BY <1>3, <1>5 DEF SerialInv

LEMMA WriteSetupStep == ASSUME SerialInv, WriteSetup PROVE SerialInv'
<1> DEFINE reg == Setup[accesses + 1][1]
           value == Setup[accesses + 1][2]
<1>1. accesses \in 0 .. 8 /\ accesses' = accesses + 1 /\ UNCHANGED <<chip, line, text, sent>>
  BY SetupWrites DEF WriteSetup, SerialInv, Registers
<1>2. \/ accesses = 0 /\ reg = 1 /\ value = 0
      \/ accesses = 1 /\ reg = 3 /\ value = 1
      \/ accesses = 2 /\ reg = 0 /\ value = 12
      \/ accesses = 3 /\ reg = 1 /\ value = 0
      \/ accesses = 4 /\ reg = 3 /\ value = 0
      \/ accesses = 5 /\ reg = 2 /\ value = 199
      \/ accesses = 6 /\ reg = 4 /\ value = 11
      \/ accesses = 7 /\ reg = 4 /\ value = 30
      \/ accesses = 8 /\ reg = 0 /\ value = 174
  BY <1>1, SetupWrites
<1>3. /\ latch' = IF reg = 3 THEN value = 1 ELSE latch
      /\ divisor' = IF latch /\ reg \in {0, 1} THEN [divisor EXCEPT ![reg + 1] = value] ELSE divisor
      /\ irqEnable' = IF ~latch /\ reg = 1 THEN value ELSE irqEnable
      /\ modem' = IF reg = 4 THEN value ELSE modem
  BY DEF WriteSetup, Out
<1>4. /\ receiver' = IF (~latch /\ reg = 0) /\ modem = LOOP
                     THEN CASE chip = "prompt" -> value [] chip = "faulty" -> 0
                            [] OTHER -> receiver
                     ELSE receiver
      /\ waiting' = IF (~latch /\ reg = 0) /\ modem # LOOP /\ chip # "absent" THEN <<value>>
                    ELSE waiting
  BY DEF WriteSetup, Out
<1> HIDE DEF reg, value
<1> USE DEF SerialInv, Registers, LOOP, PATTERN, OPERATION, BAUD_RATE
<1>5. latch' <=> accesses' \in 2 .. 4
  <2>1. CASE accesses \in {1, 4}
    <3>1. reg = 3 /\ (value = 1 <=> accesses' \in 2 .. 4)
      BY <1>1, <1>2, <2>1
    <3> QED BY <1>3, <3>1, Zenon
  <2>2. CASE accesses \notin {1, 4}
    <3>1. reg # 3 /\ (accesses \in 2 .. 4 <=> accesses' \in 2 .. 4)
      BY <1>1, <1>2, <2>2
    <3> QED BY <1>3, <3>1, Zenon
  <2> QED BY <2>1, <2>2
<1>6. divisor' = IF accesses' < 3 THEN <<1, 0>> ELSE <<BAUD_RATE, 0>>
  <2>1. CASE accesses = 2
    BY <1>1, <1>2, <1>3, <2>1
  <2>2. CASE accesses = 3
    BY <1>1, <1>2, <1>3, <2>2
  <2>3. CASE accesses \notin {2, 3}
    <3>1. ~latch \/ reg \notin {0, 1}
      BY <1>1, <1>2, <2>3
    <3>2. divisor' = divisor
      BY <1>3, <3>1
    <3> QED BY <1>1, <2>3, <3>2
  <2> QED BY <2>1, <2>2, <2>3
<1>7. accesses' > 0 => irqEnable' = 0
  BY <1>1, <1>2, <1>3
<1>8. modem' = CASE accesses' < 7 -> 0 [] accesses' = 7 -> 11 [] accesses' \in {8, 9} -> LOOP
               [] OTHER -> IF chip' = "prompt" THEN OPERATION ELSE LOOP
  BY <1>1, <1>2, <1>3
<1>9. /\ accesses' < 9 => receiver' = 0
      /\ accesses' = 9 => receiver' = IF chip' = "prompt" THEN PATTERN ELSE 0
  BY <1>1, <1>2, <1>4
<1>10. waiting' = waiting
  BY <1>1, <1>2, <1>4
<1>11. Registers'
  BY <1>1, <1>5, <1>6, <1>7, <1>8, <1>9
<1>12. LineInv'
  BY <1>1, <1>10 DEF LineInv, LineCarriesText
<1> QED BY <1>11, <1>12

LEMMA TestStep == ASSUME SerialInv, Test PROVE SerialInv'
<1> USE DEF SerialInv, Registers, LOOP, PATTERN, OPERATION, BAUD_RATE
<1>1. accesses = 9 /\ accesses' = 10 /\ ~latch /\ UNCHANGED <<chip, line, sent>>
  BY SetupWrites DEF Test
<1>2. text = <<>> /\ line = <<>> /\ sent = <<>> /\ waiting = <<>> /\ modem = LOOP
  BY <1>1 DEF LineInv
<1>3. CASE Received # PATTERN
  <2>1. UNCHANGED <<latch, divisor, irqEnable, modem, receiver, waiting, text>>
    BY <1>3 DEF Test
  <2>2. chip # "prompt"
    BY <1>1, <1>3 DEF Received
  <2>3. latch' <=> accesses' \in 2 .. 4
    BY <1>1, <2>1
  <2>4. Registers'
    BY <1>1, <1>2, <2>1, <2>2, <2>3
  <2>5. LineInv'
    BY <1>1, <1>2, <2>1 DEF LineInv, LineCarriesText
  <2> QED BY <2>4, <2>5
<1>4. CASE Received = PATTERN
  <2>1. Out(4, OPERATION) /\ text' = <<"I", "NL">>
    BY <1>4 DEF Test, Greeting
  <2>2. /\ divisor' = divisor /\ irqEnable' = irqEnable /\ modem' = OPERATION
        /\ waiting' = waiting
    BY <1>1, <2>1 DEF Out
  <2>3. latch' = latch
    BY <2>1 DEF Out
  <2>4. chip = "prompt"
    BY <1>1, <1>4 DEF Received
  <2>5. latch' <=> accesses' \in 2 .. 4
    BY <1>1, <2>3
  <2>6. Registers'
    BY <1>1, <1>2, <2>2, <2>4, <2>5
  <2>7. text' \in Seq(Letters)
    BY <2>1 DEF Letters
  <2>8. LineInv'
    BY <1>1, <1>2, <2>2, <2>7 DEF LineInv, LineCarriesText
  <2> QED BY <2>6, <2>8
<1> QED BY <1>3, <1>4

(* Once the port is initialised only data is written to it.                *)
LEMMA DataWrite ==
  ASSUME Registers, accesses = 10, NEW value, Out(0, value), UNCHANGED <<chip, accesses>>
  PROVE  /\ Registers'
         /\ waiting' = IF chip = "prompt" THEN <<value>>
                       ELSE waiting
<1> USE DEF Registers, LOOP, PATTERN, OPERATION, BAUD_RATE
<1>1. /\ divisor' = divisor /\ irqEnable' = irqEnable /\ modem' = modem
      /\ modem = IF chip = "prompt" THEN OPERATION ELSE LOOP
  BY DEF Out
<1>2. latch' = latch /\ ~latch
  BY DEF Out
<1>3. latch' <=> accesses' \in 2 .. 4
  BY <1>2
<1>4. Registers'
  BY <1>1, <1>3
<1>5. waiting' = IF chip = "prompt" THEN <<value>> ELSE waiting
  BY <1>1, <1>2 DEF Out
<1> QED BY <1>4, <1>5

LEMMA WriteSerialStep == ASSUME SerialInv, WriteSerial PROVE SerialInv'
<1>1. /\ text # <<>> /\ Out(0, Head(text)) /\ text' = Tail(text) /\ UNCHANGED <<chip, line, accesses>>
      /\ sent' = IF modem = OPERATION THEN Append(sent, Head(text)) ELSE sent
      /\ TransmitEmpty
  BY DEF WriteSerial, Write
<1>2. /\ accesses = 10 /\ text \in Seq(Letters) /\ line \in Seq(Letters) /\ sent \in Seq(Letters)
      /\ Registers /\ LineInv
  BY <1>1 DEF SerialInv, LineInv, Registers
<1>3. Head(text) \in Letters /\ Tail(text) \in Seq(Letters)
  BY <1>1, <1>2, HeadTailProperties
<1>4. /\ Registers'
      /\ waiting' = IF chip = "prompt" THEN <<Head(text)>> ELSE waiting
  BY <1>1, <1>2, DataWrite
<1>5. CASE chip = "prompt"
  <2>1. waiting = <<>> /\ modem = OPERATION
    BY <1>1, <1>2, <1>5 DEF TransmitEmpty, Registers
  <2>2. line = sent
    BY <1>2, <2>1, ConcatEmptySeq DEF LineInv, LineCarriesText
  <2>3. line' \o waiting' = Append(sent, Head(text))
    BY <1>1, <1>2, <1>3, <1>4, <1>5, <2>2, AppendIsConcat
  <2>4. Append(sent, Head(text)) \in Seq(Letters)
    BY <1>2, <1>3
  <2>5. LineInv'
    BY <1>1, <1>2, <1>3, <1>4, <1>5, <2>1, <2>3, <2>4 DEF LineInv, LineCarriesText
  <2> QED BY <1>4, <2>5 DEF SerialInv
<1>6. CASE chip # "prompt"
  <2>1. modem # OPERATION
    BY <1>2, <1>6 DEF Registers, LOOP, OPERATION
  <2>2. sent' = sent /\ line' = line /\ waiting' = waiting /\ chip' = chip
    BY <1>1, <1>4, <1>6, <2>1
  <2>3. LineInv'
    BY <1>1, <1>2, <1>3, <2>2 DEF LineInv, LineCarriesText
  <2> QED BY <1>4, <2>3 DEF SerialInv
<1> QED BY <1>5, <1>6

(* Steps that touch no register of the driver.                             *)
LEMMA RegistersKept ==
  ASSUME Registers, UNCHANGED <<chip, latch, divisor, irqEnable, modem, receiver, accesses>>
  PROVE  Registers'
<1>1. latch' <=> accesses' \in 2 .. 4
  BY DEF Registers
<1> QED BY <1>1 DEF Registers

LEMMA TransmitStep == ASSUME SerialInv, Transmit PROVE SerialInv'
<1>1. /\ waiting # <<>> /\ line' = Append(line, Head(waiting)) /\ waiting' = <<>>
      /\ UNCHANGED <<chip, latch, divisor, irqEnable, modem, receiver, accesses, text, sent>>
      /\ Registers /\ LineInv
  BY DEF Transmit, SerialInv
<1>2. Registers'
  BY <1>1, RegistersKept
<1>3. PICK b \in Letters : waiting = <<b>>
  BY <1>1 DEF LineInv
<1>4. line \in Seq(Letters) /\ line' = Append(line, b) /\ Append(line, b) \in Seq(Letters)
  BY <1>1, <1>3 DEF LineInv
<1>5. line' \o waiting' = sent'
  <2>1. line' = line \o <<b>>
    BY <1>4, AppendIsConcat
  <2>2. line' \o <<>> = line'
    BY <1>4, ConcatEmptySeq
  <2> QED BY <1>1, <1>3, <2>1, <2>2 DEF LineInv, LineCarriesText
<1>6. accesses' = 10 /\ chip' = "prompt"
  BY <1>1 DEF LineInv, Registers
<1>7. LineInv'
  BY <1>1, <1>4, <1>5, <1>6 DEF LineInv, LineCarriesText
<1> QED BY <1>2, <1>7 DEF SerialInv

LEMMA WriteStringStep ==
  ASSUME SerialInv, NEW s \in Seq(Letters), WriteString(s)
  PROVE  SerialInv'
<1>1. /\ text' = s /\ accesses = 10
      /\ UNCHANGED <<chip, latch, divisor, irqEnable, modem, receiver, waiting, line, accesses, sent>>
      /\ Registers /\ LineInv
  BY SetupWrites DEF WriteString, SerialIdle, Initialised, SerialInv, Registers
<1>2. Registers'
  BY <1>1, RegistersKept
<1>3. LineInv'
  BY <1>1 DEF LineInv, LineCarriesText
<1> QED BY <1>2, <1>3 DEF SerialInv

LEMMA SerialKept == ASSUME SerialInv, UNCHANGED serialVars PROVE SerialInv'
<1>1. UNCHANGED <<chip, latch, divisor, irqEnable, modem, receiver, waiting, line, accesses, text, sent>>
      /\ Registers /\ LineInv
  BY DEF serialVars, SerialInv
<1>2. Registers'
  BY <1>1, RegistersKept
<1> QED
  BY <1>1, <1>2 DEF SerialInv, LineInv, LineCarriesText

LEMMA SerialNext == ASSUME SerialInv, [KernelNext]_kernelVars PROVE SerialInv'
<1> USE DEF RestOf
<1>1. CASE UNCHANGED serialVars
  BY <1>1, SerialKept
<1>2. CASE SerialStep
  BY <1>2, WriteSetupStep, TestStep, WriteSerialStep DEF SerialStep, SerialDriver
<1>3. CASE ChipStep
  BY <1>3, TransmitStep DEF ChipStep
<1>4. CASE PicStep \/ DriverStep \/ LineStep \/ ApicStep \/ DeliverStep \/ HandlerStep \/ EventStep
  <2>1. UNCHANGED serialVars
    BY <1>4 DEF PicStep, DriverStep, LineStep, ApicStep, DeliverStep, HandlerStep, EventStep
  <2> QED BY <2>1, SerialKept
<1>5. <<"R">> \in Seq(Letters) /\ <<"F">> \in Seq(Letters)
  BY DEF Letters
<1>6. CASE DescriptorStep
  <2>1. UNCHANGED serialVars \/ WriteString(<<"R">>)
    BY <1>6 DEF DescriptorStep
  <2> QED BY <1>1, <1>5, <2>1, WriteStringStep
<1>7. CASE EnableInterruptsStep
  <2>1. WriteString(<<"F">>)
    BY <1>7 DEF EnableInterruptsStep
  <2> QED BY <1>5, <2>1, WriteStringStep
<1> QED
  BY <1>1, <1>2, <1>3, <1>4, <1>6, <1>7 DEF KernelNext, KernelMain, kernelVars

LEMMA SerialHolds == KernelSpec => []SerialInv
<1>1. KernelInit => SerialInv
  BY SerialInitInvariant DEF KernelInit
<1> QED
  BY <1>1, SerialNext, PTL DEF KernelSpec

(* write_serial loses no character and sends none twice, whatever chip is  *)
(* at the port and however long it takes (serial.c:44-49).                 *)
THEOREM LineAlwaysCarriesText == KernelSpec => []LineCarriesText
<1>1. SerialInv => LineCarriesText
  BY DEF SerialInv, LineInv
<1> QED
  BY <1>1, SerialHolds, PTL

(* The setup reaches the registers it is meant for (serial.c:8-36).        *)
THEOREM ChipAlwaysConfigured == KernelSpec => []ChipConfigured
<1>1. ASSUME SerialInv PROVE ChipConfigured
  <2>1. Initialised => accesses = 10
    BY <1>1, SetupWrites DEF Initialised, SerialInv, Registers
  <2>2. accesses = 10 => ~latch
    BY <1>1 DEF SerialInv, Registers
  <2> QED
    BY <1>1, <2>1, <2>2 DEF ChipConfigured, SerialInv, Registers, LOOP, OPERATION
<1> QED
  BY <1>1, SerialHolds, PTL

-----------------------------------------------------------------------------
(* Descriptors *)

LEMMA Recombine ==
  ASSUME NEW n \in Nat, NEW m \in Nat \ {0}
  PROVE  (n % m) + m * (n \div m) = n
OBVIOUS

LEMMA HighPart ==
  ASSUME NEW n \in Nat, NEW m \in Nat \ {0}, NEW k \in Nat \ {0}, n < m * k
  PROVE  (n \div m) % k = n \div m
<1>1. n \div m \in Nat /\ m * (n \div m) <= n
  OBVIOUS
<1>2. n \div m < k
  BY <1>1
<1> QED BY <1>1, <1>2

Task(busy) ==
  [limit |-> <<TssSize % LowLimit, (TssSize \div LowLimit) % 16>>,
   base |-> <<TssAddress % LowBase, (TssAddress \div LowBase) % HighBase>>,
   accessed |-> 1, read_write |-> busy, code |-> 1,
   code_data_segment |-> 0, DPL |-> 0, present |-> 1, gran |-> 0, big |-> 0]

Ring0Data == [Ring0Code EXCEPT !.code = 0]

(* The descriptors that init_gdt ever writes.                              *)
Written ==
  {Null, Ring0Code, Ring0Data, [Ring0Code EXCEPT !.DPL = 3],
   [Ring0Code EXCEPT !.DPL = 3, !.code = 0], Task(0), Task(1)}

Gate(v) == [isr |-> <<Stubs[v] % Half, Stubs[v] \div Half>>, cs |-> CODE, flags |-> 142]

(* The segments, as far as init_gdt has come.                              *)
SegmentsInv ==
  /\ built \in {"segments", "lgdt", "reload", "tss", "ltr", "gates", "sti"}
  /\ gdt \in [0 .. 5 -> Written]
  /\ built # "segments" => gdt[1] = Ring0Code /\ gdt[2] = Ring0Data
  /\ built = "ltr" => gdt[5] = Task(0)
  /\ built \in {"gates", "sti"} => gdt[5] = Task(1)
  /\ built \in {"ltr", "gates", "sti"} => tss = [ss0 |-> DATA, esp0 |-> StackPointer]
  /\ built \notin {"segments", "lgdt"} => gdtLimit = 47
  /\ built \in {"segments", "lgdt", "reload"} => cs = 0
  /\ built \in {"tss", "ltr", "gates", "sti"} => cs = CODE /\ ds = DATA
  /\ tr = IF built \in {"gates", "sti"} THEN TSS ELSE 0

(* The gates, as far as init_idt has come; interrupts are enabled last.    *)
GatesInv ==
  /\ gate \in 0 .. Gates /\ DOMAIN idt = 0 .. Gates - 1 /\ idt = [v \in 0 .. Gates - 1 |-> idt[v]]
  /\ \A v \in 0 .. gate - 1 : idt[v] = Gate(v)
  /\ built = "sti" => gate = Gates /\ idtLimit = 8 * Gates - 1
  /\ stage # "cli" => built = "sti"

DescriptorInv == SegmentsInv /\ GatesInv

LEMMA DescriptorsInitInvariant == Init /\ DescriptorsInit => DescriptorInv
<1> SUFFICES ASSUME Init, DescriptorsInit PROVE DescriptorInv
  OBVIOUS
<1>1. SegmentsInv
  BY DEF DescriptorsInit, SegmentsInv, Written
<1>2. GatesInv
  BY DescriptorsAssumption DEF DescriptorsAssumption, DescriptorsInit, GatesInv, Init
<1> QED BY <1>1, <1>2 DEF DescriptorInv

LEMMA SegmentStep ==
  ASSUME DescriptorInv, stage' = stage,
         BuildSegments \/ FlushGdt \/ ReloadSegments \/ WriteTss \/ FlushTss
  PROVE  DescriptorInv'
<1> USE DEF DescriptorInv, SegmentsInv, Does
<1>1. UNCHANGED <<idt, gate, idtLimit>> /\ built # "sti" /\ built' # "sti"
  BY DEF BuildSegments, FlushGdt, ReloadSegments, WriteTss, FlushTss
<1>2. GatesInv'
  BY <1>1 DEF GatesInv
<1>3. gdt \in [0 .. 5 -> Written]
  OBVIOUS
<1>4. CASE BuildSegments
  <2>1. PICK a \in Written, b \in Written :
          gdt' = [gdt EXCEPT ![1] = Ring0Code, ![2] = Ring0Data, ![3] = a, ![4] = b]
    BY <1>4 DEF BuildSegments, Written, Ring0Data
  <2>2. Ring0Code \in Written /\ Ring0Data \in Written
    BY DEF Written
  <2>3. gdt' \in [0 .. 5 -> Written] /\ gdt'[1] = Ring0Code /\ gdt'[2] = Ring0Data
    BY ONLY <1>3, <2>1, <2>2
  <2> QED BY <1>2, <1>4, <2>3 DEF BuildSegments
<1>5. CASE FlushGdt \/ ReloadSegments
  BY <1>2, <1>5 DEF FlushGdt, ReloadSegments
<1>6. CASE WriteTss
  <2>1. built = "tss" /\ built' = "ltr" /\ UNCHANGED <<gdtLimit, cs, ds, tr>>
        /\ tss' = [ss0 |-> DATA, esp0 |-> StackPointer] /\ gdt' = [gdt EXCEPT ![5] = Task(0)]
    BY <1>6 DEF WriteTss, Task
  <2>2. Task(0) \in Written
    BY DEF Written
  <2>3. gdt' \in [0 .. 5 -> Written] /\ gdt'[5] = Task(0) /\ gdt'[1] = gdt[1] /\ gdt'[2] = gdt[2]
    BY ONLY <1>3, <2>1, <2>2
  <2> QED BY <1>2, <2>1, <2>3
<1>7. CASE FlushTss
  <2>1. built = "ltr" /\ built' = "gates" /\ UNCHANGED <<gdtLimit, cs, ds, tss>> /\ tr' = TSS
        /\ gdt' = [gdt EXCEPT ![5] = [gdt[5] EXCEPT !.read_write = 1]]
    BY <1>7 DEF FlushTss, TSS
  <2>2. gdt[5] = Task(0) /\ [Task(0) EXCEPT !.read_write = 1] = Task(1)
    BY <2>1 DEF Task
  <2>3. Task(1) \in Written /\ gdt' = [gdt EXCEPT ![5] = Task(1)]
    BY <2>1, <2>2 DEF Written
  <2>4. gdt' \in [0 .. 5 -> Written] /\ gdt'[5] = Task(1) /\ gdt'[1] = gdt[1] /\ gdt'[2] = gdt[2]
    BY ONLY <1>3, <2>3
  <2> QED BY <1>2, <2>1, <2>4
<1> QED BY <1>4, <1>5, <1>6, <1>7

LEMMA GateStep ==
  ASSUME DescriptorInv, stage' = stage, SetDescriptor \/ LoadIdt
  PROVE  DescriptorInv'
<1>1. UNCHANGED <<gdt, gdtLimit, cs, ds, tr, tss>> /\ built = "gates" /\ built' \in {"gates", "sti"}
  BY DEF SetDescriptor, LoadIdt, Does
<1>2. SegmentsInv'
  BY <1>1 DEF DescriptorInv, SegmentsInv
<1>3. CASE SetDescriptor
  <2>1. gate < Gates /\ gate \in Nat /\ Gates \in Nat /\ gate' = gate + 1 /\ built' = "gates"
        /\ idt' = [idt EXCEPT ![gate] = Gate(gate)]
    BY <1>1, <1>3, DescriptorsAssumption
       DEF DescriptorsAssumption, SetDescriptor, Gate, DescriptorInv, GatesInv
  <2>2. DOMAIN idt' = 0 .. Gates - 1 /\ idt' = [v \in 0 .. Gates - 1 |-> idt'[v]]
    BY <2>1 DEF DescriptorInv, GatesInv
  <2>3. ASSUME NEW v \in 0 .. gate' - 1 PROVE idt'[v] = Gate(v)
    <3>1. CASE v = gate
      BY <2>1, <3>1 DEF DescriptorInv, GatesInv
    <3>2. CASE v # gate
      <4>1. v \in 0 .. gate - 1 /\ v \in 0 .. Gates - 1
        BY <2>1, <2>3, <3>2
      <4>2. idt[v] = Gate(v) /\ DOMAIN idt = 0 .. Gates - 1
        BY <4>1 DEF DescriptorInv, GatesInv
      <4> QED BY <2>1, <3>2, <4>1, <4>2
    <3> QED BY <3>1, <3>2
  <2>4. \A v \in 0 .. gate' - 1 : idt'[v] = Gate(v)'
    BY <2>3 DEF Gate
  <2> QED BY <1>1, <1>2, <2>1, <2>2, <2>4 DEF DescriptorInv, GatesInv
<1>4. CASE LoadIdt
  BY <1>1, <1>2, <1>4 DEF LoadIdt, Does, DescriptorInv, GatesInv, Gate
<1> QED BY <1>3, <1>4

LEMMA DescriptorKept ==
  ASSUME DescriptorInv, UNCHANGED descriptorVars, stage' # "cli" => built = "sti"
  PROVE  DescriptorInv'
BY DEF DescriptorInv, SegmentsInv, GatesInv, Gate, descriptorVars

(* Only init_idt enables interrupts.                                       *)
LEMMA StageLeavesCli ==
  ASSUME ApicStep \/ DeliverStep \/ HandlerStep \/ EventStep, stage' # "cli" PROVE stage # "cli"
BY DEF ApicStep, DeliverStep, HandlerStep, EventStep, NoApic, MapLocalApic, EnableApic,
       StartTimer, NoIoApic, ProgramPin, base, Advance, Deliver, Handler, SendEOI, Iret, Tick, Edge

LEMMA DescriptorNext == ASSUME DescriptorInv, [KernelNext]_kernelVars PROVE DescriptorInv'
<1> USE DEF RestOf
<1>1. CASE DescriptorStep
  <2>1. stage' = stage
    BY <1>1 DEF DescriptorStep, vars
  <2> QED
    BY <1>1, <2>1, SegmentStep, GateStep DEF DescriptorStep
<1>2. CASE EnableInterruptsStep
  BY <1>2, DescriptorKept DEF EnableInterruptsStep
<1>3. CASE SerialStep \/ ChipStep \/ PicStep \/ DriverStep \/ LineStep \/ UNCHANGED kernelVars
  <2>1. UNCHANGED descriptorVars /\ stage' = stage
    BY <1>3 DEF SerialStep, ChipStep, PicStep, DriverStep, LineStep, kernelVars, vars
  <2> QED BY <2>1, DescriptorKept DEF DescriptorInv, GatesInv
<1>4. CASE ApicStep \/ DeliverStep \/ HandlerStep \/ EventStep
  <2>1. UNCHANGED descriptorVars
    BY <1>4 DEF ApicStep, DeliverStep, HandlerStep, EventStep
  <2>2. stage' # "cli" => stage # "cli"
    BY <1>4, StageLeavesCli
  <2> QED BY <2>1, <2>2, DescriptorKept DEF DescriptorInv, GatesInv
<1> QED
  BY <1>1, <1>2, <1>3, <1>4 DEF KernelNext, KernelMain

LEMMA DescriptorsHold == KernelSpec => []DescriptorInv
<1>1. KernelInit => DescriptorInv
  BY DescriptorsInitInvariant DEF KernelInit
<1> QED
  BY <1>1, DescriptorNext, PTL DEF KernelSpec

(* The processor finds both segments in its table as soon as it uses them. *)
LEMMA SegmentsFound ==
  ASSUME SegmentsInv, cs # 0
  PROVE  KernelCode(CODE) /\ KernelData(DATA)
<1>1. /\ gdtLimit = 47 /\ gdt[1] = Ring0Code /\ gdt[2] = Ring0Data
  BY DEF SegmentsInv
<1>2. CODE \div 8 = 1 /\ DATA \div 8 = 2 /\ CODE = 8 /\ DATA = 16
  BY DEF CODE, DATA
<1> QED
  BY <1>1, <1>2 DEF KernelCode, KernelData, KernelSegment, Present, Ring0Code, Ring0Data

(* Whatever init_gdt loads is in the table when it loads it, and stays so  *)
(* while the table is still written (gdt.c:37-84, gdt_flush.S).            *)
THEOREM SelectorsStayUsable == KernelSpec => []SelectorsUsable
<1>1. ASSUME SegmentsInv PROVE SelectorsUsable
  <2>1. cs # 0 => KernelCode(cs) /\ KernelData(ds)
    BY <1>1, SegmentsFound DEF SegmentsInv
  <2>2. ASSUME tr # 0
        PROVE  /\ tr = 40 /\ tr \div 8 = 5 /\ gdtLimit = 47 /\ gdt[5] = Task(1) /\ cs # 0
               /\ tss = [ss0 |-> DATA, esp0 |-> StackPointer]
    BY <1>1, <2>2 DEF SegmentsInv, TSS, CODE
  <2>3. /\ Task(1).base[1] + LowBase * Task(1).base[2] = TssAddress
        /\ Task(1).limit[1] + LowLimit * Task(1).limit[2] >= TssSize - 1
    <3>1. /\ TssAddress \in Nat /\ LowBase \in Nat \ {0} /\ HighBase \in Nat \ {0}
          /\ TssAddress < LowBase * HighBase
          /\ TssSize \in Nat /\ LowLimit \in Nat \ {0} /\ TssSize < LowLimit * 16
      BY DescriptorsAssumption DEF DescriptorsAssumption
    <3>2. (TssAddress \div LowBase) % HighBase = TssAddress \div LowBase
      BY <3>1, HighPart
    <3>3. 16 \in Nat \ {0}
      OBVIOUS
    <3>4. (TssSize \div LowLimit) % 16 = TssSize \div LowLimit
      BY <3>1, <3>3, HighPart
    <3>5. /\ (TssAddress % LowBase) + LowBase * (TssAddress \div LowBase) = TssAddress
          /\ (TssSize % LowLimit) + LowLimit * (TssSize \div LowLimit) = TssSize
      BY <3>1, Recombine
    <3> QED BY <3>1, <3>2, <3>4, <3>5 DEF Task
  <2>4. ASSUME tr # 0
        PROVE  /\ Present(tr) /\ gdt[tr \div 8] = Task(1) /\ Task(1).code_data_segment = 0
               /\ Task(1).code = 1 /\ Task(1).accessed = 1
               /\ KernelData(tss.ss0) /\ tss.esp0 = StackPointer
    BY <1>1, <2>2, <2>4, SegmentsFound DEF Present, Task
  <2> QED
    BY <2>1, <2>3, <2>4 DEF SelectorsUsable
<1> QED
  BY <1>1, DescriptorsHold, PTL DEF DescriptorInv

(* Every gate leads to its stub when init_idt executes sti (idt.c:27-46),  *)
(* and from then on.                                                       *)
THEOREM GatesAlwaysReady == KernelSpec => []GatesReady
<1>1. ASSUME DescriptorInv, stage # "cli", NEW v \in 0 .. Gates - 1
      PROVE  /\ 8 * v + 7 <= idtLimit /\ idt[v].flags = 142 /\ KernelCode(idt[v].cs)
             /\ idt[v].isr[1] + Half * idt[v].isr[2] = Stubs[v]
  <2>1. idtLimit = 8 * Gates - 1 /\ idt[v] = Gate(v) /\ cs # 0
    BY <1>1 DEF DescriptorInv, SegmentsInv, GatesInv, CODE
  <2>2. KernelCode(CODE)
    BY <1>1, <2>1, SegmentsFound DEF DescriptorInv
  <2>3. Stubs[v] \in Nat /\ Half \in Nat \ {0} /\ Gates \in Nat
    BY <1>1, DescriptorsAssumption DEF DescriptorsAssumption
  <2>4. (Stubs[v] % Half) + Half * (Stubs[v] \div Half) = Stubs[v]
    BY <2>3, Recombine
  <2> QED BY <2>1, <2>2, <2>3, <2>4 DEF Gate
<1>2. DescriptorInv => GatesReady
  BY <1>1 DEF GatesReady, GatesReachStubs
<1> QED
  BY <1>2, DescriptorsHold, PTL

-----------------------------------------------------------------------------
(* The PICs                                                                *)

(* Interrupts are enabled when init_pic is over, and no driver of a legacy *)
(* line runs next to the rest of the kernel.                               *)
PicsDone ==
  /\ stage # "cli" => ~drivers /\ InitDone
  /\ drivers \/ closed = 0 .. 15

LEMMA PicsNext ==
  ASSUME PicInv, PicsDone, [KernelNext]_kernelVars PROVE PicInv' /\ PicsDone'
<1> USE DEF RestOf
<1>1. ASSUME UNCHANGED picVars, stage' # "cli" => ~drivers /\ InitDone
      PROVE  PicInv' /\ PicsDone'
  <2>1. InitDone => InitDone'
    BY <1>1 DEF picVars, InitDone
  <2>2. drivers' = drivers /\ closed' = closed
    BY <1>1 DEF picVars
  <2> QED BY <1>1, <2>1, <2>2, PicKept DEF PicsDone
<1>2. CASE SerialStep \/ ChipStep \/ DescriptorStep \/ UNCHANGED kernelVars
  <2>1. UNCHANGED picVars /\ stage' = stage
    BY <1>2 DEF SerialStep, ChipStep, DescriptorStep, kernelVars, vars
  <2> QED BY <1>1, <2>1 DEF PicsDone
<1>3. CASE EnableInterruptsStep
  BY <1>1, <1>3 DEF EnableInterruptsStep, SetUp
<1>4. CASE ApicStep \/ DeliverStep \/ HandlerStep \/ EventStep
  <2>1. UNCHANGED picVars
    BY <1>4 DEF ApicStep, DeliverStep, HandlerStep, EventStep
  <2> QED BY <1>1, <1>4, <2>1, StageLeavesCli DEF PicsDone
<1>5. CASE PicStep
  <2>1. PicKernel /\ stage' = stage /\ UNCHANGED <<drivers, closed>>
    BY <1>5 DEF PicStep, vars, PicKernel, SaveMasks, InitWrite
  <2>2. ~InitDone
    <3>1. ASSUME InitDone PROVE FALSE
      <4>1. writes = 12 /\ saved = <<>>
        BY <3>1, AllWritten
      <4> QED BY <2>1, <4>1, RemapWrites DEF PicKernel, SaveMasks, InitWrite
    <3> QED BY <3>1
  <2> QED BY <2>1, <2>2, PicNextInv DEF PicsDone
<1>6. CASE DriverStep
  <2>1. PicDrivers /\ stage' = stage
    BY <1>6 DEF DriverStep, vars
  <2>2. UNCHANGED <<drivers, saved, writes>> /\ (drivers \/ closed' = closed)
    BY <2>1 DEF PicDrivers, Driver, AllMasks, SetMasks, IRQ_set_mask, IRQ_clear_mask, Acknowledge,
                LegacyHandler
  <2>3. InitDone => InitDone'
    BY <2>2 DEF InitDone
  <2> QED BY <2>1, <2>2, <2>3, PicNextInv DEF PicsDone
<1>7. CASE LineStep
  <2>1. PicDevices /\ stage' = stage
    BY <1>7 DEF LineStep, vars
  <2>2. UNCHANGED <<drivers, saved, writes, closed>>
    BY <2>1 DEF PicDevices, Raise
  <2>3. InitDone => InitDone'
    BY <2>2 DEF InitDone
  <2> QED BY <2>1, <2>2, <2>3, PicNextInv DEF PicsDone
<1> QED
  BY <1>2, <1>3, <1>4, <1>5, <1>6, <1>7 DEF KernelNext, KernelMain

LEMMA PicsHold == KernelSpec => [](PicInv /\ PicsDone)
<1>1. KernelInit => PicInv /\ PicsDone
  BY PicInitInv DEF KernelInit, PicsDone, PicInit, Init
<1> QED
  BY <1>1, PicsNext, PTL DEF KernelSpec

(* Set and cleared one at a time, the mask bits stay what the drivers asked*)
(* for on both controllers, and every handler ends its interrupt on all    *)
(* controllers that have it in service (pic.c:44-55, pic.c:93-126).                     *)
THEOREM DriversAreServed == KernelSpec => []DriversServed
BY DriversServedInv, PicsHold, PTL

(* Whatever masks the firmware left and whatever devices ask for, the PICs *)
(* are silent and their vectors apart when interrupts are enabled          *)
(* (pic.c:37-91).                                                *)
THEOREM LegacyStaysOut == KernelSpec => []LegacyOutOfTheWay
<1>1. ASSUME PicInv, PicsDone, stage # "cli"
      PROVE  /\ Requests(1) = {} /\ offset[1] = 32 /\ offset[2] = 40
  BY <1>1, NoneRequested, RemappedOffsets DEF PicsDone
<1>2. ASSUME offset[1] = 32, offset[2] = 40,
             NEW p \in Controllers, NEW k \in 0 .. 7, offset[p] + k \in 0 .. 31 \cup Vectors
      PROVE  FALSE
  <2>1. offset[p] + k \in 32 .. 47
    BY <1>2 DEF Controllers
  <2>2. \A v \in Vectors : v >= 48
    BY DEF Vectors, TimerVector, PinVector, AllPins
  <2> QED BY <1>2, <2>1, <2>2
<1>3. ASSUME PicInv, PicsDone PROVE LegacyOutOfTheWay
  <2>1. LegacySilent
    BY <1>1, <1>3 DEF LegacySilent
  <2>2. VectorsApart
    BY <1>1, <1>2, <1>3 DEF VectorsApart
  <2> QED BY <2>1, <2>2 DEF LegacyOutOfTheWay
<1> QED
  BY <1>3, PicsHold, PTL

-----------------------------------------------------------------------------
(* The start-up as a whole: what kernel_main has left to do, with the      *)
(* characters it has yet to write and to see sent.  A string has a single  *)
(* character or, after the test of the port, two.                          *)
StagesLeft ==
  CASE stage = "cli" -> 5 [] stage = "sti" -> 4 [] stage = "mapped" -> 3 [] stage = "enabled" -> 2
    [] stage = "ticking" -> 1 [] OTHER -> 0

SegmentsLeft ==
  CASE built = "segments" -> 6 [] built = "lgdt" -> 5 [] built = "reload" -> 4
    [] built = "tss" -> 3 [] built = "ltr" -> 2 [] built = "gates" -> 1 [] OTHER -> 0

PicLeft == (12 - writes) + IF saved = <<>> /\ writes = 0 THEN 1 ELSE 0
TextLength == Len(text)
WaitingLength == Len(waiting)
TextLeft == 2 * TextLength + WaitingLength
SerialLeft == 5 * (10 - accesses) + TextLeft
DescriptorsLeft == 3 * SegmentsLeft + (Gates - gate)
ApicLeft == 3 * StagesLeft + (16 - nextPin)

StartUpLeft == SerialLeft + PicLeft + DescriptorsLeft + ApicLeft
HandlerLeft == eois + IF running = None THEN 0 ELSE 1

(* Only interrupts and devices hold it up, and no handler for long.        *)
StartsOn ==
  \/ StartUpLeft' < StartUpLeft
  \/ /\ StartUpLeft' = StartUpLeft
     /\ \/ DriverStep \/ LineStep \/ DeliverStep \/ EventStep
        \/ HandlerStep /\ HandlerLeft' < HandlerLeft

Countable ==
  /\ SerialLeft \in Nat /\ PicLeft \in Nat /\ DescriptorsLeft \in Nat /\ ApicLeft \in Nat
  /\ HandlerLeft \in Nat

KernelInv == Inv /\ TypeOK /\ SerialInv /\ DescriptorInv /\ PicInv

LEMMA KernelInvHolds == KernelSpec => []KernelInv
BY KernelInterrupts, SerialHolds, DescriptorsHold, PicsHold, PTL DEF KernelInv

Measured ==
  /\ TextLength \in Nat /\ (text = <<>> => TextLength = 0)
  /\ WaitingLength \in {0, 1} /\ (WaitingLength = 0 <=> waiting = <<>>)
  /\ accesses \in 0 .. 10

LEMMA Lengths == SerialInv => Measured
<1> SUFFICES ASSUME SerialInv PROVE Measured
  OBVIOUS
<1>1. Len(<<>>) = 0 /\ \A b : Len(<<b>>) = 1
  OBVIOUS
<1>2. text \in Seq(Letters) /\ (waiting = <<>> \/ \E b \in Letters : waiting = <<b>>)
  BY DEF SerialInv, LineInv
<1>3. TextLength \in Nat
  BY <1>2, LenProperties DEF TextLength
<1>4. \A b : <<b>> # <<>>
  OBVIOUS
<1>5. WaitingLength \in {0, 1} /\ (WaitingLength = 0 <=> waiting = <<>>)
  BY <1>1, <1>2, <1>4 DEF WaitingLength
<1>6. text = <<>> => TextLength = 0
  BY <1>1 DEF TextLength
<1>7. accesses \in 0 .. 10
  BY DEF SerialInv, Registers
<1> QED
  BY <1>3, <1>5, <1>6, <1>7 DEF Measured

LEMMA KernelCounts == KernelInv => Countable
<1> SUFFICES ASSUME KernelInv PROVE Countable
  OBVIOUS
<1>1. SerialLeft \in Nat
  BY Lengths DEF KernelInv, Measured, SerialLeft, TextLeft
<1>2. PicLeft \in Nat
  BY DEF KernelInv, PicInv, PicShape, PicLeft
<1>3. DescriptorsLeft \in Nat
  <2>1. SegmentsLeft \in Nat
    BY DEF SegmentsLeft
  <2>2. Gates \in Nat /\ gate \in 0 .. Gates
    BY DescriptorsAssumption DEF DescriptorsAssumption, KernelInv, DescriptorInv, GatesInv
  <2> QED
    BY <2>1, <2>2 DEF DescriptorsLeft
<1>4. ApicLeft \in Nat
  <2>1. StagesLeft \in Nat
    BY DEF StagesLeft
  <2>2. nextPin \in 0 .. 16
    BY DEF KernelInv, TypeOK
  <2> QED
    BY <2>1, <2>2 DEF ApicLeft
<1>5. HandlerLeft \in Nat
  BY DEF KernelInv, Inv, OneInService, HandlerLeft
<1> QED
  BY <1>1, <1>2, <1>3, <1>4, <1>5 DEF Countable

LEMMA OneFewer ==
  \A n, m \in Nat, w \in {0, 1} :
    m = n - 1 => 2 * m + w < 2 * n /\ 2 * m + w \in Nat /\ 2 * n \in Nat
OBVIOUS
LEMMA Fives == \A m, n \in Nat : m < n => 5 * m < 5 * n
OBVIOUS
LEMMA Threes == \A m, n \in Nat, k \in 0 .. 16 : m < n => 3 * m + (16 - k) < 3 * n + (16 - k)
OBVIOUS

(* init_serial and the characters on their way *)
LEMMA SerialAdvances ==
  ASSUME SerialInv, SerialInv', SerialDriver \/ Transmit
  PROVE  SerialLeft' < SerialLeft
<1>1. /\ TextLength \in Nat /\ (text = <<>> => TextLength = 0) /\ WaitingLength \in {0, 1}
      /\ (WaitingLength = 0 <=> waiting = <<>>) /\ accesses \in 0 .. 10
  BY Lengths DEF Measured
<1>2. /\ TextLength' \in Nat /\ (text' = <<>> => TextLength' = 0) /\ WaitingLength' \in {0, 1}
      /\ (WaitingLength' = 0 <=> waiting' = <<>>) /\ accesses' \in 0 .. 10
  <2>1. SerialInv' => Measured'
    BY Lengths, PTL
  <2> QED
    BY <2>1 DEF Measured
<1>3. CASE WriteSetup
  <2>1. accesses' = accesses + 1 /\ accesses' \in 1 .. 9 /\ accesses < 10 /\ accesses' < 10
    BY <1>1, <1>3, SetupWrites DEF WriteSetup
  <2>2. text = <<>> /\ waiting = <<>> /\ text' = <<>> /\ waiting' = <<>>
    BY <2>1 DEF SerialInv, LineInv
  <2>3. TextLength = 0 /\ TextLength' = 0 /\ WaitingLength = 0 /\ WaitingLength' = 0
    BY <1>1, <1>2, <2>2
  <2>4. SerialLeft = 5 * (10 - accesses)
    BY <1>1, <2>3 DEF SerialLeft, TextLeft
  <2>5. SerialLeft' = 5 * (10 - accesses')
    BY <1>2, <2>3 DEF SerialLeft, TextLeft
  <2>6. 10 - accesses' < 10 - accesses /\ 10 - accesses' \in Nat /\ 10 - accesses \in Nat
    BY <1>1, <1>2, <2>1
  <2> QED
    BY <2>4, <2>5, <2>6, Fives
<1>4. CASE Test
  <2>1. accesses = 9 /\ accesses' = 10
    BY <1>4, SetupWrites DEF Test
  <2>2. text = <<>> /\ waiting = <<>>
    BY <2>1 DEF SerialInv, LineInv
  <2>3. waiting' = waiting /\ (text' = text \/ text' = Greeting)
    BY <1>4 DEF Test, Out
  <2>4. TextLength' \in {0, 2} /\ WaitingLength' = 0
    <3>1. Len(<<"I", "NL">>) = 2
      OBVIOUS
    <3> QED
      BY <1>2, <2>2, <2>3, <3>1 DEF Greeting, TextLength
  <2>5. TextLength = 0 /\ WaitingLength = 0
    BY <1>1, <2>2
  <2>6. SerialLeft = 5
    BY <2>1, <2>5 DEF SerialLeft, TextLeft
  <2>8. TextLeft' \in {0, 4}
    <3>1. TextLeft' = 2 * TextLength' + WaitingLength'
      BY DEF TextLeft
    <3>2. CASE TextLength' = 0
      BY <2>4, <3>1, <3>2
    <3>3. CASE TextLength' = 2
      BY <2>4, <3>1, <3>3
    <3> QED
      BY <2>4, <3>2, <3>3
  <2>7. SerialLeft' \in {0, 4}
    <3>1. SerialLeft' = 5 * (10 - accesses') + TextLeft'
      BY DEF SerialLeft
    <3>2. 5 * (10 - accesses') = 0
      BY <2>1
    <3> QED
      BY <2>8, <3>1, <3>2
  <2> QED
    BY <2>6, <2>7
<1>5. CASE WriteSerial
  <2>1. text # <<>> /\ text' = Tail(text) /\ accesses' = accesses /\ TransmitEmpty
    BY <1>5 DEF WriteSerial, Write
  <2>2. TextLength' = TextLength - 1
    <3>1. text \in Seq(Letters)
      BY DEF SerialInv, LineInv
    <3> QED
      BY <2>1, <3>1, HeadTailProperties DEF TextLength
  <2>3. WaitingLength = 0
    BY <1>1, <2>1 DEF TransmitEmpty, SerialInv, LineInv
  <2>4. TextLeft' < TextLeft /\ TextLeft' \in Nat /\ TextLeft \in Nat
    <3>1. TextLeft' = 2 * TextLength' + WaitingLength'
      BY DEF TextLeft
    <3>2. TextLeft = 2 * TextLength
      BY <1>1, <2>3 DEF TextLeft
    <3>3. TextLength' \in Nat /\ WaitingLength' \in {0, 1} /\ TextLength \in Nat
      BY <1>1, <1>2
    <3> QED
      BY <2>2, <3>1, <3>2, <3>3, OneFewer
  <2>5. SerialLeft = 5 * (10 - accesses) + TextLeft
    BY DEF SerialLeft
  <2>6. SerialLeft' = 5 * (10 - accesses) + TextLeft'
    BY <2>1 DEF SerialLeft
  <2>7. 5 * (10 - accesses) \in Nat
    BY <1>1
  <2> QED
    BY <2>4, <2>5, <2>6, <2>7
<1>6. CASE Transmit
  <2>1. waiting # <<>> /\ waiting' = <<>> /\ text' = text /\ accesses' = accesses
    BY <1>6 DEF Transmit
  <2>2. TextLength' = TextLength
    BY <2>1 DEF TextLength
  <2> QED
    BY <1>1, <1>2, <2>1, <2>2 DEF SerialLeft, TextLeft
<1> QED
  BY <1>3, <1>4, <1>5, <1>6 DEF SerialDriver

(* A string costs less than the step that writes it is worth.              *)
LEMMA StringCosts ==
  ASSUME SerialInv, NEW b, WriteString(<<b>>)
  PROVE  SerialLeft' = SerialLeft + 2
<1>1. /\ TextLength \in Nat /\ (text = <<>> => TextLength = 0) /\ WaitingLength \in {0, 1}
      /\ accesses \in 0 .. 10
  BY Lengths DEF Measured
<1>2. text = <<>> /\ text' = <<b>> /\ waiting' = waiting /\ accesses' = accesses
  BY DEF WriteString, SerialIdle
<1>3. TextLength' = 1 /\ WaitingLength' = WaitingLength
  <2>1. Len(<<b>>) = 1
    OBVIOUS
  <2> QED
    BY <1>2, <2>1 DEF TextLength, WaitingLength
<1> QED
  BY <1>1, <1>2, <1>3 DEF SerialLeft, TextLeft

LEMMA PicAdvances == ASSUME PicInv, PicKernel PROVE PicLeft' < PicLeft
<1>0. writes \in 0 .. 12
  BY DEF PicInv, PicShape
<1>1. CASE SaveMasks
  <2>1. saved = <<>> /\ writes = 0 /\ writes' = writes /\ saved' # <<>>
    BY <1>1, SavedMasks DEF SaveMasks, PicInv, PicShape
  <2> QED
    BY <2>1 DEF PicLeft
<1>2. CASE InitWrite
  <2>1. saved # <<>> /\ writes < 12 /\ writes' = writes + 1
    BY <1>2, RemapWrites DEF InitWrite
  <2>2. PicLeft = 12 - writes
    BY <1>0, <2>1 DEF PicLeft
  <2>3. PicLeft' = 12 - writes'
    BY <1>0, <2>1 DEF PicLeft
  <2> QED
    BY <1>0, <2>1, <2>2, <2>3
<1> QED
  BY <1>1, <1>2 DEF PicKernel

LEMMA DescriptorsAdvance ==
  ASSUME DescriptorInv
  PROVE  /\ BuildSegments \/ FlushGdt \/ WriteTss \/ SetDescriptor \/ LoadIdt
              => DescriptorsLeft' < DescriptorsLeft
         /\ ReloadSegments \/ FlushTss => DescriptorsLeft' = DescriptorsLeft - 3
<1> USE DEF Does
<1>1. Gates \in Nat /\ gate \in 0 .. Gates
  BY DescriptorsAssumption DEF DescriptorsAssumption, DescriptorInv, GatesInv
<1>2. ASSUME BuildSegments \/ FlushGdt \/ WriteTss \/ LoadIdt \/ ReloadSegments \/ FlushTss
      PROVE  DescriptorsLeft' = DescriptorsLeft - 3
  <2>1. gate' = gate
    BY <1>2 DEF BuildSegments, FlushGdt, WriteTss, LoadIdt, ReloadSegments, FlushTss
  <2>2. SegmentsLeft \in Nat /\ SegmentsLeft' = SegmentsLeft - 1
    BY <1>2 DEF BuildSegments, FlushGdt, WriteTss, LoadIdt, ReloadSegments, FlushTss, SegmentsLeft
  <2> QED
    BY <1>1, <2>1, <2>2 DEF DescriptorsLeft
<1>3. ASSUME SetDescriptor PROVE DescriptorsLeft' < DescriptorsLeft
  <2>1. gate' = gate + 1 /\ built' = built
    BY <1>3 DEF SetDescriptor
  <2>2. SegmentsLeft \in Nat /\ SegmentsLeft' = SegmentsLeft
    BY <2>1 DEF SegmentsLeft
  <2> QED
    BY <1>1, <2>1, <2>2 DEF DescriptorsLeft
<1>4. DescriptorsLeft \in Nat
  <2>1. SegmentsLeft \in Nat
    BY DEF SegmentsLeft
  <2> QED
    BY <1>1, <2>1 DEF DescriptorsLeft
<1>5. DescriptorsLeft - 3 < DescriptorsLeft
  BY <1>4
<1> QED
  BY <1>2, <1>3, <1>5

LEMMA ApicAdvances ==
  ASSUME TypeOK
  PROVE  /\ EnableInterrupts => ApicLeft' = ApicLeft - 3
         /\ NoApic \/ MapLocalApic \/ EnableApic \/ StartTimer \/ NoIoApic \/ ProgramPin
              => ApicLeft' < ApicLeft
<1> USE DEF Advance, base
<1>1. nextPin \in 0 .. 16 /\ StagesLeft \in Nat
  BY DEF TypeOK, StagesLeft
<1>2. ASSUME EnableInterrupts PROVE ApicLeft' = ApicLeft - 3
  <2>1. nextPin' = nextPin /\ StagesLeft = 5 /\ StagesLeft' = 4
    BY <1>2 DEF EnableInterrupts, StagesLeft
  <2> QED
    BY <1>1, <2>1 DEF ApicLeft
<1>3. ASSUME NoApic \/ MapLocalApic \/ EnableApic \/ StartTimer \/ NoIoApic
      PROVE  ApicLeft' < ApicLeft
  <2>1. nextPin' = nextPin
    BY <1>3 DEF NoApic, MapLocalApic, EnableApic, StartTimer, NoIoApic
  <2>2. StagesLeft' \in Nat /\ StagesLeft' < StagesLeft
    <3>1. \/ stage = "sti" /\ stage' \in {"no apic", "mapped"}
          \/ stage = "mapped" /\ stage' = "enabled"
          \/ stage = "enabled" /\ stage' = "ticking"
          \/ stage = "ticking" /\ stage' = "no io apic"
      BY <1>3 DEF NoApic, MapLocalApic, EnableApic, StartTimer, NoIoApic
    <3>3. CASE stage = "sti"
      <4>1. StagesLeft = 4 /\ StagesLeft' \in {0, 3}
        BY <3>1, <3>3 DEF StagesLeft
      <4> QED
        BY <4>1
    <3>4. CASE stage = "mapped"
      <4>1. StagesLeft = 3 /\ StagesLeft' = 2
        BY <3>1, <3>4 DEF StagesLeft
      <4> QED
        BY <4>1
    <3>5. CASE stage = "enabled"
      <4>1. StagesLeft = 2 /\ StagesLeft' = 1
        BY <3>1, <3>5 DEF StagesLeft
      <4> QED
        BY <4>1
    <3>6. CASE stage = "ticking"
      <4>1. StagesLeft = 1 /\ StagesLeft' = 0
        BY <3>1, <3>6 DEF StagesLeft
      <4> QED
        BY <4>1
    <3> QED
      BY <3>1, <3>3, <3>4, <3>5, <3>6
  <2>3. ApicLeft = 3 * StagesLeft + (16 - nextPin) /\ ApicLeft' = 3 * StagesLeft' + (16 - nextPin)
    BY <2>1 DEF ApicLeft
  <2> QED
    BY <1>1, <2>2, <2>3, Threes
<1>4. ASSUME ProgramPin PROVE ApicLeft' < ApicLeft
  <2>1. nextPin' = nextPin + 1 /\ stage' = stage
    BY <1>4 DEF ProgramPin
  <2>2. StagesLeft' = StagesLeft
    BY <2>1 DEF StagesLeft
  <2> QED
    BY <1>1, <2>1, <2>2 DEF ApicLeft
<1> QED
  BY <1>2, <1>3, <1>4

(* What each part has left depends on its own state only.                  *)
LEMMA PartsApart ==
  /\ UNCHANGED serialVars => SerialLeft' = SerialLeft
  /\ UNCHANGED picVars => PicLeft' = PicLeft
  /\ UNCHANGED descriptorVars => DescriptorsLeft' = DescriptorsLeft
  /\ UNCHANGED <<stage, nextPin>> => ApicLeft' = ApicLeft
  /\ UNCHANGED <<running, eois>> => HandlerLeft' = HandlerLeft
<1>1. UNCHANGED serialVars => SerialLeft' = SerialLeft
  BY DEF serialVars, SerialLeft, TextLeft, TextLength, WaitingLength
<1>2. UNCHANGED picVars => PicLeft' = PicLeft
  BY DEF picVars, PicLeft
<1>3. UNCHANGED descriptorVars => DescriptorsLeft' = DescriptorsLeft
  BY DEF descriptorVars, DescriptorsLeft, SegmentsLeft
<1>4. UNCHANGED <<stage, nextPin>> => ApicLeft' = ApicLeft
  BY DEF ApicLeft, StagesLeft
<1>5. UNCHANGED <<running, eois>> => HandlerLeft' = HandlerLeft
  BY DEF HandlerLeft
<1> QED
  BY <1>1, <1>2, <1>3, <1>4, <1>5

(* Something is done, and a string costs less than the step it belongs to. *)
Fewer(s, p, d, a, t, q, e, b) ==
  \/ t < s /\ q = p /\ e = d /\ b = a
  \/ t = s /\ q < p /\ e = d /\ b = a
  \/ t = s /\ q = p /\ e < d /\ b = a
  \/ t = s /\ q = p /\ e = d /\ b < a
  \/ t = s + 2 /\ q = p /\ e = d - 3 /\ b = a
  \/ t = s + 2 /\ q = p /\ e = d /\ b = a - 3

LEMMA FewerInAll ==
  ASSUME NEW s \in Nat, NEW p \in Nat, NEW d \in Nat, NEW a \in Nat,
         NEW t \in Nat, NEW q \in Nat, NEW e \in Nat, NEW b \in Nat,
         Fewer(s, p, d, a, t, q, e, b)
  PROVE  t + q + e + b < s + p + d + a
BY DEF Fewer

LEMMA StartUpStep ==
  ASSUME KernelInv, KernelInv', KernelNext PROVE StartsOn
<1> USE DEF RestOf
<1>1. /\ SerialLeft \in Nat /\ PicLeft \in Nat /\ DescriptorsLeft \in Nat /\ ApicLeft \in Nat
      /\ HandlerLeft \in Nat
  BY KernelCounts DEF Countable
<1>2. /\ SerialLeft' \in Nat /\ PicLeft' \in Nat /\ DescriptorsLeft' \in Nat /\ ApicLeft' \in Nat
  <2>1. Countable'
    BY KernelCounts, PTL
  <2> QED
    BY <2>1 DEF Countable
<1>0. Fewer(SerialLeft, PicLeft, DescriptorsLeft, ApicLeft,
            SerialLeft', PicLeft', DescriptorsLeft', ApicLeft')
        => StartsOn
  <2>1. ASSUME Fewer(SerialLeft, PicLeft, DescriptorsLeft, ApicLeft,
                     SerialLeft', PicLeft', DescriptorsLeft', ApicLeft')
        PROVE  StartUpLeft' < StartUpLeft
    BY <1>1, <1>2, <2>1, FewerInAll, Zenon DEF StartUpLeft
  <2> QED
    BY <2>1 DEF StartsOn
<1>3. SerialInv /\ DescriptorInv /\ PicInv /\ TypeOK /\ SerialInv'
  BY DEF KernelInv
<1>4. CASE SerialStep \/ ChipStep
  <2>1. SerialLeft' < SerialLeft
    BY <1>3, <1>4, SerialAdvances DEF SerialStep, ChipStep
  <2>2. PicLeft' = PicLeft /\ DescriptorsLeft' = DescriptorsLeft /\ ApicLeft' = ApicLeft
    <3>1. UNCHANGED <<picVars, descriptorVars, vars>>
      BY <1>4 DEF SerialStep, ChipStep
    <3> QED
      BY <3>1, PartsApart DEF vars
  <2> QED
    BY <2>1, <2>2, <1>0 DEF Fewer
<1>5. CASE PicStep
  <2>1. PicLeft' < PicLeft
    BY <1>3, <1>5, PicAdvances DEF PicStep
  <2>2. SerialLeft' = SerialLeft /\ DescriptorsLeft' = DescriptorsLeft /\ ApicLeft' = ApicLeft
    <3>1. UNCHANGED <<serialVars, descriptorVars, vars>>
      BY <1>5 DEF PicStep
    <3> QED
      BY <3>1, PartsApart DEF vars
  <2> QED
    BY <2>1, <2>2, <1>0 DEF Fewer
<1>6. CASE DescriptorStep
  <2>1. PicLeft' = PicLeft /\ ApicLeft' = ApicLeft
    <3>1. UNCHANGED <<picVars, vars>>
      BY <1>6 DEF DescriptorStep
    <3> QED
      BY <3>1, PartsApart DEF vars
  <2>2. \/ DescriptorsLeft' < DescriptorsLeft /\ SerialLeft' = SerialLeft
        \/ DescriptorsLeft' = DescriptorsLeft - 3 /\ SerialLeft' = SerialLeft + 2
    <3>1. CASE (BuildSegments \/ FlushGdt \/ WriteTss \/ SetDescriptor \/ LoadIdt)
                 /\ UNCHANGED serialVars
      BY <1>3, <3>1, DescriptorsAdvance, PartsApart
    <3>2. CASE (ReloadSegments \/ FlushTss) /\ WriteString(<<"R">>)
      BY <1>3, <3>2, DescriptorsAdvance, StringCosts
    <3> QED
      BY <1>6, <3>1, <3>2 DEF DescriptorStep
  <2> QED
    BY <2>1, <2>2, <1>0 DEF Fewer
<1>7. CASE EnableInterruptsStep
  <2>1. PicLeft' = PicLeft /\ DescriptorsLeft' = DescriptorsLeft
    BY <1>7, PartsApart DEF EnableInterruptsStep
  <2>2. ApicLeft' = ApicLeft - 3 /\ SerialLeft' = SerialLeft + 2
    BY <1>3, <1>7, ApicAdvances, StringCosts DEF EnableInterruptsStep
  <2> QED
    BY <2>1, <2>2, <1>0 DEF Fewer
<1>8. CASE ApicStep
  <2>1. ApicLeft' < ApicLeft
    BY <1>3, <1>8, ApicAdvances DEF ApicStep
  <2>2. SerialLeft' = SerialLeft /\ PicLeft' = PicLeft /\ DescriptorsLeft' = DescriptorsLeft
    BY <1>8, PartsApart DEF ApicStep
  <2> QED
    BY <2>1, <2>2, <1>0 DEF Fewer
<1>9. CASE DriverStep \/ LineStep
  <2>1. UNCHANGED <<serialVars, descriptorVars, stage, nextPin>> /\ UNCHANGED <<writes, saved>>
    BY <1>9 DEF DriverStep, LineStep, vars, PicDrivers, AllMasks, SetMasks, IRQ_set_mask,
       IRQ_clear_mask, Acknowledge, LegacyHandler, PicDevices, Raise
  <2>2. PicLeft' = PicLeft
    BY <2>1 DEF PicLeft
  <2>3. SerialLeft' = SerialLeft /\ DescriptorsLeft' = DescriptorsLeft /\ ApicLeft' = ApicLeft
    BY <2>1, PartsApart
  <2> QED
    BY <1>9, <2>2, <2>3 DEF StartsOn, StartUpLeft
<1>10. CASE DeliverStep \/ HandlerStep \/ EventStep
  <2>1. UNCHANGED <<serialVars, descriptorVars, picVars>> /\ UNCHANGED <<stage, nextPin>>
    BY <1>10 DEF DeliverStep, HandlerStep, EventStep, Deliver, Handler, SendEOI, Iret, Tick, Edge
  <2>2. /\ SerialLeft' = SerialLeft /\ DescriptorsLeft' = DescriptorsLeft /\ ApicLeft' = ApicLeft
        /\ PicLeft' = PicLeft
    BY <2>1, PartsApart
  <2>3. StartUpLeft' = StartUpLeft
    BY <2>2 DEF StartUpLeft
  <2>4. ASSUME HandlerStep PROVE HandlerLeft' < HandlerLeft
    <3>1. eois \in Nat
      BY DEF KernelInv, Inv, OneInService
    <3>2. CASE SendEOI
      BY <3>1, <3>2 DEF SendEOI, HandlerLeft
    <3>3. CASE Iret
      BY <3>1, <3>3 DEF Iret, HandlerLeft
    <3> QED
      BY <2>4, <3>2, <3>3 DEF HandlerStep, Handler
  <2> QED
    BY <1>10, <2>3, <2>4 DEF StartsOn
<1> QED
  BY <1>4, <1>5, <1>6, <1>7, <1>8, <1>9, <1>10 DEF KernelNext, KernelMain

(* The start-up is finite: each step of kernel_main, and each character    *)
(* the chip sends, leaves fewer of them; interrupts and legacy devices     *)
(* come in between without undoing any, and every step of a handler brings *)
(* its iret nearer (kernel.c:20-44, serial.c:44-57, exception_handler.c).  *)
THEOREM EveryStepStartsUp ==
  KernelSpec => [](StartUpLeft \in Nat) /\ [][StartsOn]_kernelVars
<1>1. KernelInv /\ KernelInv' /\ [KernelNext]_kernelVars => [StartsOn]_kernelVars
  BY StartUpStep
<1>2. KernelInv => StartUpLeft \in Nat
  BY KernelCounts DEF Countable, StartUpLeft
<1> QED
  BY <1>1, <1>2, KernelInvHolds, PTL DEF KernelSpec
=============================================================================
