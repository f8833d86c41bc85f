------------------------------- MODULE Kernel -------------------------------
(***************************************************************************)
(* kernel_main (kernel/kernel/kernel.c): the serial port, the PICs, the    *)
(* segments and the gates are set up one after the other with interrupts   *)
(* off; init_idt enables them, and the rest of the start-up runs with      *)
(* handlers in between, as in module Interrupts.  write_string_serial is   *)
(* called on the way, by init_gdt and init_idt; whoever calls it goes on   *)
(* when all of the text has been written.                                  *)
(*                                                                         *)
(* With drivers (module Pic) only the PICs move, and what their handlers   *)
(* write to the local APIC, which has nothing in service then.             *)
(***************************************************************************)
EXTENDS InterruptsDiscipline, Serial, Pic, Descriptors

kernelVars == <<vars, serialVars, picVars, descriptorVars>>

KernelInit ==
  /\ Init /\ SerialInit /\ PicInit /\ DescriptorsInit
  /\ drivers => chip = "absent" /\ irqEnable = 0 /\ msr

RestOf(x) ==
  /\ x # "interrupts" => UNCHANGED vars
  /\ x # "serial" => UNCHANGED serialVars
  /\ x # "pic" => UNCHANGED picVars
  /\ x # "descriptors" => UNCHANGED descriptorVars

(* init_serial and write_serial, wherever they are called from             *)
SerialStep == ~drivers /\ running = None /\ SerialDriver /\ RestOf("serial")

ChipStep == Transmit /\ RestOf("serial")

PicStep ==
  /\ drivers \/ SerialIdle
  /\ PicKernel /\ RestOf("pic")

(* test_kbd_interrupt, the handler of vector 33, writes to the EOI         *)
(* register of the local APIC as well (exception_handler.c:60).            *)
DriverStep ==
  /\ PicDrivers
  /\ IF code = 33 THEN WriteEOI ELSE UNCHANGED isr
  /\ UNCHANGED <<stage, base, nextPin, unmasked, redirect, irr, running, eois, events>>
  /\ UNCHANGED <<serialVars, descriptorVars>>

LineStep == PicDevices /\ RestOf("pic")

SetUp == ~drivers /\ SerialIdle /\ InitDone

(* init_gdt and the loop and lidt of init_idt                              *)
DescriptorStep ==
  /\ SetUp
  /\ \/ (BuildSegments \/ FlushGdt \/ WriteTss \/ SetDescriptor \/ LoadIdt)
          /\ UNCHANGED serialVars
     \/ (ReloadSegments \/ FlushTss) /\ WriteString(<<"R">>)
  /\ UNCHANGED <<vars, picVars>>

(* Names that end in capitals are faulty variants of the definition that   *)
(* follows; nothing uses them.                                             *)
EnableInterruptsStep_BEFORE_GATES ==
  /\ SetUp /\ built = "gates" /\ EnableInterrupts /\ WriteString(<<"F">>)
  /\ UNCHANGED <<picVars, descriptorVars>>

EnableInterruptsStep ==
  /\ SetUp /\ built = "sti" /\ EnableInterrupts /\ WriteString(<<"F">>)
  /\ UNCHANGED <<picVars, descriptorVars>>

ApicStep ==
  /\ SerialIdle /\ (NoApic \/ MapLocalApic \/ EnableApic \/ StartTimer \/ NoIoApic \/ ProgramPin)
  /\ RestOf("interrupts")

KernelMain == SerialStep \/ PicStep \/ DescriptorStep \/ EnableInterruptsStep \/ ApicStep

DeliverStep == (\E v \in Vectors : Deliver(v)) /\ RestOf("interrupts")
HandlerStep == Handler /\ RestOf("interrupts")
EventStep == (Tick \/ \E pin \in Pins : Edge(pin)) /\ RestOf("interrupts")

KernelNext == KernelMain \/ DriverStep \/ LineStep \/ ChipStep
                \/ DeliverStep \/ HandlerStep \/ EventStep

(* The processor does not stop, the local APIC delivers what it can, and   *)
(* the serial chip sends what it holds.                                    *)
KernelSpec ==
  /\ KernelInit /\ [][KernelNext]_kernelVars
  /\ WF_kernelVars(KernelMain) /\ WF_kernelVars(DeliverStep) /\ WF_kernelVars(HandlerStep)
  /\ WF_kernelVars(ChipStep)

-----------------------------------------------------------------------------
(* Properties of the whole; the others are those of the parts.             *)

(* When interrupts are enabled the PICs request none, whatever devices     *)
(* asked for before or ask for later: the local APIC takes all interrupts, *)
(* and no handler writes to the ports of the PICs any more.                *)
LegacySilent == stage # "cli" => Requests(1) = {}

(* A spurious or late request of the PICs would still not be taken for an  *)
(* exception or for an interrupt of the APIC.                              *)
VectorsApart ==
  stage # "cli" =>
    LET legacy == {offset[p] + k : p \in Controllers, k \in 0 .. 7}
    IN /\ offset[1] # offset[2]
       /\ legacy \cap (0 .. 31 \cup Vectors) = {}

(* The gates are ready when interrupts are enabled.                        *)
GatesReady == stage # "cli" => GatesReachStubs

(* The PICs are out of the way, by their masks and by their vectors.       *)
LegacyOutOfTheWay == LegacySilent /\ VectorsApart

(* The start-up ends, whatever chip is at the serial port, with all pins   *)
(* programmed unless the firmware knows of no APIC.                        *)
StartsUp == drivers \/ <>(nextPin = 16 \/ stage \in {"no apic", "no io apic"})
=============================================================================
