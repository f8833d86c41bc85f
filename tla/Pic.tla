-------------------------------- MODULE Pic ---------------------------------
(***************************************************************************)
(* The two 8259 interrupt controllers (kernel/arch/i386/devices/pic.c).    *)
(* The kernel calls init_pic, which moves their vectors and masks all of   *)
(* their lines.  Drivers of legacy lines would go on with the other        *)
(* functions of pic.h, and with the handlers that exception_handler.c has  *)
(* for the vectors 32 to 47: drivers says whether there are any.           *)
(*                                                                         *)
(* Each controller takes its initialization words in order, counted from   *)
(* the command that starts the sequence; a write to its data port is one   *)
(* of them, or the mask.  Controller 2 is cascaded to line 2 of the other. *)
(***************************************************************************)
EXTENDS Integers, Sequences

CONSTANTS
  Lines,          \* lines with a device behind them (of 0 .. 15)
  FirmwareMasks   \* pairs of mask bytes the firmware may leave

Controllers == {1, 2}
Cascade == 2

ASSUME PicAssumption ==
  /\ Lines \subseteq (0 .. 15) \ {Cascade}
  /\ FirmwareMasks \subseteq (0 .. 255) \X (0 .. 255)

VARIABLES
  drivers,
  expected,   \* the initialization word a data write is taken for; 0: the mask
  offset,     \* vector of the controller's first line
  mask,       \* mask bytes
  asked,      \* requested lines
  served,     \* lines in service
  saved,      \* a1 and a2 of PIC_remap
  writes,     \* port writes init_pic has made
  code,       \* the vector whose handler runs, or 0
  closed      \* history: the lines drivers want masked

picVars == <<drivers, expected, offset, mask, asked, served, saved, writes, code, closed>>

PicInit ==
  /\ drivers \in BOOLEAN
  /\ mask \in FirmwareMasks
  /\ expected = <<0, 0>> /\ offset = <<8, 112>>
  /\ asked = <<{}, {}>> /\ served = <<{}, {}>>
  /\ saved = <<>> /\ writes = 0 /\ code = 0 /\ closed = 0 .. 15

Bit(b, k) == (b \div 2 ^ k) % 2
Lowest(S) == CHOOSE k \in S : \A l \in S : k <= l

-----------------------------------------------------------------------------
(* The controllers.  What one may deliver is not masked, and nothing of    *)
(* the same or a higher priority is in service.                            *)

Requests(p) ==
  LET lines == IF p = 1 /\ \E k \in asked[2] : Bit(mask[2], k) = 0 /\ \A l \in served[2] : k < l
               THEN asked[1] \cup {Cascade} ELSE asked[p]
  IN {k \in lines : expected[p] = 0 /\ Bit(mask[p], k) = 0 /\ \A l \in served[p] : k < l}

(* ICW1 to the command port                                                *)
StartSequence(p) ==
  /\ expected' = [expected EXCEPT ![p] = 2]
  /\ mask' = [mask EXCEPT ![p] = 0] /\ asked' = [asked EXCEPT ![p] = {}]
  /\ UNCHANGED offset

(* A byte to the data port                                                 *)
WriteData(p, byte) ==
  /\ expected' = [expected EXCEPT ![p] = IF @ \in {0, 4} THEN 0 ELSE @ + 1]
  /\ offset' = IF expected[p] = 2 THEN [offset EXCEPT ![p] = (byte \div 8) * 8] ELSE offset
  /\ mask' = IF expected[p] = 0 THEN [mask EXCEPT ![p] = byte] ELSE mask
  /\ UNCHANGED asked

-----------------------------------------------------------------------------
(* Names that end in capitals are faulty variants of the definition that   *)
(* follows; nothing uses them.                                             *)

ICW1 == -1
Remap_NO_MASK ==
  << <<1, ICW1>>, <<2, ICW1>>, <<1, 32>>, <<2, 40>>, <<1, 4>>, <<2, 2>>, <<1, 1>>, <<2, 1>>,
     <<1, saved[1]>>, <<2, saved[2]>> >>

(* The controllers and bytes of PIC_remap(32, 40) and mask_pic_interrupts. *)
Remap ==
  << <<1, ICW1>>, <<2, ICW1>>, <<1, 32>>, <<2, 40>>, <<1, 4>>, <<2, 2>>, <<1, 1>>, <<2, 1>>,
     <<1, saved[1]>>, <<2, saved[2]>>, <<1, 255>>, <<2, 255>> >>

SaveMasks ==
  /\ saved = <<>> /\ writes = 0 /\ saved' = mask
  /\ UNCHANGED <<drivers, expected, offset, mask, asked, served, writes, code, closed>>

InitWrite ==
  /\ saved # <<>> /\ writes < Len(Remap)
  /\ LET w == Remap[writes + 1]
     IN IF w[2] = ICW1 THEN StartSequence(w[1]) ELSE WriteData(w[1], w[2])
  /\ writes' = writes + 1 /\ saved' = IF writes' = Len(Remap) THEN <<>> ELSE saved
  /\ UNCHANGED <<drivers, served, code, closed>>

InitDone == writes > 0 /\ saved = <<>>

Raise(line) ==
  /\ asked' = [asked EXCEPT ![line \div 8 + 1] = @ \cup {line % 8}]
  /\ UNCHANGED <<drivers, expected, offset, mask, served, saved, writes, code, closed>>

-----------------------------------------------------------------------------
(* Drivers of legacy lines *)

Driver == drivers /\ InitDone /\ code = 0

SetMasks(m) ==
  /\ mask' = m
  /\ UNCHANGED <<drivers, expected, offset, asked, served, saved, writes, code>>

(* unmask_pic_interrupts, mask_pic_interrupts                              *)
AllMasks ==
  /\ Driver
  /\ \/ SetMasks(<<0, 0>>) /\ closed' = {}
     \/ SetMasks(<<255, 255>>) /\ closed' = 0 .. 15

(* IRQ_set_mask reads the byte, sets a bit and writes it back.             *)
IRQ_set_mask(line) ==
  /\ Driver
  /\ LET p == IF line < 8 THEN 1 ELSE 2
         k == IF line < 8 THEN line ELSE line - 8
     IN SetMasks([mask EXCEPT ![p] = IF Bit(@, k) = 0 THEN @ + 2 ^ k ELSE @])
  /\ closed' = closed \cup {line}

IRQ_clear_mask(line) ==
  /\ Driver
  /\ LET p == IF line < 8 THEN 1 ELSE 2
         k == IF line < 8 THEN line ELSE line - 8
     IN SetMasks([mask EXCEPT ![p] = IF Bit(@, k) = 1 THEN @ - 2 ^ k ELSE @])
  /\ closed' = closed \ {line}

(* The processor takes the request with the highest priority; controller 2 *)
(* answers for the cascade line.                                           *)
Acknowledge ==
  /\ Driver /\ Requests(1) # {}
  /\ LET k == Lowest(Requests(1))
         p == IF k = Cascade THEN 2 ELSE 1
         j == IF k = Cascade THEN Lowest(Requests(2)) ELSE k
     IN /\ served' = [q \in Controllers |-> served[q] \cup
                        IF q = 1 THEN {k} ELSE IF p = 2 THEN {j} ELSE {}]
        /\ asked' = [asked EXCEPT ![p] = @ \ {j}]
        /\ code' = offset[p] + j
  /\ UNCHANGED <<drivers, expected, offset, mask, saved, writes, closed>>

EndOfInterrupt(p) == served[p] \ {k \in served[p] : k = Lowest(served[p])}

PIC_sendEOI_ONE(irq) ==
  served' = IF irq >= 8 THEN [served EXCEPT ![2] = EndOfInterrupt(2)]
                        ELSE [served EXCEPT ![1] = EndOfInterrupt(1)]

PIC_sendEOI(irq) ==
  served' = [p \in Controllers |-> IF p = 1 \/ irq >= 8 THEN EndOfInterrupt(p) ELSE served[p]]

(* exception_handler_code, or case 33 of test_kbd_interrupt, and iret; the *)
(* apic_send_eoi that test_kbd_interrupt ends with is in module Kernel,    *)
(* which knows the local APIC.                                             *)
LegacyHandler ==
  /\ code # 0
  /\ IF code >= 32 /\ code < 48 THEN PIC_sendEOI(code - 32) ELSE UNCHANGED served
  /\ code' = 0
  /\ UNCHANGED <<drivers, expected, offset, mask, asked, saved, writes, closed>>

PicKernel == SaveMasks \/ InitWrite
PicDrivers == AllMasks \/ (\E l \in Lines : IRQ_set_mask(l) \/ IRQ_clear_mask(l))
                \/ Acknowledge \/ LegacyHandler
PicDevices == \E l \in Lines : Raise(l)

-----------------------------------------------------------------------------
(* Properties *)

(* The mask registers hold what the drivers asked for, line by line: no    *)
(* function reaches a line of the other controller.                        *)
MasksAsAsked ==
  drivers /\ InitDone => \A l \in 0 .. 15 : (Bit(mask[l \div 8 + 1], l % 8) = 1) <=> l \in closed

(* Every handler ends its interrupt on all controllers that have it in     *)
(* service; a bit left over keeps out all lines of lower priority.         *)
NothingServed == code = 0 => served = <<{}, {}>>

(* What drivers may rely on between two of their calls.                    *)
DriversServed == MasksAsAsked /\ NothingServed
=============================================================================
