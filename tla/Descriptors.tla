---------------------------- MODULE Descriptors -----------------------------
(***************************************************************************)
(* Segments, task state and interrupt gates: init_gdt and write_tss of     *)
(* process/gdt.c with gdt_flush.S and tss_flush.S, and init_idt of         *)
(* process/idt.c up to its lidt.  Tables are built in memory, entry by     *)
(* entry with the bit fields of gdt.h and idt.h, and then handed to the    *)
(* processor, which reads them when a selector is loaded or used.          *)
(***************************************************************************)
EXTENDS Integers

CONSTANTS
  LowBase,      \* values of base_low (2^24)
  HighBase,     \* values of base_high (2^8)
  LowLimit,     \* values of limit_low (2^16)
  Half,         \* values of isr_low and isr_high (2^16)
  TssAddress,   \* &tss_entry
  TssSize,      \* sizeof(tss_entry) (104)
  StackPointer, \* in write_tss
  Gates,        \* IDT_MAX_DESCRIPTORS (256)
  Stubs         \* isr_stub_table

ASSUME DescriptorsAssumption ==
  /\ LowBase \in Nat \ {0} /\ HighBase \in Nat \ {0} /\ LowLimit \in Nat \ {0}
  /\ Half \in Nat \ {0} /\ Gates \in Nat
  /\ TssAddress \in 0 .. LowBase * HighBase - 1
  /\ TssSize \in 1 .. LowLimit * 16 - 1 /\ StackPointer \in Nat \ {0}
  /\ Stubs \in [0 .. Gates - 1 -> 0 .. Half * Half - 1]

VARIABLES
  built,       \* what init_gdt and init_idt do next
  gdt,         \* the table in memory
  gdtLimit,    \* of the table the processor uses; -1: the boot loader's
  cs, ds,      \* selectors, ds for all data segments; 0: the boot loader's
  tr,          \* task register
  tss,         \* tss_entry
  idt, gate,   \* the gates in memory, and the next to be set
  idtLimit     \* of the table the processor uses; -1: none

descriptorVars == <<built, gdt, gdtLimit, cs, ds, tr, tss, idt, gate, idtLimit>>

CODE == 8
DATA == 16
TSS == 40

(* The fields that are not 0 in some descriptor; "system" is a descriptor  *)
(* with code_data_segment clear.                                           *)
Null == [limit |-> <<0, 0>>, base |-> <<0, 0>>, accessed |-> 0, read_write |-> 0, code |-> 0,
         code_data_segment |-> 0, DPL |-> 0, present |-> 0, gran |-> 0, big |-> 0]

DescriptorsInit ==
  /\ built = "segments" /\ gdt = [k \in 0 .. 5 |-> Null] /\ gdtLimit = -1
  /\ cs = 0 /\ ds = 0 /\ tr = 0 /\ tss = [ss0 |-> 0, esp0 |-> 0]
  /\ idt = [v \in 0 .. Gates - 1 |-> [isr |-> <<0, 0>>, cs |-> 0, flags |-> 0]]
  /\ gate = 0 /\ idtLimit = -1

-----------------------------------------------------------------------------
(* init_gdt *)

Does(from, to) == built = from /\ built' = to

Ring0Code ==
  [limit |-> <<LowLimit - 1, 15>>, base |-> <<0, 0>>, accessed |-> 0, read_write |-> 1, code |-> 1,
   code_data_segment |-> 1, DPL |-> 0, present |-> 1, gran |-> 1, big |-> 1]

(* The others are copies of this one.                                      *)
BuildSegments ==
  /\ Does("segments", "lgdt")
  /\ gdt' = [gdt EXCEPT ![1] = Ring0Code, ![2] = [Ring0Code EXCEPT !.code = 0],
                        ![3] = [Ring0Code EXCEPT !.DPL = 3],
                        ![4] = [Ring0Code EXCEPT !.DPL = 3, !.code = 0]]
  /\ UNCHANGED <<gdtLimit, cs, ds, tr, tss, idt, gate, idtLimit>>

FlushGdt_FIVE ==
  /\ Does("lgdt", "reload")
  /\ gdtLimit' = 5 * 8 - 1
  /\ UNCHANGED <<gdt, cs, ds, tr, tss, idt, gate, idtLimit>>

FlushGdt ==
  /\ Does("lgdt", "reload")
  /\ gdtLimit' = 6 * 8 - 1
  /\ UNCHANGED <<gdt, cs, ds, tr, tss, idt, gate, idtLimit>>

ReloadSegments ==
  /\ Does("reload", "tss")
  /\ cs' = CODE /\ ds' = DATA
  /\ UNCHANGED <<gdt, gdtLimit, tr, tss, idt, gate, idtLimit>>

(* write_tss *)
WriteTss ==
  /\ Does("tss", "ltr")
  /\ gdt' = [gdt EXCEPT ![5] =
       [limit |-> <<TssSize % LowLimit, (TssSize \div LowLimit) % 16>>,
        base |-> <<TssAddress % LowBase, (TssAddress \div LowBase) % HighBase>>,
        accessed |-> 1, read_write |-> 0, code |-> 1, code_data_segment |-> 0,
        DPL |-> 0, present |-> 1, gran |-> 0, big |-> 0]]
  /\ tss' = [ss0 |-> DATA, esp0 |-> StackPointer]
  /\ UNCHANGED <<gdtLimit, cs, ds, tr, idt, gate, idtLimit>>

(* flush_tss; ltr marks the descriptor busy.                               *)
FlushTss ==
  /\ Does("ltr", "gates")
  /\ tr' = TSS /\ gdt' = [gdt EXCEPT ![TSS \div 8].read_write = 1]
  /\ UNCHANGED <<gdtLimit, cs, ds, tss, idt, gate, idtLimit>>

-----------------------------------------------------------------------------
(* init_idt *)

SetDescriptor_HIGH_FIRST ==
  /\ built = "gates" /\ gate < Gates
  /\ idt' = [idt EXCEPT ![gate] = [isr |-> <<Stubs[gate] \div Half, Stubs[gate] % Half>>,
                                   cs |-> CODE, flags |-> 142]]
  /\ gate' = gate + 1
  /\ UNCHANGED <<built, gdt, gdtLimit, cs, ds, tr, tss, idtLimit>>

(* idt_set_descriptor(vector, isr_stub_table[vector], 0x8E) *)
SetDescriptor ==
  /\ built = "gates" /\ gate < Gates
  /\ idt' = [idt EXCEPT ![gate] = [isr |-> <<Stubs[gate] % Half, Stubs[gate] \div Half>>,
                                   cs |-> CODE, flags |-> 142]]
  /\ gate' = gate + 1
  /\ UNCHANGED <<built, gdt, gdtLimit, cs, ds, tr, tss, idtLimit>>

LoadIdt ==
  /\ gate = Gates /\ Does("gates", "sti")
  /\ idtLimit' = 8 * Gates - 1
  /\ UNCHANGED <<gdt, gdtLimit, cs, ds, tr, tss, idt, gate>>

-----------------------------------------------------------------------------
(* Properties *)

(* A descriptor that the processor finds in its table                      *)
Present(sel) == sel # 0 /\ sel + 7 <= gdtLimit /\ gdt[sel \div 8].present = 1

(* A flat 32-bit kernel segment: ring 0, base 0, all 2^20 pages            *)
KernelSegment(sel) ==
  /\ Present(sel)
  /\ LET d == gdt[sel \div 8]
     IN /\ d.code_data_segment = 1 /\ d.DPL = 0 /\ d.base = <<0, 0>>
        /\ d.gran = 1 /\ d.big = 1 /\ d.limit = <<LowLimit - 1, 15>> /\ d.read_write = 1

KernelCode(sel) == KernelSegment(sel) /\ gdt[sel \div 8].code = 1
KernelData(sel) == KernelSegment(sel) /\ gdt[sel \div 8].code = 0

(* Every selector that has been loaded finds a descriptor of the kind its  *)
(* register needs inside the limit, and the task state that an interrupt   *)
(* from ring 3 would use is found and has a stack.  The tables are still   *)
(* written after lgdt, by write_tss and by ltr itself.                     *)
SelectorsUsable ==
  /\ cs # 0 => KernelCode(cs) /\ KernelData(ds)
  /\ tr # 0 =>
       LET d == gdt[tr \div 8]
       IN /\ Present(tr) /\ d.code_data_segment = 0 /\ d.code = 1 /\ d.accessed = 1
          /\ d.base[1] + LowBase * d.base[2] = TssAddress
          /\ d.limit[1] + LowLimit * d.limit[2] >= TssSize - 1
          /\ KernelData(tss.ss0) /\ tss.esp0 = StackPointer

(* All gates are inside the limit and lead to the stub of their vector in  *)
(* the kernel's code segment, with interrupts off (0x8E).                  *)
GatesReachStubs ==
  \A v \in 0 .. Gates - 1 :
    /\ 8 * v + 7 <= idtLimit /\ idt[v].flags = 142 /\ KernelCode(idt[v].cs)
    /\ idt[v].isr[1] + Half * idt[v].isr[2] = Stubs[v]
=============================================================================
