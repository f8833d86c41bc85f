-------------------------------- MODULE Boot --------------------------------
(***************************************************************************)
(* kernel/arch/i386/boot.S, from _start to the call of kernel_main, on a   *)
(* processor that may keep the translations it has used; then paging.c and *)
(* the page-fault handler, as in module Paging.                            *)
(*                                                                         *)
(* While boot.S runs it builds its tables in memory; tables is what Paging *)
(* starts from, and HandsOver says that the two agree when kernel_main is  *)
(* called.  A step is one or several instructions of which one matters     *)
(* here, and at names the next one.  Interrupts are off throughout, there  *)
(* is no IDT, and an access that does not translate resets the machine.    *)
(***************************************************************************)
EXTENDS PagingDiscipline

CONSTANTS
  BootText,   \* the frame of .multiboot.text, linked at its physical address
  Text,       \* a frame of .text, linked in the higher half
  Stack,      \* the frame below stack_top
  Watched     \* pages whose translation the processor may keep

ASSUME BootAssumption ==
  /\ {BootText, Text, Stack} \subseteq Image \ ({PDFrame, PT1Frame} \cup Pool)
  /\ Watched \subseteq VPages /\ KernelPD > 0

VARIABLES
  at,         \* what boot.S does next
  esi, ecx,   \* the page to map, and how many more the loop may map
  memory,     \* the kernel's own frames, as Paging's tables
  cr3,        \* frame of the directory the processor walks; Absent: none yet
  paging,     \* cr0.PG
  tlb         \* translations kept, of Watched

bootVars == <<at, esi, ecx, memory, cr3, paging, tlb>>

(* The boot loader has cleared .bss, where the directory and the tables    *)
(* are, and set the registers that _start sets.                            *)
BootInit ==
  /\ Init
  /\ at = "map" /\ esi = 0 /\ ecx = Entries - 1
  /\ memory = [f \in Image |-> EmptyTable]
  /\ cr3 = Absent /\ paging = FALSE /\ tlb = [v \in Watched |-> Absent]

-----------------------------------------------------------------------------
(* What the processor makes of an address *)

Present(v) == cr3 # Absent /\ memory[cr3][v[1]] # Absent
              /\ memory[memory[cr3][v[1]]][v[2]] # Absent

(* The frames an access to page v may reach: the one in the tables, or one *)
(* kept from an earlier access.                                            *)
Translations(v) ==
  {memory[memory[cr3][p[1]]][p[2]] : p \in {q \in {v} : Present(q)}}
    \cup {tlb[p] : p \in {q \in {v} \cap Watched : tlb[q] # Absent}}

(* The processor walks the tables, for an access or ahead of one, and      *)
(* keeps the result.                                                       *)
KeepTranslation(v) ==
  /\ paging /\ at # "kernel" /\ Present(v)
  /\ tlb' = [tlb EXCEPT ![v] = memory[memory[cr3][v[1]]][v[2]]]
  /\ UNCHANGED <<at, esi, ecx, memory, cr3, paging>>

-----------------------------------------------------------------------------
(* boot.S *)

Goes(from, to) == at = from /\ at' = to

(* An entry is written by its physical address.                            *)
Writes(table, entry, frame) ==
  /\ memory' = [memory EXCEPT ![table][entry] = frame]
  /\ UNCHANGED <<cr3, paging, tlb>>

(* The loop at 1: one entry of boot_page_table1 for each page up to        *)
(* _kernel_end, but never its last one.                                    *)
MapImage_WHOLE_TABLE ==
  /\ at = "map" /\ at' = (IF ecx = 1 THEN "vga" ELSE "map")
  /\ Writes(PT1Frame, esi, esi) /\ esi' = esi + 1 /\ ecx' = ecx - 1

MapImage ==
  /\ at = "map" /\ esi < ImagePages
  /\ at' = (IF ecx = 1 THEN "vga" ELSE "map")
  /\ Writes(PT1Frame, esi, esi) /\ esi' = esi + 1 /\ ecx' = ecx - 1

ImageMapped ==
  /\ Goes("map", "vga") /\ esi >= ImagePages
  /\ UNCHANGED <<esi, ecx, memory, cr3, paging, tlb>>

MapVGA == Goes("vga", "low") /\ Writes(PT1Frame, Entries - 1, VGAFrame) /\ UNCHANGED <<esi, ecx>>
MapLow_SKIPPED == Goes("low", "high") /\ UNCHANGED <<esi, ecx, memory, cr3, paging, tlb>>
MapLow == Goes("low", "high") /\ Writes(PDFrame, 0, PT1Frame) /\ UNCHANGED <<esi, ecx>>
MapHigh == Goes("high", "self") /\ Writes(PDFrame, KernelPD, PT1Frame) /\ UNCHANGED <<esi, ecx>>
MapSelf == Goes("self", "cr3") /\ Writes(PDFrame, LastPD, PDFrame) /\ UNCHANGED <<esi, ecx>>

LoadCr3 ==
  /\ Goes("cr3", "cr0") /\ cr3' = PDFrame /\ tlb' = [v \in Watched |-> Absent]
  /\ UNCHANGED <<esi, ecx, memory, paging>>

EnablePaging ==
  /\ Goes("cr0", "jump") /\ paging' = TRUE
  /\ UNCHANGED <<esi, ecx, memory, cr3, tlb>>

(* jmp *%ecx, to label 4 in .text.                                         *)
JumpHigh ==
  Goes("jump", "unmap") /\ UNCHANGED <<esi, ecx, memory, cr3, paging, tlb>>

(* From here on the directory is written through its page in the higher    *)
(* half.                                                                   *)
UnmapLow ==
  /\ Goes("unmap", "reload")
  /\ \E f \in Translations(<<KernelPD, PDFrame>>) \cap Image : Writes(f, 0, Absent)
  /\ UNCHANGED <<esi, ecx>>

ReloadCr3_FORGOTTEN ==
  Goes("reload", "push") /\ UNCHANGED <<esi, ecx, memory, cr3, paging, tlb>>

ReloadCr3 ==
  /\ Goes("reload", "push") /\ tlb' = [v \in Watched |-> Absent]
  /\ UNCHANGED <<esi, ecx, memory, cr3, paging>>

(* The registers of the boot loader are pushed and _init is called.        *)
PushArguments == Goes("push", "call") /\ UNCHANGED <<esi, ecx, memory, cr3, paging, tlb>>
CallKernelMain == Goes("call", "kernel") /\ UNCHANGED <<esi, ecx, memory, cr3, paging, tlb>>

BootStep ==
  \/ MapImage \/ ImageMapped \/ MapVGA \/ MapLow \/ MapHigh \/ MapSelf
  \/ LoadCr3 \/ EnablePaging \/ JumpHigh \/ UnmapLow \/ ReloadCr3
  \/ PushArguments \/ CallKernelMain
  \/ \E v \in Watched : KeepTranslation(v)

BootNext ==
  \/ BootStep /\ UNCHANGED vars
  \/ at = "kernel" /\ Next /\ UNCHANGED bootVars

BootSpec == BootInit /\ [][BootNext]_<<vars, bootVars>>

-----------------------------------------------------------------------------
(* Properties *)

(* What the instructions at a step use: the page of the code, and the data *)
(* it reads or writes.                                                     *)
Low == {"map", "vga", "low", "high", "self", "cr3", "cr0", "jump"}

Accesses ==
  {IF at \in Low THEN <<0, BootText>> ELSE <<KernelPD, Text>>}
    \cup {<<KernelPD, PDFrame>> : s \in {at} \cap {"unmap"}}
    \cup {<<KernelPD, Stack>> : s \in {at} \cap {"push", "call"}}

(* "The kernel is identity mapped because enabling paging does not change  *)
(* the next instruction, which continues to be physical.  The CPU would    *)
(* instead page fault" (boot.S:94): from the moment paging is on, every    *)
(* instruction of boot.S and the data it uses are found where they are in  *)
(* memory, whatever translations the processor has kept.                   *)
AccessesLand ==
  paging /\ at # "kernel" => \A v \in Accesses : Translations(v) = {v[2]}

(* The identity mapping is gone for good once cr3 has been reloaded ("to   *)
(* force a TLB flush", boot.S:140): no kept translation disagrees with the *)
(* tables, those of boot.S or, later, those the page-fault handler extends *)
(* (a low page that the kernel touches gets the frame found for it, and    *)
(* not the one that the boot code ran from).                               *)
NothingStale ==
  at \in {"push", "call", "kernel"} =>
    \A v \in Watched : tlb[v] = Absent
      \/ tlb[v] = Walk(IF at = "kernel" THEN tables ELSE memory, v)

(* What paging.c is written for is what boot.S leaves: the image and the   *)
(* VGA buffer in the higher half, the directory mapped on itself, the      *)
(* identity map removed, and every other table empty.                      *)
HandsOver == at = "call" => memory = tables /\ cr3 = PDFrame /\ paging
=============================================================================
