------------------------------- MODULE Paging -------------------------------
(***************************************************************************)
(* The virtual-memory subsystem of pekOS: kernel/arch/i386/memory/paging.c *)
(* and the page-fault handler of process/exception_handler.c, from the     *)
(* moment boot.S has handed over and init_idt has armed the page fault.    *)
(*                                                                         *)
(* Two-level tables of Entries entries (1024 in the code).  A virtual page *)
(* is the pair <<pdindex, ptindex>> the code extracts from an address.     *)
(* Entry LastPD of the directory points at the directory itself, so the    *)
(* pages <<LastPD, d>> are a window on table d; every access the code      *)
(* makes to pd[...] and pt[...] goes through that window, and so does Walk.*)
(* An entry is the frame it points at, or Absent when its present bit is   *)
(* clear; the flags are always 3 (present, writable, supervisor), so the   *)
(* two halting branches of page_fault_handler (protection violation, user  *)
(* mode) cannot be reached and are left out.                               *)
(***************************************************************************)
EXTENDS Integers, FiniteSets

CONSTANTS
  Entries,         \* entries of a page table (1024)
  WordBits,        \* pages per word of virtual_mmap (32)
  KernelPD,        \* directory entry of the higher half (768)
  ImagePages,      \* pages that boot.S maps from KernelPD on (up to 1023)
  PDFrame,         \* frame of boot_page_directory
  PT1Frame,        \* frame of boot_page_table1
  PoolFrame,       \* first frame of kernel_PTs
  PoolSize,        \* tables in kernel_PTs (256)
  VGAFrame,        \* frame of the VGA text buffer (0xB8)
  DemandBase,      \* initial cur_physaddr, as a frame (0x10000)
  NFrames,         \* frames of the 32-bit physical space (2^20)
  FirmwareFrames,  \* frames that drivers map: ACPI tables, local APIC, IOAPIC
  Touchable,       \* pages that kernel code may access without mapping them
  MaxRequests,     \* bound: how many frames the drivers ask for
  IndexOnPool      \* TRUE when the linker left kernel_PTs unaligned, so that
                   \* its first frame also holds the word kernel_PT_index

Slots == 0 .. Entries - 1
LastPD == Entries - 1
VPages == Slots \X Slots
Frames == 0 .. NFrames - 1
Image == 0 .. ImagePages - 1
Pool == PoolFrame .. PoolFrame + PoolSize - 1
TableFrames == {PDFrame, PT1Frame} \cup Pool
Absent == -1

(* The frames that page faults can come to hand out: find_free_physaddr    *)
(* counts up from DemandBase, one frame for each page outside the window.  *)
DemandPages == {v \in Touchable : v[1] # LastPD}
DemandFrames == DemandBase .. DemandBase + Cardinality(DemandPages) - 1

(* A driver's frame may be anywhere that holds no page table: BIOS tables  *)
(* below the image's end, ACPI tables at the top of RAM, the APICs at      *)
(* 0xFEE00 and 0xFEC00.                                                    *)

ASSUME PagingAssumption ==
  /\ Entries \in Nat /\ WordBits \in Nat \ {0}
  /\ KernelPD \in Nat /\ KernelPD < LastPD
  /\ ImagePages \in Nat /\ ImagePages < Entries
  /\ PDFrame \in Image /\ PT1Frame \in Image /\ PDFrame # PT1Frame
  /\ PoolSize \in Nat \ {0} /\ PoolFrame \in Image /\ Pool \subseteq Image
  /\ PDFrame \notin Pool /\ PT1Frame \notin Pool
  /\ DemandBase \in Nat /\ NFrames \in Nat
  /\ ImagePages <= DemandBase /\ DemandBase < NFrames
  /\ VGAFrame \in Image \ TableFrames
  /\ FirmwareFrames \subseteq Frames \ TableFrames
  /\ Touchable \subseteq VPages
  /\ MaxRequests \in Nat
  /\ IndexOnPool \in BOOLEAN

VARIABLES
  tables,            \* the kernel's own frames, read as page tables
  kernel_PT_index,   \* next unused table of kernel_PTs
  virtual_mmap,      \* pages whose bit is set in the bitmap
  cur_virtaddr_idx,  \* where find_free_virtaddr resumes: first page of a word
  cur_physaddr,      \* next frame find_free_physaddr hands out
  ready,             \* init_page_allocation has run
  granted            \* history: <<page, frame>> of every request answered

vars == <<tables, kernel_PT_index, virtual_mmap, cur_virtaddr_idx,
          cur_physaddr, ready, granted>>

-----------------------------------------------------------------------------
(* Walking and editing the tables *)

EmptyTable == [i \in Slots |-> Absent]

(* The frame a page translates to: what the MMU does, and get_physaddr.    *)
Walk(t, v) ==
  LET pt == t[PDFrame][v[1]]
  IN  IF pt = Absent THEN Absent ELSE t[pt][v[2]]

(* Definitions whose name holds an underscore and a mistake in capitals    *)
(* are faulty variants of the one they precede.  Nothing uses them; they   *)
(* say which slip of the code each property below would notice.            *)

(* allocate_pt: the table at kernel_PTs + kernel_PT_index * 0x1000.  There *)
(* is no test that the index is still inside the array.                    *)
AllocatePT_FROM_ONE(t, index) == Walk(t, <<KernelPD, PoolFrame>>) + index + 1

AllocatePT(t, index) == Walk(t, <<KernelPD, PoolFrame>>) + index

(* The first half of map_page: directory entry d gets a table if it has    *)
(* none, and the new table is cleared through the window.                  *)
LinkTable_CLEARS_ALWAYS(t, index, d) ==
  LET pt == IF t[PDFrame][d] = Absent THEN AllocatePT(t, index) ELSE t[PDFrame][d]
  IN  [[t EXCEPT ![PDFrame][d] = pt] EXCEPT ![pt] = EmptyTable]

LinkTable(t, index, d) ==
  LET new == AllocatePT(t, index)
  IN  IF t[PDFrame][d] = Absent
      THEN [[t EXCEPT ![PDFrame][d] = new] EXCEPT ![new] = EmptyTable]
      ELSE t

(* ... and its effect on kernel_PT_index: allocate_pt advances it, but     *)
(* clearing the first pool frame also clears the word if it lies there.    *)
IndexAfterLink(t, index, d) ==
  CASE t[PDFrame][d] # Absent -> index
    [] t[PDFrame][d] = Absent /\ IndexOnPool /\ AllocatePT(t, index) = PoolFrame -> 0
    [] OTHER -> index + 1

(* The second half of map_page: a present entry is left alone ("PTE        *)
(* already present ... aborting page mapping").                            *)
SetEntry(t, f, v) ==
  IF Walk(t, v) # Absent THEN t ELSE [t EXCEPT ![t[PDFrame][v[1]]][v[2]] = f]

MapPage(f, v) ==
  /\ tables' = SetEntry(LinkTable(tables, kernel_PT_index, v[1]), f, v)
  /\ kernel_PT_index' = IndexAfterLink(tables, kernel_PT_index, v[1])

-----------------------------------------------------------------------------
(* The state boot.S leaves: the image and the VGA buffer mapped from       *)
(* KernelPD on, the directory mapped on itself, the identity map removed.  *)

BootDirectory ==
  [d \in Slots |-> IF d = KernelPD THEN PT1Frame
                   ELSE IF d = LastPD THEN PDFrame ELSE Absent]

BootTable ==
  [i \in Slots |-> IF i \in Image THEN i
                   ELSE IF i = Entries - 1 THEN VGAFrame ELSE Absent]

Init ==
  /\ tables = [f \in Image |-> IF f = PDFrame THEN BootDirectory
                               ELSE IF f = PT1Frame THEN BootTable ELSE EmptyTable]
  /\ kernel_PT_index = 0
  /\ virtual_mmap = {}
  /\ cur_virtaddr_idx = <<KernelPD, 0>>
  /\ cur_physaddr = DemandBase
  /\ ready = FALSE
  /\ granted = {}

-----------------------------------------------------------------------------
(* init_page_allocation -> map_virtual_memory: the bitmap becomes a        *)
(* snapshot of what is mapped now.                                         *)
InitPageAllocation_SKIPS_IMAGE ==
  /\ ~ready
  /\ ready' = TRUE
  /\ virtual_mmap' = {v \in VPages : v[1] > KernelPD /\ Walk(tables, v) # Absent}
  /\ UNCHANGED <<tables, kernel_PT_index, cur_virtaddr_idx, cur_physaddr, granted>>

InitPageAllocation ==
  /\ ~ready
  /\ ready' = TRUE
  /\ virtual_mmap' = {v \in VPages : Walk(tables, v) # Absent}
  /\ UNCHANGED <<tables, kernel_PT_index, cur_virtaddr_idx, cur_physaddr, granted>>

Precedes(v, w) == v[1] < w[1] \/ (v[1] = w[1] /\ v[2] < w[2])

FreePages == {v \in VPages : v \notin virtual_mmap /\ ~Precedes(v, cur_virtaddr_idx)}

(* find_free_virtaddr: first clear bit at or after the cursor; the bit is  *)
(* set and the cursor moves to the word it is in.                          *)
FindFreeVirtaddr_BIT_NOT_SET(v) ==
  /\ v \in FreePages
  /\ \A w \in FreePages : ~Precedes(w, v)
  /\ cur_virtaddr_idx' = <<v[1], v[2] - (v[2] % WordBits)>>
  /\ UNCHANGED virtual_mmap

FindFreeVirtaddr(v) ==
  /\ v \in FreePages
  /\ \A w \in FreePages : ~Precedes(w, v)
  /\ virtual_mmap' = virtual_mmap \cup {v}
  /\ cur_virtaddr_idx' = <<v[1], v[2] - (v[2] % WordBits)>>

(* Two bounds.  The drivers ask for MaxRequests frames (a dozen ACPI tables *)
(* and two APICs), so the allocator never comes near the window at the end *)
(* of the address space.                                                   *)
WithinKernelSpace(v) == v[1] # LastPD
MoreRequests == Cardinality(granted) < MaxRequests

(* What init_rsdt and init_apic do for every frame they need: find a free  *)
(* page, map the frame there, use the page from now on.                    *)
MapFresh(f) ==
  /\ ready
  /\ MoreRequests
  /\ \E v \in VPages :
       /\ WithinKernelSpace(v)
       /\ FindFreeVirtaddr(v)
       /\ MapPage(f, v)
       /\ granted' = granted \cup {<<v, f>>}
  /\ UNCHANGED <<cur_physaddr, ready>>

(* page_fault_handler outside the window: back the page with the next      *)
(* physical frame.  The bitmap is not told.                                *)
FaultOnData_SAME_FRAME(v) ==
  /\ v[1] # LastPD
  /\ Walk(tables, v) = Absent
  /\ MapPage(cur_physaddr, v)
  /\ UNCHANGED <<virtual_mmap, cur_virtaddr_idx, cur_physaddr, ready, granted>>

FaultOnData(v) ==
  /\ v[1] # LastPD
  /\ Walk(tables, v) = Absent
  /\ cur_physaddr' = (cur_physaddr + 1) % NFrames
  /\ MapPage(cur_physaddr, v)
  /\ UNCHANGED <<virtual_mmap, cur_virtaddr_idx, ready, granted>>

(* page_fault_handler inside the window ("PT not present in PD"): a table  *)
(* is linked into the directory; on this path it is not cleared.           *)
FaultOnWindow_INDEX_KEPT(v) ==
  /\ v[1] = LastPD
  /\ Walk(tables, v) = Absent
  /\ tables' = SetEntry(tables, AllocatePT(tables, kernel_PT_index), v)
  /\ UNCHANGED <<kernel_PT_index, virtual_mmap, cur_virtaddr_idx, cur_physaddr,
                 ready, granted>>

FaultOnWindow(v) ==
  /\ v[1] = LastPD
  /\ Walk(tables, v) = Absent
  /\ tables' = SetEntry(tables, AllocatePT(tables, kernel_PT_index), v)
  /\ kernel_PT_index' = kernel_PT_index + 1
  /\ UNCHANGED <<virtual_mmap, cur_virtaddr_idx, cur_physaddr, ready, granted>>

Next ==
  \/ InitPageAllocation
  \/ \E f \in FirmwareFrames : MapFresh(f)
  \/ \E v \in Touchable : FaultOnData(v)
  \/ \E v \in Touchable : FaultOnWindow(v)

Spec == Init /\ [][Next]_vars

-----------------------------------------------------------------------------
(* Properties *)

(* Shapes of the variables of paging.c.                                    *)
TypeOK ==
  /\ tables \in [Image -> [Slots -> Frames \cup {Absent}]]
  /\ kernel_PT_index \in Nat
  /\ virtual_mmap \in SUBSET VPages
  /\ cur_virtaddr_idx \in VPages
  /\ cur_physaddr \in Frames
  /\ ready \in BOOLEAN
  /\ granted \in SUBSET (VPages \X Frames)

(* A driver that asked for a frame finds that frame, and no other, at the  *)
(* page it was given: the point of find_free_virtaddr + map_page in        *)
(* init_rsdt and init_apic ("map page to rsdt location so we can access    *)
(* it", rsdt.c:28), whatever page faults came before or after.             *)
MappedAsAsked == \A g \in granted : Walk(tables, g[1]) = g[2]

(* allocate_pt "returns physical address of unused page table"             *)
(* (paging.c:123): no two directory entries ever share a table.            *)
TablesNotShared ==
  \A d, e \in Slots : d # e /\ tables[PDFrame][d] = tables[PDFrame][e]
                        => tables[PDFrame][d] = Absent

(* "256 page tables were preallocated, just get the phys addr of one of    *)
(* them" (paging.c:124): every table is the directory, the boot table or   *)
(* a member of kernel_PTs, never the memory behind that array.             *)
TablesFromPool ==
  \A d \in Slots : tables[PDFrame][d] \in {Absent, PDFrame, PT1Frame} \cup Pool

(* No page outside the higher half and the window gives access to the      *)
(* kernel's own frames, where the tables are, but for what lies there of   *)
(* the firmware.                                                           *)
KernelFramesPrivate ==
  \A v \in VPages :
     v[1] \notin {KernelPD, LastPD} => Walk(tables, v) \notin Image \ FirmwareFrames

(* Frames from find_free_physaddr are never shared by two pages, and none  *)
(* of them is one that a driver has mapped.  Drivers do share: init_rsdt   *)
(* maps a page of its own for each table, "even if they fall in the same   *)
(* physical page" (rsdt.c:93-94).                                          *)
DemandFramesPrivate ==
  \A v, w \in VPages :
     v # w /\ Walk(tables, v) \in DemandFrames => Walk(tables, v) # Walk(tables, w)

(* A table of kernel_PTs that has not been handed out is still as the      *)
(* loader left it.  page_fault_handler relies on it: a table that it links *)
(* for a fault inside the window is not cleared ("PT not present in PD",   *)
(* exception_handler.c:103), and what it held would become mappings.       *)
FreshTablesEmpty ==
  \A f \in Pool : f >= PoolFrame + kernel_PT_index => tables[f] = EmptyTable

(* The pool of tables is kept: what is linked comes from it, and what is   *)
(* left of it is empty.                                                    *)
PoolKept == TablesFromPool /\ FreshTablesEmpty

(* The frames behind pages are private: those of the kernel to the kernel, *)
(* those handed out on demand to one page each.  The second needs          *)
(* FirmwareOutOfReach of PagingDiscipline, as does the refinement below.   *)
FramesPrivate == KernelFramesPrivate /\ DemandFramesPrivate

(* The translation of a page never changes once it exists: map_page has no *)
(* way to undo a mapping, and neither a new table nor a fault may do so    *)
(* by accident.  It is also why no stale TLB entry can be used.            *)
MappingsAreStable ==
  [][\A v \in VPages : Walk(tables, v) # Absent
                         => Walk(tables', v) = Walk(tables, v)]_vars

-----------------------------------------------------------------------------
(* The abstract address space this module implements.  The window holds    *)
(* tables, not data, and is not part of it.                                *)
DataPages == {v \in VPages : v[1] # LastPD}

AS == INSTANCE AddressSpace WITH
        Pages <- DataPages,
        space <- [v \in DataPages |-> Walk(tables, v)]

ImplementsAddressSpace == AS!Spec
=============================================================================
