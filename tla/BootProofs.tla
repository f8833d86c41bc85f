----------------------------- MODULE BootProofs -----------------------------
(***************************************************************************)
(* What is proved of boot.S and of the memory code it starts, for tables   *)
(* and images of any size and any set of translations that are kept.       *)
(***************************************************************************)
EXTENDS Boot, PagingProofs

-----------------------------------------------------------------------------
(* boot.S starts paging.c, and does not disturb it *)

(* From kernel_main on, the machine behaves as Paging says; until then the *)
(* variables of paging.c have their initial values.                        *)
THEOREM StartsPaging == BootSpec => Spec
<1>1. BootInit => Init
  BY DEF BootInit
<1>2. [BootNext]_<<vars, bootVars>> => [Next]_vars
  BY DEF BootNext
<1> QED
  BY <1>1, <1>2, PTL DEF BootSpec, Spec

-----------------------------------------------------------------------------
(* The inductive invariant *)

BeforeVga == {"map", "vga"}
BeforeHigh == {"map", "vga", "low", "high"}
BeforeSelf == BeforeHigh \cup {"self"}
BeforeCr3 == BeforeSelf \cup {"cr3"}
Real == BeforeCr3 \cup {"cr0"}
Identity == {"high", "self", "cr3", "cr0", "jump", "unmap"}
Labels == Real \cup {"jump", "unmap", "reload", "push", "call", "kernel"}

(* boot_page_table1 and boot_page_directory before the instruction at.     *)
TableSoFar ==
  [i \in Slots |->
     CASE at = "map" -> IF i < esi THEN i ELSE Absent
       [] at = "vga" -> IF i \in Image THEN i ELSE Absent
       [] OTHER -> BootTable[i]]

DirectorySoFar ==
  [d \in Slots |->
     CASE d = 0 -> IF at \in Identity THEN PT1Frame ELSE Absent
       [] d = KernelPD -> IF at \in BeforeHigh THEN Absent ELSE PT1Frame
       [] d = LastPD -> IF at \in BeforeSelf THEN Absent ELSE PDFrame
       [] OTHER -> Absent]

MemorySoFar ==
  /\ memory = [f \in Image |-> IF f = PDFrame THEN DirectorySoFar
                               ELSE IF f = PT1Frame THEN TableSoFar ELSE EmptyTable]
  /\ at = "map" => esi \in 0 .. ImagePages /\ ecx = Entries - 1 - esi /\ ecx > 0

Processor ==
  /\ cr3 = IF at \in BeforeCr3 THEN Absent ELSE PDFrame
  /\ paging = (at \notin Real)

(* What is kept agrees with the tables, but for the identity mapping (and  *)
(* the window on its table) between its removal and the reload of cr3.     *)
Kept ==
  /\ tlb \in [Watched -> Frames \cup {Absent}]
  /\ \A v \in Watched : tlb[v] # Absent =>
       /\ at \notin Real
       /\ at \notin {"reload", "kernel"} => tlb[v] = Walk(memory, v)
       /\ at = "kernel" => tlb[v] = Walk(tables, v)
       /\ at = "reload" /\ v[1] = KernelPD => tlb[v] = BootTable[v[2]]

BootInv ==
  /\ at \in Labels
  /\ at # "kernel" => Init
  /\ MemorySoFar /\ Processor /\ Kept

-----------------------------------------------------------------------------
(* Facts about the tables *)

LEMMA BootConstants ==
  /\ 0 \in Slots /\ KernelPD \in Slots /\ LastPD \in Slots /\ LastPD = Entries - 1
  /\ 0 # KernelPD /\ 0 # LastPD /\ KernelPD # LastPD
  /\ Entries \in Nat /\ ImagePages \in Nat /\ ImagePages < Entries /\ Entries > 2
  /\ PDFrame \in Image /\ PT1Frame \in Image /\ PDFrame # PT1Frame
  /\ Image \subseteq Slots \ {LastPD} /\ Absent \notin Frames /\ VGAFrame \in Frames
  /\ {BootText, Text, Stack} \subseteq Image /\ Image \subseteq Frames
  /\ Watched \subseteq VPages
<1>1. /\ Entries \in Nat /\ ImagePages \in Nat /\ ImagePages < Entries
      /\ KernelPD \in Nat /\ KernelPD < Entries - 1 /\ KernelPD > 0
      /\ VGAFrame \in Image /\ Watched \subseteq VPages
      /\ {BootText, Text, Stack} \subseteq Image
  BY PagingAssumption, BootAssumption DEF PagingAssumption, BootAssumption, LastPD
<1>2. Image \subseteq Slots \ {LastPD}
  BY <1>1 DEF Image, Slots, LastPD
<1> QED
  BY <1>1, <1>2, Constants, PagingAssumption DEF PagingAssumption, Slots, LastPD

(* The image is where boot_page_table1 says, once that is complete.        *)
LEMMA ImageInTable == \A i \in Image : BootTable[i] = i
BY BootConstants DEF BootTable

(* Translation while boot.S runs with paging on.                           *)
LEMMA WalkSoFar ==
  ASSUME MemorySoFar, at \notin Real, at # "kernel", NEW v \in VPages
  PROVE  /\ v[1] = KernelPD => Walk(memory, v) = BootTable[v[2]]
         /\ v[1] = 0 /\ at \in Identity => Walk(memory, v) = BootTable[v[2]]
         /\ Walk(memory, v) \in Frames \cup {Absent}
<1>1. v[1] \in Slots /\ v[2] \in Slots
  BY DEF VPages
<1>2. memory[PDFrame] = DirectorySoFar /\ memory[PT1Frame] = BootTable
  <2>1. memory[PT1Frame] = TableSoFar /\ memory[PDFrame] = DirectorySoFar
    BY BootConstants DEF MemorySoFar
  <2>2. TableSoFar = BootTable
    BY DEF TableSoFar, BootTable, Real, BeforeCr3, BeforeSelf, BeforeHigh
  <2> QED BY <2>1, <2>2
<1>3. PT1Frame # Absent /\ PDFrame # Absent
  BY BootConstants
<1>4. BootTable[v[2]] \in Frames \cup {Absent}
  BY <1>1, BootConstants DEF BootTable
<1>5. CASE v[1] = KernelPD
  BY <1>1, <1>2, <1>3, <1>4, <1>5, BootConstants DEF Walk, DirectorySoFar, Real, BeforeCr3, BeforeSelf
<1>6. CASE v[1] = 0
  BY <1>1, <1>2, <1>3, <1>4, <1>6, BootConstants DEF Walk, DirectorySoFar
<1>7. CASE v[1] = LastPD
  <2>1. DirectorySoFar[LastPD] = PDFrame
    BY <1>7, BootConstants DEF DirectorySoFar, Real, BeforeCr3
  <2>2. Walk(memory, v) = DirectorySoFar[v[2]]
    BY <1>2, <1>3, <1>7, <2>1 DEF Walk
  <2>3. DirectorySoFar[v[2]] \in Frames \cup {Absent}
    BY <1>1, BootConstants DEF DirectorySoFar
  <2> QED BY <1>7, <2>2, <2>3, BootConstants
<1>8. CASE v[1] \notin {0, KernelPD, LastPD}
  BY <1>1, <1>2, <1>8 DEF Walk, DirectorySoFar
<1> QED
  BY <1>5, <1>6, <1>7, <1>8

-----------------------------------------------------------------------------
(* The steps *)

LEMMA BootInitInvariant == BootInit => BootInv
<1> SUFFICES ASSUME BootInit PROVE BootInv
  OBVIOUS
<1>1. at = "map" /\ esi = 0 /\ ecx = Entries - 1 /\ cr3 = Absent /\ paging = FALSE /\ Init
      /\ memory = [f \in Image |-> EmptyTable] /\ tlb = [v \in Watched |-> Absent]
  BY DEF BootInit
<1>2. DirectorySoFar = EmptyTable
  BY <1>1 DEF DirectorySoFar, EmptyTable, Identity, BeforeHigh, BeforeSelf
<1>3. TableSoFar = EmptyTable
  BY <1>1 DEF TableSoFar, EmptyTable, Slots
<1>4. MemorySoFar
  BY <1>1, <1>2, <1>3, BootConstants DEF MemorySoFar
<1>5. Processor /\ Kept /\ at \in Labels
  BY <1>1 DEF Processor, Kept, BeforeCr3, BeforeSelf, BeforeHigh, Real, Labels
<1> QED
  BY <1>1, <1>4, <1>5 DEF BootInv

(* While paging is off nothing is kept, and what matters is memory.        *)
LEMMA TablesStep ==
  ASSUME BootInv, UNCHANGED vars, at' \in Real, at \in BeforeSelf,
         UNCHANGED <<cr3, paging, tlb>>, at' \in BeforeCr3, MemorySoFar'
  PROVE  BootInv'
<1>1. Init' = Init
  BY DEF vars, Init
<1>2. Processor'
  BY DEF BootInv, Processor, Real, BeforeCr3
<1>3. Kept'
  BY DEF BootInv, Kept, BeforeCr3, Real
<1> QED
  BY <1>1, <1>2, <1>3 DEF BootInv, BeforeCr3, BeforeSelf, BeforeHigh, Labels, Real

LEMMA LoopStep ==
  ASSUME BootInv, UNCHANGED vars, MapImage \/ ImageMapped
  PROVE  BootInv'
<1>1. MemorySoFar /\ at = "map" /\ esi \in 0 .. ImagePages /\ ecx = Entries - 1 - esi /\ ecx > 0
  BY DEF BootInv, MemorySoFar, MapImage, ImageMapped, Goes
<1>2. memory[PDFrame] = DirectorySoFar /\ memory[PT1Frame] = TableSoFar
  BY <1>1, BootConstants DEF MemorySoFar
<1>3. at' \in {"map", "vga"} /\ UNCHANGED <<cr3, paging, tlb>>
  BY DEF MapImage, ImageMapped, Goes, Writes
<1>4. DirectorySoFar' = DirectorySoFar
  BY <1>1, <1>3 DEF DirectorySoFar, Identity, BeforeHigh, BeforeSelf
<1>5. CASE ImageMapped
  <2>1. at' = "vga" /\ memory' = memory /\ esi = ImagePages
    BY <1>1, <1>5, BootConstants DEF ImageMapped, Goes
  <2>2. TableSoFar' = TableSoFar
    BY <1>1, <2>1, BootConstants DEF TableSoFar, Image, Slots
  <2>3. MemorySoFar'
    BY <1>1, <1>4, <2>1, <2>2 DEF MemorySoFar
  <2> QED
    BY <1>1, <1>3, <2>3, TablesStep DEF BeforeSelf, BeforeHigh, BeforeCr3, Real
<1>6. CASE MapImage
  <2>1. /\ esi < ImagePages /\ esi' = esi + 1 /\ ecx' = ecx - 1
        /\ at' = (IF ecx = 1 THEN "vga" ELSE "map")
        /\ memory' = [memory EXCEPT ![PT1Frame][esi] = esi]
    BY <1>6 DEF MapImage, Writes
  <2>2. esi \in Slots /\ esi \in Nat
    BY <1>1, <2>1, BootConstants DEF Slots
  <2>3. TableSoFar' = [TableSoFar EXCEPT ![esi] = esi]
    <3>1. CASE at' = "map"
      <4>1. \A i \in Slots : i < esi + 1 <=> i < esi \/ i = esi
        BY <2>2 DEF Slots
      <4> QED BY <1>1, <2>1, <2>2, <3>1, <4>1 DEF TableSoFar
    <3>2. CASE at' = "vga"
      <4>1. ImagePages = esi + 1
        BY <1>1, <2>1, <3>2, BootConstants
      <4>2. \A i \in Slots : i \in Image <=> i < esi \/ i = esi
        BY <2>2, <4>1 DEF Slots, Image
      <4> QED BY <1>1, <2>1, <2>2, <3>2, <4>2 DEF TableSoFar
    <3> QED BY <1>3, <3>1, <3>2
  <2>4. memory' = [memory EXCEPT ![PT1Frame] = TableSoFar']
    BY <1>2, <2>1, <2>3
  <2>5. memory' = [f \in Image |-> IF f = PDFrame THEN DirectorySoFar'
                                   ELSE IF f = PT1Frame THEN TableSoFar' ELSE EmptyTable]
    BY <1>1, <1>4, <2>4, BootConstants DEF MemorySoFar
  <2>6. at' = "map" => esi' \in 0 .. ImagePages /\ ecx' = Entries - 1 - esi' /\ ecx' > 0
    BY <1>1, <2>1, BootConstants
  <2> QED
    BY <1>1, <1>3, <2>5, <2>6, TablesStep DEF MemorySoFar, BeforeSelf, BeforeHigh, BeforeCr3, Real
<1> QED BY <1>5, <1>6

LEMMA VgaStep == ASSUME BootInv, UNCHANGED vars, MapVGA PROVE BootInv'
<1>1. MemorySoFar /\ at = "vga" /\ at' = "low"
      /\ memory' = [memory EXCEPT ![PT1Frame][Entries - 1] = VGAFrame]
      /\ UNCHANGED <<cr3, paging, tlb>>
  BY DEF BootInv, MapVGA, Goes, Writes
<1>2. memory[PT1Frame] = TableSoFar
  BY <1>1, BootConstants DEF MemorySoFar
<1>3. TableSoFar' = BootTable /\ TableSoFar' = [TableSoFar EXCEPT ![Entries - 1] = VGAFrame]
  BY <1>1, BootConstants DEF TableSoFar, BootTable
<1>4. DirectorySoFar' = DirectorySoFar
  BY <1>1 DEF DirectorySoFar, Identity, BeforeHigh, BeforeSelf
<1>5. memory' = [memory EXCEPT ![PT1Frame] = TableSoFar']
  BY <1>1, <1>2, <1>3
<1>6. MemorySoFar'
  BY <1>1, <1>4, <1>5, BootConstants DEF MemorySoFar
<1> QED
  BY <1>1, <1>6, TablesStep DEF BeforeSelf, BeforeHigh, BeforeCr3, Real

LEMMA DirectoryStepBoot ==
  ASSUME BootInv, UNCHANGED vars, MapLow \/ MapHigh \/ MapSelf
  PROVE  BootInv'
<1>1. MemorySoFar /\ at \in {"low", "high", "self"} /\ at' \in {"high", "self", "cr3"}
      /\ UNCHANGED <<cr3, paging, tlb>>
  BY DEF BootInv, MapLow, MapHigh, MapSelf, Goes, Writes
<1>2. memory[PDFrame] = DirectorySoFar
  BY <1>1, BootConstants DEF MemorySoFar
<1>3. TableSoFar' = TableSoFar
  BY <1>1 DEF TableSoFar
<1>4. memory' = [memory EXCEPT ![PDFrame] = DirectorySoFar']
  <2>1. CASE MapLow
    <3>1. at = "low" /\ at' = "high" /\ memory' = [memory EXCEPT ![PDFrame][0] = PT1Frame]
      BY <2>1 DEF MapLow, Goes, Writes
    <3>2. DirectorySoFar' = [DirectorySoFar EXCEPT ![0] = PT1Frame]
      BY <3>1, BootConstants DEF DirectorySoFar, Identity, BeforeHigh, BeforeSelf
    <3> QED BY <1>2, <3>1, <3>2
  <2>2. CASE MapHigh
    <3>1. at = "high" /\ at' = "self" /\ memory' = [memory EXCEPT ![PDFrame][KernelPD] = PT1Frame]
      BY <2>2 DEF MapHigh, Goes, Writes
    <3>2. DirectorySoFar' = [DirectorySoFar EXCEPT ![KernelPD] = PT1Frame]
      BY <3>1, BootConstants DEF DirectorySoFar, Identity, BeforeHigh, BeforeSelf
    <3> QED BY <1>2, <3>1, <3>2
  <2>3. CASE MapSelf
    <3>1. at = "self" /\ at' = "cr3" /\ memory' = [memory EXCEPT ![PDFrame][LastPD] = PDFrame]
      BY <2>3 DEF MapSelf, Goes, Writes
    <3>2. DirectorySoFar' = [DirectorySoFar EXCEPT ![LastPD] = PDFrame]
      BY <3>1, BootConstants DEF DirectorySoFar, Identity, BeforeHigh, BeforeSelf
    <3> QED BY <1>2, <3>1, <3>2
  <2> QED BY <2>1, <2>2, <2>3
<1>5. MemorySoFar'
  BY <1>1, <1>3, <1>4, BootConstants DEF MemorySoFar
<1> QED
  BY <1>1, <1>5, TablesStep DEF BeforeSelf, BeforeHigh, BeforeCr3, Real

(* Steps that write no table: the same tables are due before and after.    *)
LEMMA SameTables ==
  ASSUME MemorySoFar, UNCHANGED <<esi, ecx, memory>>, at \notin {"map", "vga"},
         at' \notin {"map", "vga"}, at \in Identity <=> at' \in Identity,
         at \in BeforeHigh <=> at' \in BeforeHigh, at \in BeforeSelf <=> at' \in BeforeSelf
  PROVE  MemorySoFar'
<1>1. TableSoFar' = TableSoFar /\ DirectorySoFar' = DirectorySoFar
  BY DEF TableSoFar, DirectorySoFar
<1> QED
  BY <1>1 DEF MemorySoFar

LEMMA SwitchOnStep ==
  ASSUME BootInv, UNCHANGED vars, LoadCr3 \/ EnablePaging \/ JumpHigh
  PROVE  BootInv'
<1>1. /\ at \in {"cr3", "cr0", "jump"} /\ at' \in {"cr0", "jump", "unmap"} /\ MemorySoFar
      /\ UNCHANGED <<esi, ecx, memory>>
  BY DEF BootInv, LoadCr3, EnablePaging, JumpHigh, Goes
<1>2. MemorySoFar'
  BY <1>1, SameTables DEF Identity, BeforeHigh, BeforeSelf
<1>3. Processor'
  BY DEF BootInv, Processor, LoadCr3, EnablePaging, JumpHigh, Goes, Real, BeforeCr3,
     BeforeSelf, BeforeHigh
<1>4. Kept'
  <2>1. CASE LoadCr3
    BY <2>1 DEF Kept, LoadCr3
  <2>2. CASE EnablePaging
    BY <2>2 DEF BootInv, Kept, EnablePaging, Goes, Real
  <2>3. CASE JumpHigh
    BY <2>3 DEF BootInv, Kept, JumpHigh, Goes, Real, BeforeCr3, BeforeSelf, BeforeHigh
  <2> QED BY <2>1, <2>2, <2>3
<1>5. at \in Labels /\ at' \in Labels /\ at # "kernel" /\ Init'
  BY <1>1 DEF BootInv, Labels, Real, BeforeCr3, BeforeSelf, BeforeHigh, vars, Init
<1> QED
  BY <1>2, <1>3, <1>4, <1>5 DEF BootInv

(* The write reaches the directory, and only the identity mapping goes.    *)
LEMMA UnmapStep == ASSUME BootInv, UNCHANGED vars, UnmapLow PROVE BootInv'
<1>1. /\ at = "unmap" /\ at' = "reload" /\ MemorySoFar /\ Kept /\ Processor
      /\ UNCHANGED <<esi, ecx, cr3, paging, tlb>>
  BY DEF BootInv, UnmapLow, Goes, Writes
<1>2. PICK f \in Translations(<<KernelPD, PDFrame>>) : memory' = [memory EXCEPT ![f][0] = Absent]
  BY DEF UnmapLow, Writes
<1>3. <<KernelPD, PDFrame>> \in VPages /\ at \notin Real /\ at # "kernel"
  BY <1>1, BootConstants DEF VPages, Real, BeforeCr3, BeforeSelf, BeforeHigh
<1>4. Walk(memory, <<KernelPD, PDFrame>>) = PDFrame
  BY <1>1, <1>3, WalkSoFar, ImageInTable, BootConstants
<1>5. cr3 = PDFrame
  BY <1>1 DEF Processor, BeforeCr3, BeforeSelf, BeforeHigh
<1>6. f = PDFrame
  BY <1>1, <1>2, <1>4, <1>5 DEF Translations, Kept, Walk, Present
<1>7. memory[PDFrame] = DirectorySoFar
  BY <1>1, BootConstants DEF MemorySoFar
<1>8. TableSoFar' = TableSoFar
  BY <1>1 DEF TableSoFar
<1>9. DirectorySoFar' = [DirectorySoFar EXCEPT ![0] = Absent]
  BY <1>1, BootConstants DEF DirectorySoFar, Identity, BeforeHigh, BeforeSelf
<1>10. memory' = [memory EXCEPT ![PDFrame] = DirectorySoFar']
  BY <1>2, <1>6, <1>7, <1>9
<1>11. MemorySoFar'
  BY <1>1, <1>8, <1>10, BootConstants DEF MemorySoFar
<1>12. Processor' /\ at' \in Labels /\ at # "kernel" /\ Init'
  BY <1>1 DEF BootInv, Processor, Real, BeforeCr3, BeforeSelf, BeforeHigh, Labels, vars, Init
<1>13. Kept'
  <2>1. ASSUME NEW v \in Watched, tlb[v] # Absent, v[1] = KernelPD
        PROVE  tlb[v] = BootTable[v[2]]
    BY <1>1, <1>3, <2>1, WalkSoFar, BootConstants DEF Kept
  <2> QED
    BY <1>1, <2>1 DEF Kept, Real, BeforeCr3, BeforeSelf, BeforeHigh
<1> QED
  BY <1>11, <1>12, <1>13 DEF BootInv

LEMMA ReloadStep ==
  ASSUME BootInv, UNCHANGED vars, ReloadCr3 \/ PushArguments
  PROVE  BootInv'
<1>1. /\ at \in {"reload", "push"} /\ at' \in {"push", "call"} /\ MemorySoFar
      /\ UNCHANGED <<esi, ecx, memory>>
  BY DEF BootInv, ReloadCr3, PushArguments, Goes
<1>2. MemorySoFar'
  BY <1>1, SameTables DEF Identity, BeforeHigh, BeforeSelf
<1>3. Processor' /\ at' \in Labels /\ at # "kernel" /\ Init'
  BY <1>1 DEF BootInv, Processor, ReloadCr3, PushArguments, Goes, Real, BeforeCr3,
     BeforeSelf, BeforeHigh, Labels, vars, Init
<1>4. Kept'
  <2>1. CASE ReloadCr3
    BY <2>1 DEF Kept, ReloadCr3
  <2>2. CASE PushArguments
    BY <2>2 DEF BootInv, Kept, PushArguments, Goes, Real, BeforeCr3, BeforeSelf, BeforeHigh
  <2> QED BY <2>1, <2>2
<1> QED
  BY <1>2, <1>3, <1>4 DEF BootInv

(* What boot.S leaves is what paging.c starts from.                        *)
LEMMA TablesLeft == BootInv /\ at = "call" => HandsOver /\ memory = tables
<1> SUFFICES ASSUME BootInv, at = "call" PROVE HandsOver /\ memory = tables
  OBVIOUS
<1>1. TableSoFar = BootTable
  BY DEF TableSoFar, BootTable
<1>2. DirectorySoFar = BootDirectory
  BY BootConstants DEF DirectorySoFar, BootDirectory, Identity, BeforeSelf, BeforeHigh
<1>3. memory = tables
  BY <1>1, <1>2 DEF BootInv, MemorySoFar, Init
<1>4. cr3 = PDFrame /\ paging
  BY DEF BootInv, Processor, BeforeCr3, Real, BeforeSelf, BeforeHigh
<1> QED BY <1>3, <1>4 DEF HandsOver

LEMMA CallStep == ASSUME BootInv, UNCHANGED vars, CallKernelMain PROVE BootInv'
<1>1. at = "call" /\ at' = "kernel" /\ UNCHANGED <<esi, ecx, memory, cr3, paging, tlb>>
  BY DEF CallKernelMain, Goes
<1>2. MemorySoFar'
  BY <1>1, SameTables DEF BootInv, Identity, BeforeHigh, BeforeSelf
<1>3. Processor'
  BY <1>1 DEF BootInv, Processor, BeforeCr3, BeforeSelf, BeforeHigh, Real
<1>4. Kept'
  <2>1. memory = tables /\ tables' = tables
    BY <1>1, TablesLeft DEF vars
  <2> QED
    BY <1>1, <2>1 DEF BootInv, Kept, BeforeCr3, BeforeSelf, BeforeHigh, Real
<1> QED
  BY <1>1, <1>2, <1>3, <1>4 DEF BootInv, Labels

LEMMA KeepStep ==
  ASSUME BootInv, UNCHANGED vars, NEW v \in Watched, KeepTranslation(v)
  PROVE  BootInv'
<1>1. /\ paging /\ at # "kernel" /\ Present(v) /\ UNCHANGED <<at, esi, ecx, memory, cr3, paging>>
      /\ tlb' = [tlb EXCEPT ![v] = memory[memory[cr3][v[1]]][v[2]]]
  BY DEF KeepTranslation
<1>2. at \notin Real /\ cr3 = PDFrame /\ v \in VPages
  BY <1>1, BootConstants DEF BootInv, Processor, Real
<1>3. tlb' = [tlb EXCEPT ![v] = Walk(memory, v)]
  BY <1>1, <1>2 DEF Present, Walk
<1>4. /\ Walk(memory, v) \in Frames \cup {Absent}
      /\ v[1] = KernelPD => Walk(memory, v) = BootTable[v[2]]
  BY <1>1, <1>2, WalkSoFar DEF BootInv
<1>5. Kept'
  BY <1>1, <1>2, <1>3, <1>4 DEF BootInv, Kept
<1>6. MemorySoFar'
  BY <1>1 DEF BootInv, MemorySoFar, TableSoFar, DirectorySoFar
<1>7. Processor'
  BY <1>1 DEF BootInv, Processor
<1>8. Init'
  BY <1>1 DEF BootInv, vars, Init
<1> QED
  BY <1>1, <1>5, <1>6, <1>7, <1>8 DEF BootInv

(* Once the kernel runs, a translation that is kept stays right because    *)
(* paging.c never changes one (Good, in PagingProofs).                     *)
LEMMA KernelStep ==
  ASSUME BootInv, CoreInv, at = "kernel", Next, UNCHANGED bootVars
  PROVE  BootInv'
<1>1. \A w \in VPages : Walk(tables, w) # Absent => Walk(tables', w) = Walk(tables, w)
  BY NextGood DEF Good
<1>2. UNCHANGED <<at, esi, ecx, memory, cr3, paging, tlb>>
  BY DEF bootVars
<1>3. Kept'
  BY <1>1, <1>2, BootConstants DEF BootInv, Kept
<1>4. MemorySoFar' /\ Processor'
  BY <1>2 DEF BootInv, MemorySoFar, TableSoFar, DirectorySoFar, Processor
<1> QED
  BY <1>2, <1>3, <1>4 DEF BootInv

LEMMA BootStutter == ASSUME BootInv, UNCHANGED <<vars, bootVars>> PROVE BootInv'
<1>1. UNCHANGED <<at, esi, ecx, memory, cr3, paging, tlb>> /\ Init' = Init /\ tables' = tables
  BY DEF vars, bootVars, Init
<1> QED
  BY <1>1 DEF BootInv, MemorySoFar, TableSoFar, DirectorySoFar, Processor, Kept

-----------------------------------------------------------------------------
(* The theorems *)

THEOREM BootInvariance == BootSpec => []BootInv
<1>1. BootInit => BootInv
  BY BootInitInvariant
<1>2. BootInv /\ CoreInv /\ [BootNext]_<<vars, bootVars>> => BootInv'
  <2> SUFFICES ASSUME BootInv, CoreInv, [BootNext]_<<vars, bootVars>> PROVE BootInv'
    OBVIOUS
  <2>1. CASE UNCHANGED <<vars, bootVars>>
    BY <2>1, BootStutter
  <2>2. CASE at = "kernel" /\ Next /\ UNCHANGED bootVars
    BY <2>2, KernelStep
  <2>3. CASE BootStep /\ UNCHANGED vars
    BY <2>3, LoopStep, VgaStep, DirectoryStepBoot, SwitchOnStep, UnmapStep, ReloadStep,
       CallStep, KeepStep DEF BootStep
  <2> QED BY <2>1, <2>2, <2>3 DEF BootNext
<1> QED
  BY <1>1, <1>2, StartsPaging, CoreInvariance, PTL DEF BootSpec

(* Booted by boot.S, and with translations kept from before, paging.c and  *)
(* the page-fault handler still do what is asked of them, and no more: the *)
(* theorems of PagingProofs hold of the machine as a whole (boot.S:157,    *)
(* paging.c:22-201, exception_handler.c:75-117).  What is said of frames   *)
(* and the refinement need FirmwareOutOfReach.                             *)
THEOREM BootedPaging ==
  BootSpec =>
    /\ [](MappedAsAsked /\ TablesNotShared /\ FramesPrivate /\ PoolKept)
    /\ MappingsAreStable /\ ImplementsAddressSpace
<1>1. BootSpec => []MappedAsAsked
  BY StartsPaging, RequestsHonoured, PTL
<1>2. BootSpec => []TablesNotShared
  BY StartsPaging, TablesPrivate, PTL
<1>3. BootSpec => []FramesPrivate
  BY StartsPaging, FramesStayPrivate, PTL
<1>4. BootSpec => []PoolKept
  BY StartsPaging, PoolStaysKept, PTL
<1>5. BootSpec => MappingsAreStable
  BY StartsPaging, TranslationsStable
<1>6. BootSpec => ImplementsAddressSpace
  BY StartsPaging, Implementation
<1> QED
  BY <1>1, <1>2, <1>3, <1>4, <1>5, <1>6, PTL

(* kernel_main finds the tables that paging.c takes for granted, for every *)
(* size of the image (boot.S:63-117).                                      *)
THEOREM TablesHandedOver == BootSpec => []HandsOver
<1>1. BootInv => HandsOver
  BY TablesLeft DEF HandsOver
<1> QED
  BY <1>1, BootInvariance, PTL

(* No translation of the identity mapping outlives the reload of cr3, and  *)
(* none that is kept later goes out of date (boot.S:137-142).              *)
THEOREM NothingStaysStale == BootSpec => []NothingStale
<1>1. BootInv => NothingStale
  BY DEF BootInv, Kept, NothingStale
<1> QED
  BY <1>1, BootInvariance, PTL

(* Every fetch, load and store of boot.S lands (boot.S:123-157).           *)
THEOREM BootAccessesLand == BootSpec => []AccessesLand
<1>1. ASSUME BootInv, paging, at # "kernel", NEW v \in Accesses
      PROVE  Translations(v) = {v[2]}
  <2>1. at \notin Real /\ at \in Labels /\ cr3 = PDFrame /\ MemorySoFar /\ Kept
    BY <1>1 DEF BootInv, Processor, Real
  <2>2. /\ v \in VPages /\ v[2] \in Image
        /\ v[1] = KernelPD \/ (v[1] = 0 /\ at = "jump")
    <3>1. at = "jump" \/ at \notin Low
      BY <2>1 DEF Low, Labels, Real, BeforeCr3, BeforeSelf, BeforeHigh
    <3>2. \/ v = <<KernelPD, Text>> \/ v = <<KernelPD, PDFrame>> \/ v = <<KernelPD, Stack>>
          \/ v = <<0, BootText>> /\ at = "jump"
      BY <1>1, <3>1 DEF Accesses
    <3>3. {0, KernelPD} \subseteq Slots /\ {BootText, Text, Stack, PDFrame} \subseteq Slots \cap Image
      BY BootConstants
    <3> QED BY <3>2, <3>3 DEF VPages
  <2>3. Walk(memory, v) = v[2] /\ v[2] # Absent
    <3>1. at = "jump" => at \in Identity
      BY DEF Identity
    <3> QED
      BY <1>1, <2>1, <2>2, <3>1, WalkSoFar, ImageInTable, BootConstants
  <2>4. Present(v) /\ memory[memory[cr3][v[1]]][v[2]] = v[2]
    BY <2>1, <2>3, BootConstants DEF Walk, Present
  <2>5. ASSUME v \in Watched, tlb[v] # Absent PROVE tlb[v] = v[2]
    <3>1. v[1] = 0 => at \notin {"reload", "kernel"}
      BY <2>2, BootConstants
    <3> QED
      BY <1>1, <2>1, <2>2, <2>3, <2>5, <3>1, ImageInTable DEF Kept
  <2> QED
    BY <2>4, <2>5 DEF Translations
<1>2. BootInv => AccessesLand
  BY <1>1 DEF AccessesLand
<1> QED
  BY <1>2, BootInvariance, PTL
=============================================================================
