---------------------------- MODULE PagingProofs ----------------------------
(***************************************************************************)
(* What is proved of Paging, for tables of any size, any image, pool and   *)
(* set of touchable pages that satisfy the assumptions of PagingDiscipline.*)
(***************************************************************************)
EXTENDS PagingDiscipline, FiniteSetTheorems, TLAPS

PD == tables[PDFrame]
Linked == {d \in Slots : PD[d] \in Pool}

-----------------------------------------------------------------------------
(* The inductive invariant *)

(* The directory maps itself and the boot table, the rest is pool.         *)
DirectoryShape ==
  /\ PD[LastPD] = PDFrame
  /\ PD[KernelPD] = PT1Frame
  /\ \A d \in Slots \ {KernelPD, LastPD} : PD[d] \in {Absent} \cup Pool

(* Tables are handed out in order, one per directory entry in Reach.       *)
PoolInOrder ==
  /\ \A d \in Linked : PD[d] < PoolFrame + kernel_PT_index
  /\ Linked \subseteq Reach
  /\ kernel_PT_index = Cardinality(Linked)

(* The page that get_physaddr looks up to find kernel_PTs.                 *)
PoolIsMapped == tables[PT1Frame][PoolFrame] = PoolFrame

(* The bitmap knows every page of the allocator's range that is mapped.    *)
BitmapCovers ==
  /\ cur_virtaddr_idx[1] >= KernelPD
  /\ ready => \A v \in VPages : v[1] \in KernelPD .. LastPD - 1 /\ Walk(tables, v) # Absent
                                  => v \in virtual_mmap

TablesInv == TypeOK /\ DirectoryShape /\ PoolInOrder /\ TablesNotShared
             /\ FreshTablesEmpty /\ PoolIsMapped

(* Low pages that a fault has backed; each took one frame.                 *)
Demanded == {v \in Touchable : v[1] < KernelPD /\ Walk(tables, v) # Absent}

FramesCounted == cur_physaddr = DemandBase + Cardinality(Demanded)

(* What does not depend on where the firmware has put its tables.          *)
CoreInv == TablesInv /\ BitmapCovers /\ MappedAsAsked /\ FramesCounted

(* The counter is ahead of every frame it has handed out.                  *)
FramesInOrder ==
  \A v \in VPages : Walk(tables, v) \in DemandFrames => Walk(tables, v) < cur_physaddr

FramesInv == FramesInOrder /\ KernelFramesPrivate /\ DemandFramesPrivate

IInv == CoreInv /\ FramesInv

-----------------------------------------------------------------------------
(* Facts about the constants *)

LEMMA Constants ==
  /\ LastPD \in Slots /\ KernelPD \in Slots /\ KernelPD # LastPD
  /\ PoolFrame \in Pool /\ Pool \subseteq Image /\ Image \subseteq Frames
  /\ Image \subseteq Slots /\ Frames \subseteq Nat /\ Absent \notin Frames
  /\ PDFrame \in Image /\ PT1Frame \in Image /\ PDFrame # PT1Frame
  /\ PDFrame \notin Pool /\ PT1Frame \notin Pool
BY PagingAssumption
   DEF PagingAssumption, LastPD, Slots, Pool, Image, Frames, Absent, TableFrames

(* Page faults never come to hand out a frame of the kernel's image.       *)
LEMMA ImageBelowDemand ==
  /\ DemandBase \in Nat
  /\ \A g \in Image : g \in Nat /\ g < DemandBase /\ g \notin DemandFrames
BY PagingAssumption DEF PagingAssumption, Image, DemandFrames

LEMMA ReachFinite == Reach \subseteq Slots /\ IsFiniteSet(Reach) /\ IsFiniteSet(Slots)
<1>1. Reach \subseteq Slots
  BY PagingAssumption DEF PagingAssumption, Reach, Slots, LastPD, VPages
<1>2. IsFiniteSet(Slots)
  BY PagingAssumption, FS_Interval DEF PagingAssumption, Slots
<1> QED
  BY <1>1, <1>2, FS_Subset

(* allocate_pt returns the frame kernel_PT_index places into kernel_PTs.   *)
LEMMA AllocatePTValue ==
  ASSUME TablesInv
  PROVE  AllocatePT(tables, kernel_PT_index) = PoolFrame + kernel_PT_index
BY Constants DEF TablesInv, AllocatePT, Walk, DirectoryShape, PoolIsMapped, PD, Absent, Frames

(* As long as an entry of Reach has no table, kernel_PTs has one left.     *)
LEMMA PoolNotExhausted ==
  ASSUME TablesInv, NEW d \in Reach, PD[d] = Absent
  PROVE  /\ kernel_PT_index < PoolSize
         /\ PoolFrame + kernel_PT_index \in Pool
         /\ Linked \cup {d} \subseteq Reach
         /\ Cardinality(Linked \cup {d}) = kernel_PT_index + 1
<1>1. d \notin Linked
  BY Constants DEF Linked, Pool, Image, Absent
<1>2. IsFiniteSet(Linked)
  BY ReachFinite, FS_Subset DEF TablesInv, PoolInOrder
<1>3. Cardinality(Linked \cup {d}) = Cardinality(Linked) + 1
  BY <1>1, <1>2, FS_AddElement
<1>4. Cardinality(Linked \cup {d}) <= Cardinality(Reach)
  BY ReachFinite, FS_Subset DEF TablesInv, PoolInOrder
<1>5. Cardinality(Reach) \in Nat
  BY ReachFinite, FS_CardinalityType
<1>6. kernel_PT_index \in Nat /\ kernel_PT_index = Cardinality(Linked)
  BY DEF TablesInv, PoolInOrder, TypeOK
<1>7. kernel_PT_index < PoolSize
  BY <1>3, <1>4, <1>5, <1>6, TableBudget, PagingAssumption DEF PagingAssumption
<1>8. PoolFrame + kernel_PT_index \in Pool
  BY <1>6, <1>7, Constants, PagingAssumption DEF PagingAssumption, Pool, Frames
<1> QED
  BY <1>3, <1>6, <1>7, <1>8 DEF TablesInv, PoolInOrder

-----------------------------------------------------------------------------
(* What a mapping does to the directory and to translation *)

(* Entry d has a table afterwards, the next one of the pool if it had none.*)
DirectoryStep(d) ==
  /\ PD' = [PD EXCEPT ![d] = IF PD[d] = Absent THEN PoolFrame + kernel_PT_index
                                              ELSE PD[d]]
  /\ kernel_PT_index' = IF PD[d] = Absent THEN kernel_PT_index + 1
                                          ELSE kernel_PT_index

(* Page v translates to f afterwards and the window shows the table of d;  *)
(* every other translation is as before.                                   *)
WalkStep(v, f, d) ==
  \A w \in VPages :
     Walk(tables', w) = IF w = v THEN f
                        ELSE IF w = <<LastPD, d>> THEN PD'[d]
                        ELSE Walk(tables, w)

LEMMA DirectoryType ==
  ASSUME TablesInv
  PROVE  /\ PD \in [Slots -> Frames \cup {Absent}]
         /\ \A d \in Slots : PD[d] \in {Absent, PDFrame, PT1Frame} \cup Pool
         /\ \A d \in Slots : PD[d] # Absent => PD[d] \in Image
         /\ \A d \in Slots : PD[d] = PDFrame <=> d = LastPD
         /\ \A d \in Slots : PD[d] = PT1Frame <=> d = KernelPD
<1>1. PD \in [Slots -> Frames \cup {Absent}]
  BY Constants DEF TablesInv, TypeOK, PD
<1> QED
  BY <1>1, Constants DEF TablesInv, DirectoryShape, Absent, Frames

LEMMA WalkType ==
  ASSUME TablesInv, NEW w \in VPages
  PROVE  Walk(tables, w) \in Frames \cup {Absent}
<1>1. w[1] \in Slots /\ w[2] \in Slots
  BY DEF VPages
<1>2. PD[w[1]] # Absent => PD[w[1]] \in Image
  BY <1>1, DirectoryType
<1> QED
  BY <1>1, <1>2 DEF TablesInv, TypeOK, Walk, PD

LEMMA DirectoryStepPreserves ==
  ASSUME TablesInv, NEW d \in Slots, DirectoryStep(d),
         PD[d] = Absent => d \in Reach
  PROVE  /\ DirectoryShape' /\ PoolInOrder' /\ TablesNotShared'
         /\ kernel_PT_index' \in Nat
<1>1. CASE PD[d] # Absent
  <2>1. PD' = PD /\ kernel_PT_index' = kernel_PT_index
    BY <1>1, DirectoryType DEF DirectoryStep
  <2>2. Linked' = Linked
    BY <2>1 DEF Linked
  <2> QED
    BY <2>1, <2>2
       DEF TablesInv, TypeOK, DirectoryShape, PoolInOrder, TablesNotShared, PD
<1>2. CASE PD[d] = Absent
  <2> DEFINE new == PoolFrame + kernel_PT_index
  <2>1. /\ new \in Pool /\ Linked \cup {d} \subseteq Reach
        /\ Cardinality(Linked \cup {d}) = kernel_PT_index + 1
    BY <1>2, PoolNotExhausted
  <2>2. PD' = [PD EXCEPT ![d] = new] /\ kernel_PT_index' = kernel_PT_index + 1
    BY <1>2 DEF DirectoryStep
  <2>3. /\ PD'[d] = new
        /\ \A e \in Slots \ {d} : PD'[e] = PD[e]
    BY <2>2, DirectoryType
  <2>4. d # KernelPD /\ d # LastPD
    BY <1>2, Constants, DirectoryType DEF Absent, Frames
  <2>5. Linked' = Linked \cup {d}
    BY <2>1, <2>3 DEF Linked
  <2>6. kernel_PT_index \in Nat /\ PoolFrame \in Nat
    BY Constants DEF TablesInv, TypeOK
  <2>7. DirectoryShape'
    BY <2>1, <2>3, <2>4, Constants DEF TablesInv, DirectoryShape
  <2>8. \A e \in Linked : PD[e] < new /\ PD[e] \in Nat
    BY Constants DEF TablesInv, PoolInOrder, Linked
  <2>9. PoolInOrder'
    BY <2>1, <2>2, <2>3, <2>5, <2>6, <2>8 DEF PoolInOrder, Linked
  <2>10. \A e \in Slots \ {d} : PD[e] # new
    BY <2>1, <2>6, <2>8, Constants DEF Linked
  <2>11. TablesNotShared'
    BY <2>3, <2>10 DEF TablesInv, TablesNotShared, PD
  <2> QED
    BY <2>2, <2>6, <2>7, <2>9, <2>11
<1> QED
  BY <1>1, <1>2

(* map_page on a page that translates to nothing.                          *)
LEMMA MapPageEffect ==
  ASSUME TablesInv, NEW v \in VPages, v[1] # LastPD, Walk(tables, v) = Absent,
         NEW f \in Frames, MapPage(f, v),
         PD[v[1]] = Absent => v[1] \in Reach
  PROVE  /\ tables' \in [Image -> [Slots -> Frames \cup {Absent}]]
         /\ DirectoryStep(v[1]) /\ WalkStep(v, f, v[1])
         /\ FreshTablesEmpty' /\ PoolIsMapped'
<1> DEFINE d == v[1]
           i == v[2]
           pt == PD[d]
           new == PoolFrame + kernel_PT_index
<1>1. d \in Slots /\ i \in Slots /\ d # LastPD /\ v = <<d, i>>
  BY DEF VPages
<1>2. kernel_PT_index \in Nat /\ PoolFrame \in Nat /\ f # Absent
  BY Constants DEF TablesInv, TypeOK
<1>3. tables \in [Image -> [Slots -> Frames \cup {Absent}]]
  BY DEF TablesInv, TypeOK
<1>4. CASE pt # Absent
  <2>1. LinkTable(tables, kernel_PT_index, d) = tables
    BY <1>4 DEF LinkTable, PD
  <2>2. tables' = [tables EXCEPT ![pt][i] = f]
    BY <1>4, <2>1 DEF MapPage, SetEntry, PD
  <2>3. kernel_PT_index' = kernel_PT_index
    BY <1>4 DEF MapPage, IndexAfterLink, PD
  <2>4. pt \in Image /\ pt # PDFrame
    BY <1>1, <1>4, DirectoryType
  <2>5. PD' = PD
    BY <1>3, <2>2, <2>4, Constants DEF PD
  <2>6. tables[pt][i] = Absent
    BY <1>4 DEF Walk, PD
  <2>7. \A w \in VPages : Walk(tables', w) = IF w = v THEN f ELSE Walk(tables, w)
    <3> TAKE w \in VPages
    <3>1. w[1] \in Slots /\ w[2] \in Slots /\ w = <<w[1], w[2]>>
      BY DEF VPages
    <3>2. PD[w[1]] = pt => w[1] = d
      BY <1>1, <1>4, <3>1 DEF TablesInv, TablesNotShared, PD
    <3>3. PD[w[1]] # Absent => PD[w[1]] \in Image
      BY <3>1, DirectoryType
    <3>4. CASE PD[w[1]] = Absent
      BY <1>1, <1>4, <2>5, <3>4 DEF Walk, PD
    <3>5. CASE PD[w[1]] # Absent /\ PD[w[1]] # pt
      BY <1>1, <1>3, <2>2, <2>4, <2>5, <3>3, <3>5 DEF Walk, PD
    <3>6. CASE PD[w[1]] = pt
      <4>1. tables'[pt] = [tables[pt] EXCEPT ![i] = f]
        BY <1>3, <2>2, <2>4
      <4>2. tables'[pt][w[2]] = IF w[2] = i THEN f ELSE tables[pt][w[2]]
        BY <1>3, <2>4, <3>1, <4>1
      <4>3. Walk(tables', w) = tables'[pt][w[2]] /\ Walk(tables, w) = tables[pt][w[2]]
        BY <1>4, <2>5, <3>6 DEF Walk, PD
      <4> QED
        BY <1>1, <3>1, <3>2, <3>6, <4>2, <4>3
    <3> QED
      BY <3>4, <3>5, <3>6
  <2>8. DirectoryStep(d)
    BY <1>1, <1>4, <2>3, <2>5, DirectoryType DEF DirectoryStep
  <2>9. PD'[d] = Walk(tables, <<LastPD, d>>)
    BY <2>5, Constants DEF TablesInv, DirectoryShape, Walk, PD, Absent, Frames
  <2>10. WalkStep(v, f, d)
    BY <2>7, <2>9 DEF WalkStep
  <2>11. tables' \in [Image -> [Slots -> Frames \cup {Absent}]]
    BY <1>1, <1>3, <2>2
  <2>12. pt \in Pool => pt < new
    BY <1>1 DEF TablesInv, PoolInOrder, Linked
  <2>13. FreshTablesEmpty'
    <3> SUFFICES ASSUME NEW g \in Pool, g >= PoolFrame + kernel_PT_index'
                 PROVE  tables'[g] = EmptyTable
      BY DEF FreshTablesEmpty
    <3>1. g \in Image /\ g \in Nat /\ g >= new
      BY <2>3, Constants
    <3>2. g # pt
      BY <1>2, <2>12, <3>1
    <3>3. tables[g] = EmptyTable
      BY <3>1 DEF TablesInv, FreshTablesEmpty
    <3> QED
      BY <1>3, <2>2, <3>1, <3>2, <3>3
  <2>14. PoolIsMapped'
    <3>1. pt # PT1Frame \/ i # PoolFrame
      BY <2>6, Constants DEF TablesInv, PoolIsMapped, Absent, Frames
    <3> QED
      BY <1>1, <1>3, <2>2, <2>4, <3>1, Constants DEF TablesInv, PoolIsMapped
  <2> QED
    BY <2>8, <2>10, <2>11, <2>13, <2>14
<1>5. CASE pt = Absent
  <2>1. kernel_PT_index < PoolSize /\ new \in Pool
    BY <1>5, PoolNotExhausted
  <2>2. new \in Image /\ new # PDFrame /\ new # PT1Frame /\ new # Absent
    BY <2>1, Constants
  <2>3. AllocatePT(tables, kernel_PT_index) = new
    BY AllocatePTValue
  <2> DEFINE linked == LinkTable(tables, kernel_PT_index, d)
  <2>4. linked = [[tables EXCEPT ![PDFrame][d] = new] EXCEPT ![new] = EmptyTable]
    BY <1>5, <2>3 DEF LinkTable, PD
  <2>5. /\ linked[PDFrame] = [PD EXCEPT ![d] = new]
        /\ linked[new] = EmptyTable
        /\ \A g \in Image \ {PDFrame, new} : linked[g] = tables[g]
        /\ linked \in [Image -> [Slots -> Frames \cup {Absent}]]
    <3>1. EmptyTable \in [Slots -> Frames \cup {Absent}]
      BY DEF EmptyTable
    <3>2. new \in Frames /\ PDFrame \in Image
      BY <2>2, Constants
    <3> DEFINE entered == [tables EXCEPT ![PDFrame][d] = new]
    <3>3. /\ entered \in [Image -> [Slots -> Frames \cup {Absent}]]
          /\ entered[PDFrame] = [PD EXCEPT ![d] = new]
          /\ \A g \in Image \ {PDFrame} : entered[g] = tables[g]
      BY <1>1, <1>3, <3>2 DEF PD
    <3>4. linked = [entered EXCEPT ![new] = EmptyTable]
      BY <2>4
    <3> HIDE DEF entered, linked
    <3> QED
      BY <2>2, <3>1, <3>2, <3>3, <3>4
  <2>6. linked[PDFrame][d] = new
    BY <1>1, <2>5, DirectoryType
  <2>7. Walk(linked, v) = Absent
    BY <1>1, <2>2, <2>5, <2>6 DEF Walk, EmptyTable
  <2>8. tables' = [linked EXCEPT ![new][i] = f]
    BY <2>6, <2>7 DEF MapPage, SetEntry
  <2>9. kernel_PT_index' = kernel_PT_index + 1
    BY <1>5, PoolAligned DEF MapPage, IndexAfterLink, PD
  <2>10. /\ tables'[PDFrame] = [PD EXCEPT ![d] = new]
         /\ tables'[new] = [EmptyTable EXCEPT ![i] = f]
         /\ \A g \in Image \ {PDFrame, new} : tables'[g] = tables[g]
         /\ tables' \in [Image -> [Slots -> Frames \cup {Absent}]]
    BY <1>1, <2>2, <2>5, <2>8, Constants
  <2>11. DirectoryStep(d)
    BY <1>5, <2>9, <2>10 DEF DirectoryStep, PD
  <2>12. PD' = [PD EXCEPT ![d] = new] /\ PD'[d] = new
    BY <1>1, <2>10, DirectoryType DEF PD
  <2>13. \A e \in Slots \ {d} : PD'[e] = PD[e] /\ PD[e] # new
    <3> TAKE e \in Slots \ {d}
    <3>1. PD'[e] = PD[e]
      BY <2>12, DirectoryType
    <3>2. PD[e] # new
      BY <2>1, <1>2 DEF TablesInv, PoolInOrder, Linked
    <3> QED BY <3>1, <3>2
  <2>14. WalkStep(v, f, d)
    <3> SUFFICES ASSUME NEW w \in VPages
                 PROVE  Walk(tables', w) = IF w = v THEN f
                                           ELSE IF w = <<LastPD, d>> THEN PD'[d]
                                           ELSE Walk(tables, w)
      BY DEF WalkStep
    <3>1. w[1] \in Slots /\ w[2] \in Slots /\ w = <<w[1], w[2]>>
      BY DEF VPages
    <3>2. CASE w[1] = d
      <4>1. Walk(tables', w) = IF w[2] = i THEN f ELSE Absent
        BY <1>1, <2>2, <2>10, <2>12, <3>1, <3>2 DEF Walk, PD, EmptyTable
      <4>2. Walk(tables, w) = Absent
        BY <1>5, <3>2 DEF Walk, PD
      <4> QED BY <1>1, <3>1, <3>2, <4>1, <4>2
    <3>3. CASE w[1] = LastPD
      <4>1. PD'[w[1]] = PDFrame /\ PD[w[1]] = PDFrame
        BY <1>1, <2>13, <3>1, <3>3 DEF TablesInv, DirectoryShape
      <4>2. Walk(tables', w) = PD'[w[2]] /\ Walk(tables, w) = PD[w[2]]
        BY <4>1, Constants DEF Walk, PD, Absent, Frames
      <4> QED BY <1>1, <2>13, <3>1, <3>3, <4>2
    <3>4. CASE w[1] # d /\ w[1] # LastPD
      <4>1. PD'[w[1]] = PD[w[1]] /\ PD[w[1]] # new /\ PD[w[1]] # PDFrame
        BY <2>13, <3>1, <3>4, DirectoryType
      <4>2. PD[w[1]] # Absent => tables'[PD[w[1]]] = tables[PD[w[1]]]
        BY <2>10, <3>1, <4>1, DirectoryType
      <4>3. Walk(tables', w) = Walk(tables, w)
        BY <4>1, <4>2 DEF Walk, PD
      <4> QED BY <1>1, <3>1, <3>4, <4>3
    <3> QED BY <3>2, <3>3, <3>4
  <2>15. FreshTablesEmpty'
    BY <1>2, <2>1, <2>9, <2>10, Constants DEF TablesInv, FreshTablesEmpty, Pool
  <2>16. PoolIsMapped'
    BY <2>2, <2>10, Constants DEF TablesInv, PoolIsMapped
  <2> QED
    BY <2>10, <2>11, <2>14, <2>15, <2>16
<1> QED
  BY <1>4, <1>5

(* page_fault_handler on a page of the window: the new table is linked but *)
(* not cleared, and it does not have to be.                                *)
LEMMA WindowFaultEffect ==
  ASSUME TablesInv, NEW v \in VPages, v[1] = LastPD, Walk(tables, v) = Absent,
         v[2] \in Reach,
         tables' = SetEntry(tables, AllocatePT(tables, kernel_PT_index), v),
         kernel_PT_index' = kernel_PT_index + 1
  PROVE  /\ tables' \in [Image -> [Slots -> Frames \cup {Absent}]]
         /\ DirectoryStep(v[2]) /\ WalkStep(v, PoolFrame + kernel_PT_index, v[2])
         /\ FreshTablesEmpty' /\ PoolIsMapped'
         /\ PoolFrame + kernel_PT_index \in Pool
<1> DEFINE d == v[2]
           new == PoolFrame + kernel_PT_index
<1>1. d \in Slots /\ v = <<LastPD, d>>
  BY DEF VPages
<1>2. kernel_PT_index \in Nat /\ PoolFrame \in Nat
  BY Constants DEF TablesInv, TypeOK
<1>3. tables \in [Image -> [Slots -> Frames \cup {Absent}]]
  BY DEF TablesInv, TypeOK
<1>4. PD[LastPD] = PDFrame /\ PDFrame # Absent
  BY Constants DEF TablesInv, DirectoryShape, Absent, Frames
<1>5. PD[d] = Absent
  BY <1>1, <1>4 DEF Walk, PD
<1>6. new \in Pool
  BY <1>5, PoolNotExhausted
<1>7. new \in Image /\ new \in Frames /\ new # PDFrame /\ new # PT1Frame /\ new # Absent
  BY <1>6, Constants
<1>8. tables' = [tables EXCEPT ![PDFrame][d] = new]
  BY <1>1, <1>4, AllocatePTValue DEF SetEntry, PD
<1>9. /\ PD' = [PD EXCEPT ![d] = new]
      /\ \A g \in Image \ {PDFrame} : tables'[g] = tables[g]
      /\ tables' \in [Image -> [Slots -> Frames \cup {Absent}]]
  BY <1>1, <1>3, <1>7, <1>8, Constants DEF PD
<1>10. DirectoryStep(d)
  BY <1>5, <1>9 DEF DirectoryStep
<1>11. PD'[d] = new /\ \A e \in Slots \ {d} : PD'[e] = PD[e]
  BY <1>1, <1>9, DirectoryType
<1>12. WalkStep(v, new, d)
  <2> SUFFICES ASSUME NEW w \in VPages
               PROVE  Walk(tables', w) = IF w = v THEN new ELSE Walk(tables, w)
    BY <1>1 DEF WalkStep
  <2>1. w[1] \in Slots /\ w[2] \in Slots /\ w = <<w[1], w[2]>>
    BY DEF VPages
  <2>2. CASE w[1] = d
    <3>1. tables'[new][w[2]] = Absent
      BY <1>2, <1>6, <1>7, <1>9, <2>1 DEF TablesInv, FreshTablesEmpty, EmptyTable
    <3>2. d # LastPD
      BY <1>4, <1>5
    <3>3. Walk(tables', w) = Absent /\ Walk(tables, w) = Absent
      BY <1>5, <1>7, <1>11, <2>2, <3>1 DEF Walk, PD
    <3> QED BY <1>1, <2>1, <2>2, <3>2, <3>3
  <2>3. CASE w[1] = LastPD
    <3>1. PD'[w[1]] = PDFrame
      BY <1>4, <1>5, <1>11, <2>1, <2>3
    <3>2. Walk(tables', w) = PD'[w[2]] /\ Walk(tables, w) = PD[w[2]]
      BY <1>4, <2>3, <3>1 DEF Walk, PD
    <3> QED BY <1>1, <1>11, <2>1, <2>3, <3>2
  <2>4. CASE w[1] # d /\ w[1] # LastPD
    <3>1. PD'[w[1]] = PD[w[1]] /\ PD[w[1]] # PDFrame
      BY <1>11, <2>1, <2>4, DirectoryType
    <3>2. PD[w[1]] # Absent => tables'[PD[w[1]]] = tables[PD[w[1]]]
      BY <1>9, <2>1, <3>1, DirectoryType
    <3> QED BY <1>1, <2>1, <2>4, <3>1, <3>2 DEF Walk, PD
  <2> QED BY <2>2, <2>3, <2>4
<1>13. FreshTablesEmpty'
  <2> SUFFICES ASSUME NEW g \in Pool, g >= PoolFrame + kernel_PT_index'
               PROVE  tables'[g] = EmptyTable
    BY DEF FreshTablesEmpty
  <2> QED
    BY <1>2, <1>9, Constants DEF TablesInv, FreshTablesEmpty
<1>14. PoolIsMapped'
  BY <1>9, Constants DEF TablesInv, PoolIsMapped
<1> QED
  BY <1>6, <1>9, <1>10, <1>12, <1>13, <1>14

-----------------------------------------------------------------------------
(* What follows from such a step *)

(* Nothing that was translated is translated differently.                  *)
LEMMA WalkStepStable ==
  ASSUME TablesInv, NEW v \in VPages, NEW f, NEW d \in Slots,
         Walk(tables, v) = Absent, DirectoryStep(d), WalkStep(v, f, d)
  PROVE  \A w \in VPages : Walk(tables, w) # Absent
                              => Walk(tables', w) = Walk(tables, w)
<1>1. Walk(tables, <<LastPD, d>>) = PD[d]
  BY Constants DEF TablesInv, DirectoryShape, Walk, PD, Absent, Frames
<1>2. PD[d] # Absent => PD'[d] = PD[d]
  BY DirectoryType DEF DirectoryStep
<1> QED
  BY <1>1, <1>2 DEF WalkStep

(* A request that was answered stays answered.                             *)
LEMMA StableKeepsPromises ==
  ASSUME TablesInv, MappedAsAsked,
         \A w \in VPages : Walk(tables, w) # Absent
                              => Walk(tables', w) = Walk(tables, w)
  PROVE  \A g \in granted : Walk(tables', g[1]) = g[2]
BY Constants DEF TablesInv, TypeOK, MappedAsAsked

(* Rounding down to a word stays inside the table.                         *)
LEMMA WordStart ==
  ASSUME NEW i \in Slots
  PROVE  i - (i % WordBits) \in Slots
<1>1. i \in Nat /\ WordBits \in Nat /\ WordBits > 0 /\ Entries \in Nat /\ i < Entries
  BY PagingAssumption DEF PagingAssumption, Slots
<1>2. i % WordBits \in 0 .. WordBits - 1
  BY <1>1
<1>3. i % WordBits <= i
  BY <1>1, <1>2
<1> QED
  BY <1>1, <1>2, <1>3 DEF Slots

(* A driver's frame or a new table takes none of find_free_physaddr.       *)
LEMMA OtherFrameCounted ==
  ASSUME FramesCounted, NEW v \in VPages, NEW f, NEW d \in Slots,
         v[1] >= KernelPD, WalkStep(v, f, d), UNCHANGED cur_physaddr
  PROVE  FramesCounted'
<1>1. KernelPD \in Nat /\ LastPD \in Nat /\ KernelPD < LastPD
  BY PagingAssumption DEF PagingAssumption, LastPD
<1>2. \A w \in VPages : w[1] < KernelPD => Walk(tables', w) = Walk(tables, w)
  BY <1>1 DEF WalkStep, VPages, Slots
<1>3. Demanded' = Demanded
  BY <1>2, PagingAssumption DEF Demanded, PagingAssumption
<1> QED
  BY <1>3 DEF FramesCounted

(* ... and if it is none that page faults may hand out, none of these      *)
(* moves.                                                                  *)
LEMMA OtherFrameStep ==
  ASSUME FramesInv, NEW v \in VPages, NEW f \in Frames, NEW d \in Slots,
         f \notin DemandFrames,
         v[1] \notin {KernelPD, LastPD} => f \notin Image \ FirmwareFrames,
         WalkStep(v, f, d), PD'[d] \in Image, UNCHANGED cur_physaddr
  PROVE  FramesInv'
<1>1. \A w \in VPages : Walk(tables', w) \in DemandFrames
                          => Walk(tables', w) = Walk(tables, w)
  BY ImageBelowDemand DEF WalkStep
<1>2. FramesInOrder'
  <2> SUFFICES ASSUME NEW w \in VPages, Walk(tables', w) \in DemandFrames
               PROVE  Walk(tables', w) < cur_physaddr
    BY DEF FramesInOrder, DemandFrames
  <2> QED
    BY <1>1 DEF FramesInv, FramesInOrder
<1>3. KernelFramesPrivate'
  <2> SUFFICES ASSUME NEW w \in VPages, w[1] \notin {KernelPD, LastPD}
               PROVE  Walk(tables', w) \notin Image \ FirmwareFrames
    BY DEF KernelFramesPrivate
  <2> QED
    BY DEF FramesInv, KernelFramesPrivate, WalkStep
<1>4. DemandFramesPrivate'
  <2> SUFFICES ASSUME NEW u \in VPages, NEW w \in VPages, u # w,
                      Walk(tables', u) \in DemandFrames,
                      Walk(tables', u) = Walk(tables', w)
               PROVE  FALSE
    BY DEF DemandFramesPrivate, DemandFrames
  <2> QED
    BY <1>1 DEF FramesInv, DemandFramesPrivate
<1> QED
  BY <1>2, <1>3, <1>4 DEF FramesInv

(* There is a frame left for a page that may still be touched.             *)
LEMMA FramesNotExhausted ==
  ASSUME FramesCounted, NEW v \in Touchable, v[1] < KernelPD, Walk(tables, v) = Absent
  PROVE  /\ cur_physaddr \in DemandFrames
         /\ cur_physaddr \in Nat /\ cur_physaddr + 1 < NFrames
         /\ Cardinality(Demanded \cup {v}) = Cardinality(Demanded) + 1
<1>1. /\ IsFiniteSet(Touchable) /\ DemandPages \subseteq Touchable
      /\ Demanded \cup {v} \subseteq DemandPages
  BY FrameBudget, PagingAssumption
     DEF FrameBudget, Demanded, DemandPages, PagingAssumption, LastPD, VPages, Slots
<1>2. IsFiniteSet(DemandPages)
  BY <1>1, FS_Subset
<1>3. IsFiniteSet(Demanded) /\ IsFiniteSet(Demanded \cup {v})
  BY <1>1, <1>2, FS_Subset
<1>4. v \notin Demanded
  BY DEF Demanded
<1>5. Cardinality(Demanded \cup {v}) = Cardinality(Demanded) + 1
  BY <1>3, <1>4, FS_AddElement
<1>6. /\ Cardinality(Demanded \cup {v}) <= Cardinality(DemandPages)
      /\ Cardinality(DemandPages) <= Cardinality(Touchable)
  BY <1>1, <1>2, FS_Subset
<1>7. /\ Cardinality(Demanded) \in Nat /\ Cardinality(DemandPages) \in Nat
      /\ Cardinality(Touchable) \in Nat
  BY <1>1, <1>2, <1>3, FS_CardinalityType
<1> QED
  BY <1>5, <1>6, <1>7, FrameBudget, PagingAssumption
     DEF FrameBudget, PagingAssumption, FramesCounted, DemandFrames

(* A frame of find_free_physaddr is counted, ...                           *)
LEMMA DemandFrameCounted ==
  ASSUME TablesInv, FramesCounted, NEW v \in Touchable, NEW d \in Slots,
         v[1] < KernelPD, Walk(tables, v) = Absent, WalkStep(v, cur_physaddr, d),
         cur_physaddr' = cur_physaddr + 1
  PROVE  FramesCounted'
<1>1. KernelPD \in Nat /\ LastPD \in Nat /\ KernelPD < LastPD /\ v \in VPages
  BY PagingAssumption DEF PagingAssumption, LastPD
<1>2. /\ cur_physaddr \in Nat
      /\ Cardinality(Demanded \cup {v}) = Cardinality(Demanded) + 1
  BY FramesNotExhausted
<1>3. Walk(tables', v) = cur_physaddr /\ cur_physaddr # Absent
  BY <1>1, <1>2 DEF WalkStep, Absent
<1>4. \A w \in VPages : w[1] < KernelPD /\ w # v => Walk(tables', w) = Walk(tables, w)
  BY <1>1 DEF WalkStep, VPages, Slots
<1>5. Demanded' = Demanded \cup {v}
  BY <1>3, <1>4, PagingAssumption DEF Demanded, PagingAssumption
<1>6. IsFiniteSet(Demanded)
  BY FrameBudget, FS_Subset DEF FrameBudget, Demanded
<1>7. Cardinality(Demanded) \in Nat
  BY <1>6, FS_CardinalityType
<1> QED
  BY <1>2, <1>5, <1>7, ImageBelowDemand DEF FramesCounted

(* ... and above every one handed out before.                              *)
LEMMA DemandFrameStep ==
  ASSUME TablesInv, FramesCounted, FramesInv, NEW v \in Touchable, NEW d \in Slots,
         v[1] < KernelPD, Walk(tables, v) = Absent,
         WalkStep(v, cur_physaddr, d), PD'[d] \in Image,
         cur_physaddr' = cur_physaddr + 1
  PROVE  FramesInv'
<1>1. cur_physaddr \in Nat /\ cur_physaddr \in DemandFrames
  BY FramesNotExhausted
<1>2. v \in VPages /\ Walk(tables', v) = cur_physaddr
  BY PagingAssumption DEF WalkStep, PagingAssumption
<1>3. \A x \in VPages : x # v /\ Walk(tables', x) \in DemandFrames
          => /\ Walk(tables', x) = Walk(tables, x) /\ Walk(tables, x) < cur_physaddr
             /\ Walk(tables, x) \in Nat
  <2> TAKE x \in VPages
  <2> HAVE x # v /\ Walk(tables', x) \in DemandFrames
  <2>1. x # <<LastPD, d>>
    BY ImageBelowDemand DEF WalkStep
  <2>2. Walk(tables', x) = Walk(tables, x)
    BY <2>1 DEF WalkStep
  <2>3. Walk(tables, x) \in Nat
    BY <2>2, ImageBelowDemand DEF DemandFrames
  <2> QED BY <2>2, <2>3 DEF FramesInv, FramesInOrder
<1>4. FramesInOrder'
  <2> SUFFICES ASSUME NEW w \in VPages, Walk(tables', w) \in DemandFrames
               PROVE  Walk(tables', w) < cur_physaddr'
    BY DEF FramesInOrder, DemandFrames
  <2> QED BY <1>1, <1>2, <1>3
<1>5. KernelFramesPrivate'
  <2> SUFFICES ASSUME NEW w \in VPages, w[1] \notin {KernelPD, LastPD}
               PROVE  Walk(tables', w) \notin Image \ FirmwareFrames
    BY DEF KernelFramesPrivate
  <2>1. cur_physaddr \notin Image
    BY <1>1, ImageBelowDemand
  <2> QED
    BY <2>1 DEF FramesInv, KernelFramesPrivate, WalkStep
<1>6. DemandFramesPrivate'
  <2> SUFFICES ASSUME NEW u \in VPages, NEW w \in VPages, u # w,
                      Walk(tables', u) \in DemandFrames,
                      Walk(tables', u) = Walk(tables', w)
               PROVE  FALSE
    BY DEF DemandFramesPrivate, DemandFrames
  <2> QED
    BY <1>1, <1>2, <1>3 DEF FramesInv, DemandFramesPrivate
<1> QED
  BY <1>4, <1>5, <1>6 DEF FramesInv

-----------------------------------------------------------------------------
(* The steps of the specification, one lemma each *)

LEMMA InitInvariant == Init => IInv
<1> SUFFICES ASSUME Init PROVE IInv
  OBVIOUS
<1>1. /\ KernelPD \in Slots /\ LastPD \in Slots /\ KernelPD # LastPD
      /\ VGAFrame \in Image /\ Entries - 1 = LastPD
      /\ DemandBase \in Frames /\ \A g \in Image : g < DemandBase
      /\ KernelPD >= KernelPD /\ 0 \in Slots
  BY PagingAssumption DEF PagingAssumption, Image, LastPD, Slots, Frames
<1>2. /\ BootDirectory \in [Slots -> {Absent, PDFrame, PT1Frame}]
      /\ BootTable \in [Slots -> Image \cup {Absent}]
      /\ EmptyTable \in [Slots -> {Absent}]
  BY <1>1 DEF BootDirectory, BootTable, EmptyTable
<1>3. /\ PD = BootDirectory /\ tables[PT1Frame] = BootTable
      /\ \A f \in Image \ {PDFrame, PT1Frame} : tables[f] = EmptyTable
      /\ tables \in [Image -> [Slots -> Frames \cup {Absent}]]
  BY <1>2, Constants DEF Init, PD
<1>4. TypeOK
  BY <1>1, <1>3 DEF Init, TypeOK, VPages
<1>5. DirectoryShape
  BY <1>1, <1>3 DEF DirectoryShape, BootDirectory
<1>6. Linked = {}
  BY <1>3, Constants DEF Linked, BootDirectory, Absent, Frames
<1>7. PoolInOrder
  BY <1>6, FS_EmptySet DEF PoolInOrder, Init
<1>8. TablesNotShared
  BY <1>1, <1>3, Constants DEF TablesNotShared, BootDirectory, PD
<1>9. FreshTablesEmpty
  BY <1>3, Constants DEF FreshTablesEmpty
<1>10. PoolIsMapped
  BY <1>3, Constants DEF PoolIsMapped, BootTable
<1>11. BitmapCovers
  BY <1>1 DEF BitmapCovers, Init
<1>12. MappedAsAsked
  BY DEF MappedAsAsked, Init
<1>13. /\ \A v \in VPages : Walk(tables, v) \in Image \cup {Absent}
       /\ \A v \in VPages : v[1] \notin {KernelPD, LastPD} => Walk(tables, v) = Absent
  <2> SUFFICES ASSUME NEW v \in VPages
               PROVE  /\ Walk(tables, v) \in Image \cup {Absent}
                      /\ v[1] \notin {KernelPD, LastPD} => Walk(tables, v) = Absent
    OBVIOUS
  <2>1. v[1] \in Slots /\ v[2] \in Slots
    BY DEF VPages
  <2>2. CASE v[1] = KernelPD
    BY <1>1, <1>2, <1>3, <2>1, <2>2, Constants DEF Walk, PD, BootDirectory
  <2>3. CASE v[1] = LastPD
    <3>1. PD[v[1]] = PDFrame /\ PDFrame # Absent
      BY <1>5, <2>3, Constants DEF DirectoryShape, Absent, Frames
    <3>2. Walk(tables, v) = BootDirectory[v[2]]
      BY <1>3, <3>1 DEF Walk, PD
    <3>3. BootDirectory[v[2]] \in {Absent, PDFrame, PT1Frame}
      BY <1>2, <2>1
    <3> QED
      BY <2>3, <3>2, <3>3, Constants
  <2>4. CASE v[1] \notin {KernelPD, LastPD}
    BY <1>3, <2>1, <2>4 DEF Walk, PD, BootDirectory
  <2> QED BY <2>2, <2>3, <2>4
<1>14. FramesCounted
  <2>1. Demanded = {}
    <3>1. \A v \in Touchable : v \in VPages
      BY PagingAssumption DEF PagingAssumption
    <3>2. \A d \in Slots : d < KernelPD => d \notin {KernelPD, LastPD}
      BY PagingAssumption DEF PagingAssumption, Slots, LastPD
    <3> QED
      BY <1>13, <3>1, <3>2 DEF Demanded, VPages
  <2> QED
    BY <2>1, FS_EmptySet, ImageBelowDemand DEF FramesCounted, Init
<1>15. FramesInv
  <2>1. \A v \in VPages : Walk(tables, v) \notin DemandFrames
    BY <1>13, ImageBelowDemand DEF DemandFrames, Absent
  <2> QED
    BY <1>13, <2>1, Constants
       DEF FramesInv, FramesInOrder, KernelFramesPrivate, DemandFramesPrivate
<1> QED
  BY <1>4, <1>5, <1>7, <1>8, <1>9, <1>10, <1>11, <1>12, <1>14, <1>15
     DEF IInv, CoreInv, TablesInv

(* What a step must keep, and what it must not do.                         *)
Good == CoreInv' /\ \A w \in VPages : Walk(tables, w) # Absent
                                        => Walk(tables', w) = Walk(tables, w)

LEMMA SnapshotStep ==
  ASSUME CoreInv, InitPageAllocation
  PROVE  Good /\ (FramesInv => FramesInv')
<1>1. tables' = tables /\ kernel_PT_index' = kernel_PT_index /\ cur_physaddr' = cur_physaddr
      /\ granted' = granted /\ cur_virtaddr_idx' = cur_virtaddr_idx /\ ready'
  BY DEF InitPageAllocation
<1>2. virtual_mmap' = {v \in VPages : Walk(tables, v) # Absent}
  BY DEF InitPageAllocation
<1>3. TypeOK'
  BY <1>1, <1>2 DEF CoreInv, TablesInv, TypeOK, InitPageAllocation
<1>4. PD' = PD /\ Linked' = Linked /\ Demanded' = Demanded
  BY <1>1 DEF PD, Linked, Demanded
<1>5. TablesInv'
  BY <1>1, <1>3, <1>4 DEF CoreInv, TablesInv, DirectoryShape, PoolInOrder,
     TablesNotShared, FreshTablesEmpty, PoolIsMapped
<1>6. BitmapCovers'
  BY <1>1, <1>2 DEF CoreInv, BitmapCovers
<1>7. MappedAsAsked' /\ FramesCounted'
  BY <1>1, <1>4 DEF CoreInv, MappedAsAsked, FramesCounted
<1>8. FramesInv => FramesInv'
  BY <1>1 DEF FramesInv, FramesInOrder, KernelFramesPrivate, DemandFramesPrivate,
     DemandFrames
<1> QED
  BY <1>1, <1>5, <1>6, <1>7, <1>8 DEF Good, CoreInv

(* The page that find_free_virtaddr returns is free indeed.                *)
LEMMA FreePageIsFree ==
  ASSUME CoreInv, ready, NEW v \in VPages, WithinKernelSpace(v), FindFreeVirtaddr(v)
  PROVE  /\ v[1] \in KernelPD .. LastPD - 1 /\ Walk(tables, v) = Absent
         /\ PD[v[1]] = Absent => v[1] \in Reach
         /\ cur_virtaddr_idx' \in VPages /\ cur_virtaddr_idx'[1] >= KernelPD
<1>1. v[1] \in Slots /\ v[2] \in Slots /\ v[1] # LastPD
  BY DEF VPages, WithinKernelSpace
<1>2. KernelPD \in Nat /\ LastPD \in Nat /\ KernelPD < LastPD /\ Slots = 0 .. LastPD
  BY PagingAssumption DEF PagingAssumption, LastPD, Slots
<1>3. v \notin virtual_mmap /\ v[1] >= cur_virtaddr_idx[1]
  <2>1. cur_virtaddr_idx[1] \in Slots
    BY DEF CoreInv, TablesInv, TypeOK, VPages
  <2> QED
    BY <1>1, <1>2, <2>1 DEF FindFreeVirtaddr, FreePages, Precedes
<1>4. cur_virtaddr_idx[1] >= KernelPD /\ cur_virtaddr_idx[1] \in Slots
  BY DEF CoreInv, TablesInv, TypeOK, VPages, BitmapCovers
<1>5. v[1] \in KernelPD .. LastPD - 1
  BY <1>1, <1>2, <1>3, <1>4
<1>6. Walk(tables, v) = Absent
  BY <1>3, <1>5 DEF CoreInv, BitmapCovers
<1>7. PD[v[1]] = Absent => v[1] \in Reach
  <2>1. PD[KernelPD] # Absent
    BY Constants DEF CoreInv, TablesInv, DirectoryShape, Absent, Frames
  <2> QED
    BY <1>2, <1>5, <2>1 DEF Reach
<1>8. cur_virtaddr_idx' = <<v[1], v[2] - (v[2] % WordBits)>>
  BY DEF FindFreeVirtaddr
<1>9. cur_virtaddr_idx' \in VPages /\ cur_virtaddr_idx'[1] >= KernelPD
  BY <1>1, <1>2, <1>5, <1>8, WordStart DEF VPages
<1> QED
  BY <1>5, <1>6, <1>7, <1>9

LEMMA RequestStep ==
  ASSUME CoreInv, NEW f \in FirmwareFrames, MapFresh(f)
  PROVE  Good /\ (FramesInv /\ f \notin DemandFrames => FramesInv')
<1>1. PICK v \in VPages : /\ WithinKernelSpace(v)
                          /\ FindFreeVirtaddr(v)
                          /\ MapPage(f, v)
                          /\ granted' = granted \cup {<<v, f>>}
  BY DEF MapFresh
<1>2. ready /\ cur_physaddr' = cur_physaddr /\ ready' = ready
  BY DEF MapFresh
<1>3. /\ v[1] \in KernelPD .. LastPD - 1 /\ Walk(tables, v) = Absent
      /\ PD[v[1]] = Absent => v[1] \in Reach
      /\ cur_virtaddr_idx' \in VPages /\ cur_virtaddr_idx'[1] >= KernelPD
  BY <1>1, <1>2, FreePageIsFree
<1>4. f \in Frames /\ KernelPD \in Nat /\ LastPD \in Nat
  BY PagingAssumption DEF PagingAssumption, LastPD
<1>5. v[1] \in Slots /\ v[1] # LastPD /\ v[1] >= KernelPD
  BY <1>3, <1>4 DEF VPages
<1>6. TablesInv
  BY DEF CoreInv
<1>7. /\ tables' \in [Image -> [Slots -> Frames \cup {Absent}]]
      /\ DirectoryStep(v[1]) /\ WalkStep(v, f, v[1])
      /\ FreshTablesEmpty' /\ PoolIsMapped'
  BY <1>1, <1>3, <1>4, <1>5, <1>6, MapPageEffect
<1>8. /\ DirectoryShape' /\ PoolInOrder' /\ TablesNotShared'
      /\ kernel_PT_index' \in Nat
  BY <1>3, <1>5, <1>6, <1>7, DirectoryStepPreserves
<1>9. virtual_mmap' = virtual_mmap \cup {v}
  BY <1>1 DEF FindFreeVirtaddr
<1>10. TypeOK'
  BY <1>1, <1>2, <1>3, <1>4, <1>6, <1>7, <1>8, <1>9 DEF TablesInv, TypeOK
<1>11. TablesInv'
  BY <1>7, <1>8, <1>10 DEF TablesInv
<1>12. \A w \in VPages : Walk(tables, w) # Absent => Walk(tables', w) = Walk(tables, w)
  BY <1>3, <1>5, <1>6, <1>7, WalkStepStable
<1>13. BitmapCovers'
  <2> SUFFICES ASSUME NEW w \in VPages, w[1] \in KernelPD .. LastPD - 1,
                      Walk(tables', w) # Absent
               PROVE  w \in virtual_mmap'
    BY <1>3 DEF BitmapCovers
  <2>1. w # <<LastPD, v[1]>>
    BY <1>4
  <2> QED
    BY <1>2, <1>7, <1>9, <2>1 DEF CoreInv, BitmapCovers, WalkStep
<1>14. MappedAsAsked'
  <2>1. \A g \in granted : Walk(tables', g[1]) = g[2]
    BY <1>6, <1>12, StableKeepsPromises DEF CoreInv
  <2>2. Walk(tables', v) = f
    BY <1>7 DEF WalkStep
  <2> QED
    BY <1>1, <2>1, <2>2 DEF MappedAsAsked
<1>15. PD'[v[1]] \in Image
  <2>1. PD'[v[1]] # Absent
    BY <1>3, <1>5, <1>6, <1>7, DirectoryType, PoolNotExhausted, Constants
       DEF DirectoryStep, Absent, Frames
  <2>2. PD'[v[1]] \in {Absent, PDFrame, PT1Frame} \cup Pool
    BY <1>5, <1>8, Constants DEF DirectoryShape
  <2> QED BY <2>1, <2>2, Constants
<1>16. FramesCounted'
  BY <1>2, <1>5, <1>7, OtherFrameCounted DEF CoreInv
<1>17. FramesInv /\ f \notin DemandFrames => FramesInv'
  BY <1>2, <1>4, <1>5, <1>7, <1>15, OtherFrameStep
<1> QED
  BY <1>11, <1>12, <1>13, <1>14, <1>16, <1>17 DEF Good, CoreInv

LEMMA DataFaultStep ==
  ASSUME CoreInv, NEW v \in Touchable, FaultOnData(v)
  PROVE  Good /\ (FramesInv => FramesInv')
<1>1. /\ v[1] # LastPD /\ Walk(tables, v) = Absent /\ MapPage(cur_physaddr, v)
      /\ cur_physaddr' = (cur_physaddr + 1) % NFrames
      /\ UNCHANGED <<virtual_mmap, cur_virtaddr_idx, ready, granted>>
  BY DEF FaultOnData
<1>2. v \in VPages /\ v[1] \in Slots /\ v[1] < KernelPD /\ KernelPD \in Nat /\ v[1] \in Reach
  BY <1>1, TouchDiscipline, PagingAssumption DEF PagingAssumption, VPages, Reach
<1>3. TablesInv /\ FramesCounted /\ cur_physaddr \in Frames
  BY DEF CoreInv, TablesInv, TypeOK
<1>4. cur_physaddr' = cur_physaddr + 1 /\ cur_physaddr' \in Frames
  <2>1. cur_physaddr \in Nat /\ cur_physaddr + 1 < NFrames /\ NFrames \in Nat
    BY <1>1, <1>2, <1>3, FramesNotExhausted, PagingAssumption DEF PagingAssumption
  <2>2. (cur_physaddr + 1) % NFrames = cur_physaddr + 1
    BY <2>1
  <2> QED BY <1>1, <2>1, <2>2 DEF Frames
<1>5. /\ tables' \in [Image -> [Slots -> Frames \cup {Absent}]]
      /\ DirectoryStep(v[1]) /\ WalkStep(v, cur_physaddr, v[1])
      /\ FreshTablesEmpty' /\ PoolIsMapped'
  BY <1>1, <1>2, <1>3, MapPageEffect
<1>6. /\ DirectoryShape' /\ PoolInOrder' /\ TablesNotShared'
      /\ kernel_PT_index' \in Nat
  BY <1>2, <1>3, <1>5, DirectoryStepPreserves
<1>7. TablesInv'
  BY <1>1, <1>3, <1>4, <1>5, <1>6 DEF TablesInv, TypeOK
<1>8. \A w \in VPages : Walk(tables, w) # Absent => Walk(tables', w) = Walk(tables, w)
  BY <1>1, <1>2, <1>3, <1>5, WalkStepStable
<1>9. BitmapCovers'
  <2> SUFFICES ASSUME ready, NEW w \in VPages, w[1] \in KernelPD .. LastPD - 1,
                      Walk(tables', w) # Absent
               PROVE  w \in virtual_mmap
    BY <1>1 DEF CoreInv, BitmapCovers
  <2>1. w # v /\ w # <<LastPD, v[1]>>
    BY <1>2, PagingAssumption DEF PagingAssumption, LastPD
  <2> QED
    BY <1>5, <2>1 DEF CoreInv, BitmapCovers, WalkStep
<1>10. MappedAsAsked'
  BY <1>1, <1>3, <1>8, StableKeepsPromises DEF CoreInv, MappedAsAsked
<1>11. PD'[v[1]] \in Image
  <2>1. PD'[v[1]] # Absent
    BY <1>2, <1>3, <1>5, DirectoryType, PoolNotExhausted, Constants
       DEF DirectoryStep, Absent, Frames
  <2>2. PD'[v[1]] \in {Absent, PDFrame, PT1Frame} \cup Pool
    BY <1>2, <1>6, Constants DEF DirectoryShape
  <2> QED BY <2>1, <2>2, Constants
<1>12. FramesCounted'
  BY <1>1, <1>2, <1>3, <1>4, <1>5, DemandFrameCounted
<1>13. FramesInv => FramesInv'
  BY <1>1, <1>2, <1>3, <1>4, <1>5, <1>11, DemandFrameStep
<1> QED
  BY <1>7, <1>8, <1>9, <1>10, <1>12, <1>13 DEF Good, CoreInv

LEMMA WindowFaultStep ==
  ASSUME CoreInv, NEW v \in Touchable, FaultOnWindow(v)
  PROVE  Good /\ (FramesInv => FramesInv')
<1> DEFINE new == PoolFrame + kernel_PT_index
<1>1. /\ v[1] = LastPD /\ Walk(tables, v) = Absent
      /\ tables' = SetEntry(tables, AllocatePT(tables, kernel_PT_index), v)
      /\ kernel_PT_index' = kernel_PT_index + 1
      /\ UNCHANGED <<virtual_mmap, cur_virtaddr_idx, cur_physaddr, ready, granted>>
  BY DEF FaultOnWindow
<1>2. /\ v \in VPages /\ v[2] \in Slots /\ v[2] \in Reach
      /\ KernelPD \in Nat /\ LastPD \in Nat /\ KernelPD < LastPD
  BY <1>1, PagingAssumption DEF PagingAssumption, VPages, Reach, LastPD
<1>3. TablesInv /\ FramesCounted
  BY DEF CoreInv
<1>4. /\ tables' \in [Image -> [Slots -> Frames \cup {Absent}]]
      /\ DirectoryStep(v[2]) /\ WalkStep(v, new, v[2])
      /\ FreshTablesEmpty' /\ PoolIsMapped' /\ new \in Pool
  BY <1>1, <1>2, <1>3, WindowFaultEffect
<1>5. /\ DirectoryShape' /\ PoolInOrder' /\ TablesNotShared'
      /\ kernel_PT_index' \in Nat
  BY <1>2, <1>3, <1>4, DirectoryStepPreserves
<1>6. TablesInv'
  BY <1>1, <1>3, <1>4, <1>5 DEF TablesInv, TypeOK
<1>7. \A w \in VPages : Walk(tables, w) # Absent => Walk(tables', w) = Walk(tables, w)
  BY <1>1, <1>2, <1>3, <1>4, WalkStepStable
<1>8. BitmapCovers'
  <2> SUFFICES ASSUME ready, NEW w \in VPages, w[1] \in KernelPD .. LastPD - 1,
                      Walk(tables', w) # Absent
               PROVE  w \in virtual_mmap
    BY <1>1 DEF CoreInv, BitmapCovers
  <2>1. w # v /\ w # <<LastPD, v[2]>>
    BY <1>1, <1>2
  <2> QED
    BY <1>4, <2>1 DEF CoreInv, BitmapCovers, WalkStep
<1>9. MappedAsAsked'
  BY <1>1, <1>3, <1>7, StableKeepsPromises DEF CoreInv, MappedAsAsked
<1>10. PD'[v[2]] \in Image
  <2>1. v = <<LastPD, v[2]>> /\ PD[LastPD] = PDFrame /\ PDFrame # Absent
    BY <1>1, <1>2, <1>3, Constants DEF TablesInv, DirectoryShape, VPages, Absent, Frames
  <2>2. PD[v[2]] = Absent
    BY <1>1, <2>1 DEF Walk, PD
  <2>3. PD'[v[2]] = new
    BY <1>2, <1>3, <1>4, <2>2, DirectoryType DEF DirectoryStep
  <2> QED BY <1>4, <2>3, Constants
<1>11. FramesCounted'
  <2>1. v[1] >= KernelPD
    BY <1>1, <1>2
  <2> QED BY <1>1, <1>2, <1>3, <1>4, <2>1, OtherFrameCounted
<1>12. FramesInv => FramesInv'
  <2>1. new \in Image /\ new \in Frames
    BY <1>4, Constants
  <2>2. new \notin DemandFrames
    BY <2>1, ImageBelowDemand
  <2> QED
    BY <1>1, <1>2, <1>4, <1>10, <2>1, <2>2, OtherFrameStep
<1> QED
  BY <1>6, <1>7, <1>8, <1>9, <1>11, <1>12 DEF Good, CoreInv

LEMMA NextGood == CoreInv /\ Next => Good
BY SnapshotStep, RequestStep, DataFaultStep, WindowFaultStep DEF Next

LEMMA NextFrames == IInv /\ Next => FramesInv'
<1>1. \A f \in FirmwareFrames : f \notin DemandFrames
  BY FirmwareOutOfReach
<1> QED
  BY <1>1, SnapshotStep, RequestStep, DataFaultStep, WindowFaultStep DEF Next, IInv

LEMMA StutterInvariant ==
  UNCHANGED vars => (CoreInv => CoreInv') /\ (FramesInv => FramesInv')
<1> SUFFICES ASSUME UNCHANGED vars
             PROVE  (CoreInv => CoreInv') /\ (FramesInv => FramesInv')
  OBVIOUS
<1>1. /\ tables' = tables /\ kernel_PT_index' = kernel_PT_index
      /\ virtual_mmap' = virtual_mmap /\ cur_virtaddr_idx' = cur_virtaddr_idx
      /\ cur_physaddr' = cur_physaddr /\ ready' = ready /\ granted' = granted
  BY DEF vars
<1>2. PD' = PD /\ Linked' = Linked /\ Demanded' = Demanded
  BY <1>1 DEF PD, Linked, Demanded
<1>3. TablesInv => TablesInv'
  BY <1>1, <1>2 DEF TablesInv, TypeOK, DirectoryShape, PoolInOrder,
     TablesNotShared, FreshTablesEmpty, PoolIsMapped
<1>4. CoreInv => CoreInv'
  BY <1>1, <1>2, <1>3 DEF CoreInv, BitmapCovers, MappedAsAsked, FramesCounted
<1>5. FramesInv => FramesInv'
  BY <1>1 DEF FramesInv, FramesInOrder, KernelFramesPrivate, DemandFramesPrivate,
     DemandFrames
<1> QED
  BY <1>4, <1>5

-----------------------------------------------------------------------------
(* The theorems *)

(* The strengthening of the safety properties that is inductive, whatever  *)
(* frames the firmware's tables are in, ...                                *)
THEOREM CoreInvariance == Spec => []CoreInv
<1>1. Init => CoreInv
  BY InitInvariant DEF IInv
<1>2. CoreInv /\ [Next]_vars => CoreInv'
  BY NextGood, StutterInvariant DEF Good
<1> QED
  BY <1>1, <1>2, PTL DEF Spec

(* ... and with FirmwareOutOfReach what it says of frames as well.         *)
THEOREM Invariance == Spec => []IInv
<1>1. Init => IInv
  BY InitInvariant
<1>2. IInv /\ [Next]_vars => IInv'
  BY NextGood, NextFrames, StutterInvariant DEF Good, IInv
<1> QED
  BY <1>1, <1>2, PTL DEF Spec

(* The variables of paging.c keep their shapes: the pool index, the bitmap *)
(* cursor and the physical cursor stay in range (paging.c:13-18).          *)
THEOREM TypeCorrect == Spec => []TypeOK
<1>1. CoreInv => TypeOK
  BY DEF CoreInv, TablesInv
<1> QED
  BY <1>1, CoreInvariance, PTL

(* map_page after find_free_virtaddr always takes effect, and for good: a  *)
(* driver finds the frame it asked for (rsdt.c:28-30, apic.c:55-57).       *)
THEOREM RequestsHonoured == Spec => []MappedAsAsked
<1>1. CoreInv => MappedAsAsked
  BY DEF CoreInv
<1> QED
  BY <1>1, CoreInvariance, PTL

(* allocate_pt never hands out a table that is in use (paging.c:122-132).  *)
THEOREM TablesPrivate == Spec => []TablesNotShared
<1>1. CoreInv => TablesNotShared
  BY DEF CoreInv, TablesInv
<1> QED
  BY <1>1, CoreInvariance, PTL

(* Nor one from beyond the end of kernel_PTs, which it does not test.      *)
LEMMA TablesPreallocated == Spec => []TablesFromPool
<1>1. CoreInv => TablesFromPool
  <2>1. CoreInv => TablesInv
    BY DEF CoreInv
  <2> QED
    BY <2>1, DirectoryType DEF TablesFromPool, PD
<1> QED
  BY <1>1, CoreInvariance, PTL

(* The fault handler never exposes the kernel's own frames outside the     *)
(* higher half, and find_free_physaddr never gives one frame to two pages, *)
(* nor one that holds a table of the firmware, as long as it does not get  *)
(* that far (FirmwareOutOfReach).                                          *)
THEOREM FramesStayPrivate == Spec => []FramesPrivate
<1>1. IInv => FramesPrivate
  BY DEF IInv, FramesInv, FramesPrivate
<1> QED
  BY <1>1, Invariance, PTL

(* allocate_pt stays inside kernel_PTs (paging.c:128), and a table that a  *)
(* fault in the window links without clearing it is empty                  *)
(* (exception_handler.c:103).                                              *)
THEOREM PoolStaysKept == Spec => []PoolKept
<1>1. CoreInv => FreshTablesEmpty
  BY DEF CoreInv, TablesInv
<1>2. TablesFromPool /\ FreshTablesEmpty => PoolKept
  BY DEF PoolKept
<1> QED
  BY <1>1, <1>2, TablesPreallocated, CoreInvariance, PTL

(* No step of map_page, allocate_pt or the fault handler changes or        *)
(* removes a translation that exists (paging.c:134-172).                   *)
THEOREM TranslationsStable == Spec => MappingsAreStable
<1>1. CoreInv /\ [Next]_vars
        => [\A v \in VPages : Walk(tables, v) # Absent
                              => Walk(tables', v) = Walk(tables, v)]_vars
  BY NextGood DEF Good
<1> QED
  BY <1>1, CoreInvariance, PTL DEF Spec, MappingsAreStable

-----------------------------------------------------------------------------
(* The refinement *)

Space == [v \in DataPages |-> Walk(tables, v)]

LEMMA SpaceUpdate ==
  ASSUME NEW v \in DataPages, NEW f, NEW d, WalkStep(v, f, d)
  PROVE  Space' = [Space EXCEPT ![v] = f]
<1>1. \A w \in DataPages : Walk(tables', w) = IF w = v THEN f ELSE Walk(tables, w)
  BY DEF DataPages, WalkStep
<1> QED
  BY <1>1 DEF Space

(* A request of a driver is a request of the abstract address space.       *)
LEMMA RequestMaps ==
  ASSUME IInv, NEW f \in FirmwareFrames, MapFresh(f)
  PROVE  \E v \in DataPages : AS!Request(v, f)
<1>1. PICK v \in VPages : /\ WithinKernelSpace(v)
                          /\ FindFreeVirtaddr(v)
                          /\ MapPage(f, v)
                          /\ granted' = granted \cup {<<v, f>>}
  BY DEF MapFresh
<1>2. ready /\ TablesInv
  BY DEF MapFresh, IInv, CoreInv
<1>3. /\ v[1] # LastPD /\ Walk(tables, v) = Absent
      /\ PD[v[1]] = Absent => v[1] \in Reach
  BY <1>1, <1>2, FreePageIsFree DEF WithinKernelSpace, IInv
<1>4. f \in Frames
  BY PagingAssumption DEF PagingAssumption
<1>5. WalkStep(v, f, v[1])
  BY <1>1, <1>2, <1>3, <1>4, MapPageEffect
<1>6. v \in DataPages /\ Space[v] = Absent
  BY <1>3 DEF DataPages, Space
<1>7. Space' = [Space EXCEPT ![v] = f]
  BY <1>5, <1>6, SpaceUpdate
<1> QED
  BY <1>1, <1>6, <1>7 DEF AS!Request, Space

(* A fault on a data page is a page touched for the first time: the frame  *)
(* it gets is above every one handed out.                                  *)
LEMMA DataFaultMaps ==
  ASSUME IInv, NEW v \in Touchable, FaultOnData(v)
  PROVE  \E w \in DataPages, f \in Frames : AS!Demand(w, f)
<1>1. /\ v[1] # LastPD /\ Walk(tables, v) = Absent /\ MapPage(cur_physaddr, v)
      /\ granted' = granted
  BY DEF FaultOnData
<1>2. v \in VPages /\ v[1] < KernelPD /\ v[1] \in Reach
  BY <1>1, TouchDiscipline, PagingAssumption DEF PagingAssumption, VPages, Reach
<1>3. TablesInv /\ FramesCounted /\ FramesInv /\ cur_physaddr \in Frames
  BY DEF IInv, CoreInv, TablesInv, TypeOK
<1>4. WalkStep(v, cur_physaddr, v[1])
  BY <1>1, <1>2, <1>3, MapPageEffect
<1>5. v \in DataPages /\ Space[v] = Absent
  BY <1>1, <1>2 DEF DataPages, Space
<1>6. Space' = [Space EXCEPT ![v] = cur_physaddr]
  BY <1>4, <1>5, SpaceUpdate
<1>7. \A w \in DataPages : Space[w] # cur_physaddr
  <2> SUFFICES ASSUME NEW w \in DataPages, Walk(tables, w) = cur_physaddr PROVE FALSE
    BY DEF Space
  <2>1. w \in VPages /\ cur_physaddr \in Nat
    BY <1>3, Constants DEF DataPages
  <2>2. cur_physaddr \in DemandFrames
    BY <1>1, <1>2, <1>3, FramesNotExhausted
  <2>3. Walk(tables, w) < cur_physaddr
    BY <1>3, <2>1, <2>2 DEF FramesInv, FramesInOrder
  <2> QED BY <2>1, <2>3
<1> QED
  BY <1>1, <1>3, <1>5, <1>6, <1>7 DEF AS!Demand, Space

(* A fault in the window links an empty table: no data page is affected.   *)
LEMMA WindowFaultStutters ==
  ASSUME IInv, NEW v \in Touchable, FaultOnWindow(v)
  PROVE  Space' = Space /\ granted' = granted
<1>1. /\ v[1] = LastPD /\ Walk(tables, v) = Absent
      /\ tables' = SetEntry(tables, AllocatePT(tables, kernel_PT_index), v)
      /\ kernel_PT_index' = kernel_PT_index + 1 /\ granted' = granted
  BY DEF FaultOnWindow
<1>2. v \in VPages /\ v[2] \in Reach /\ TablesInv
  BY <1>1, PagingAssumption DEF PagingAssumption, VPages, Reach, LastPD, IInv, CoreInv
<1>3. WalkStep(v, PoolFrame + kernel_PT_index, v[2])
  BY <1>1, <1>2, WindowFaultEffect
<1>4. \A w \in DataPages : Walk(tables', w) = Walk(tables, w)
  BY <1>1, <1>3 DEF WalkStep, DataPages
<1> QED
  BY <1>1, <1>4 DEF Space

(* paging.c and the fault handler implement the abstract address space:    *)
(* tables, bitmap, window and counters amount to a map that only grows.    *)
THEOREM Implementation == Spec => ImplementsAddressSpace
<1>1. ASSUME Init PROVE AS!Init
  <2>1. IInv /\ granted = {}
    BY <1>1, InitInvariant DEF Init
  <2>2. Space \in [DataPages -> Frames \cup {Absent}]
    BY <2>1, WalkType DEF Space, DataPages, IInv, CoreInv
  <2> QED BY <2>1, <2>2 DEF AS!Init, Space
<1>2. ASSUME IInv, [Next]_vars PROVE [AS!Next]_(AS!vars)
  <2>1. CASE UNCHANGED vars
    BY <2>1 DEF vars, AS!vars
  <2>2. CASE InitPageAllocation
    BY <2>2 DEF InitPageAllocation, AS!vars
  <2>3. CASE \E f \in FirmwareFrames : MapFresh(f)
    BY <1>2, <2>3, RequestMaps DEF AS!Next
  <2>4. CASE \E v \in Touchable : FaultOnData(v)
    BY <1>2, <2>4, DataFaultMaps DEF AS!Next
  <2>5. CASE \E v \in Touchable : FaultOnWindow(v)
    BY <1>2, <2>5, WindowFaultStutters DEF AS!vars, Space
  <2> QED BY <1>2, <2>1, <2>2, <2>3, <2>4, <2>5 DEF Next
<1> QED
  BY <1>1, <1>2, Invariance, PTL DEF Spec, ImplementsAddressSpace, AS!Spec
=============================================================================
