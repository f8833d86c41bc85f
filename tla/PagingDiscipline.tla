-------------------------- MODULE PagingDiscipline --------------------------
(***************************************************************************)
(* The conditions under which the paging code keeps its promises.  The     *)
(* code does not enforce them; they are what its callers and the linker    *)
(* have to provide.                                                        *)
(***************************************************************************)
EXTENDS Paging

(* Directory entries that may come to need a table.                        *)
Reach == (KernelPD + 1 .. LastPD - 1)
           \cup {v[1] : v \in {w \in Touchable : w[1] # LastPD}}
           \cup {v[2] : v \in {w \in Touchable : w[1] = LastPD}}

(* Kernel code does not touch a page of the allocator's range before the   *)
(* allocator has handed it out: no table is read past its first page.      *)
ASSUME TouchDiscipline ==
  \A v \in Touchable : v[1] < KernelPD \/ v[1] = LastPD

(* kernel_PTs has a table for every directory entry that may need one.     *)
ASSUME TableBudget == Cardinality(Reach) <= PoolSize

(* There are frames for all the pages that may be touched.                 *)
ASSUME FrameBudget == IsFiniteSet(Touchable)
                      /\ Cardinality(Touchable) < NFrames - DemandBase

(* The frames that page faults come to hand out hold nothing of the        *)
(* firmware.  find_free_physaddr counts up from 256 MiB without looking    *)
(* (paging.c:194): of the APICs it is 3.7 GiB away, but where RAM ends     *)
(* shortly above 256 MiB it may run into ACPI tables, and a page fault     *)
(* would then hand out the frame of a table.  The allocator of virtual     *)
(* pages and MappedAsAsked do not need this.                               *)
ASSUME FirmwareOutOfReach == FirmwareFrames \cap DemandFrames = {}

(* kernel_PTs starts on a page boundary.                                   *)
ASSUME PoolAligned == IndexOnPool = FALSE
=============================================================================
