---------------------------- MODULE AddressSpace ----------------------------
(***************************************************************************)
(* What the memory subsystem of pekOS promises to the rest of the kernel,  *)
(* with no page tables, bitmap or counters: a partial map from virtual     *)
(* pages to physical frames.  The map only grows.  A page gets its frame   *)
(* either because a driver asked for that frame to be mapped somewhere     *)
(* (find_free_virtaddr followed by map_page), or because the kernel        *)
(* touched the page and the page-fault handler backed it with a frame that *)
(* nothing else uses.  Module Paging is shown to implement this one.       *)
(***************************************************************************)
CONSTANTS
  Pages,           \* the virtual pages that hold data
  Frames,          \* the physical frames
  Absent,          \* "no frame": the present bit is clear
  FirmwareFrames   \* the frames a driver may ask to have mapped

VARIABLES
  space,           \* the partial map
  granted          \* the requests answered so far: pairs <<page, frame>>

vars == <<space, granted>>

Init == /\ space \in [Pages -> Frames \cup {Absent}]
        /\ granted = {}

(* A driver asks for frame f and is told the page where it now is.         *)
Request(v, f) ==
  /\ space[v] = Absent
  /\ space' = [space EXCEPT ![v] = f]
  /\ granted' = granted \cup {<<v, f>>}

(* The kernel touches an unmapped page; it gets a frame of its own.        *)
Demand(v, f) ==
  /\ space[v] = Absent
  /\ \A w \in Pages : space[w] # f
  /\ space' = [space EXCEPT ![v] = f]
  /\ UNCHANGED granted

Next ==
  \/ \E v \in Pages, f \in FirmwareFrames : Request(v, f)
  \/ \E v \in Pages, f \in Frames : Demand(v, f)

Spec == Init /\ [][Next]_vars
=============================================================================
