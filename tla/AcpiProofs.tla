----------------------------- MODULE AcpiProofs -----------------------------
(***************************************************************************)
(* The search for the root table and the replacement of its entries, for   *)
(* search areas and root tables of every size.                             *)
(***************************************************************************)
EXTENDS Acpi, TLAPS

Pointer == [kind : {"physical", "virtual", "upper"}, table : Int]

Searched == \A p \in 0 .. place - 1 : ~Genuine(memory[p])

(* Before the loop.                                                        *)
SearchInv ==
  /\ place \in Nat
  /\ memory \in [Places -> Roots \cup {NoRoot}] /\ tables \in Seq(STRING)
  /\ pc = "search" => Searched
  /\ pc \notin {"search", "lost"} =>
       /\ rsdp \in Places /\ Genuine(memory[rsdp])
       /\ \A p \in 0 .. rsdp - 1 : ~Genuine(memory[p])
       /\ ACPI_version = AsBool(memory[rsdp].revision)

Width == IF ACPI_version = 0 THEN 1 ELSE 2

(* In the loop: the entries before entry are done, the others untouched.   *)
LoopInv ==
  pc = "entries" =>
    /\ entries = Len(tables) /\ entry \in 0 .. entries
    /\ words \in [0 .. Width * entries - 1 -> Pointer]
    /\ \A e \in 0 .. entry - 1 : words[e] = Virtual(e)
    /\ \A e \in entry .. entries - 1 : words[Source(e)] = Physical(e)

IInv == SearchInv /\ LoopInv /\ EntriesTranslated

LEMMA RootFacts ==
  ASSUME NEW r \in Roots \cup {NoRoot}, r # NoRoot
  PROVE  r.revision \in {0, 2} /\ (ChecksumOK(r) <=> Genuine(r))
BY AcpiAssumption DEF AcpiAssumption, Root, ChecksumOK, Genuine

LEMMA InvInit == Init => IInv
BY AcpiAssumption
   DEF AcpiAssumption, Init, IInv, SearchInv, LoopInv, Searched, EntriesTranslated, Ready

LEMMA Pointers ==
  \A i \in Int : /\ Physical(i) \in Pointer /\ Virtual(i) \in Pointer /\ Upper(i) \in Pointer
                 /\ Physical(i).table = i
BY DEF Pointer, Physical, Virtual, Upper

(* What firmware wrote: each entry is where the loop will read it.         *)
LEMMA FreshTable ==
  ASSUME NEW n \in Nat, NEW version \in {0, 2}
  PROVE  LET w == RootTable(n, version)
             k == IF version = 0 THEN 1 ELSE 2
         IN  /\ w \in [0 .. k * n - 1 -> Pointer]
             /\ \A e \in 0 .. n - 1 : w[IF version # 0 THEN 2 * e ELSE e] = Physical(e)
<1> DEFINE w == RootTable(n, version)
<1>1. CASE version = 0
  <2>1. w = [i \in 0 .. n - 1 |-> Physical(i)]
    BY <1>1 DEF RootTable
  <2>2. w \in [0 .. n - 1 -> Pointer] /\ \A e \in 0 .. n - 1 : w[e] = Physical(e)
    BY <2>1, Pointers
  <2>3. 1 * n - 1 = n - 1
    OBVIOUS
  <2> QED
    BY <1>1, <2>2, <2>3
<1>2. CASE version = 2
  <2> DEFINE word(i) == IF i % 2 = 0 THEN Physical(i \div 2) ELSE Upper(i \div 2)
  <2>1. w = [i \in 0 .. 2 * n - 1 |-> word(i)]
    BY <1>2 DEF RootTable
  <2>2. \A i \in 0 .. 2 * n - 1 : i \div 2 \in Int
    OBVIOUS
  <2>3. \A i \in 0 .. 2 * n - 1 : word(i) \in Pointer
    BY <2>2, Pointers
  <2>4. w \in [0 .. 2 * n - 1 -> Pointer]
    BY <2>1, <2>3
  <2>5. ASSUME NEW e \in 0 .. n - 1 PROVE w[2 * e] = Physical(e)
    <3>1. 2 * e \in 0 .. 2 * n - 1 /\ (2 * e) % 2 = 0 /\ (2 * e) \div 2 = e
      OBVIOUS
    <3> QED
      BY <2>1, <3>1
  <2> QED
    BY <1>2, <2>4, <2>5
<1> QED
  BY <1>1, <1>2

LEMMA ProbeStep == IInv /\ Probe => IInv'
<1> SUFFICES ASSUME IInv, Probe PROVE IInv'
  OBVIOUS
<1> DEFINE c == memory[place]
<1>1. c \in Roots \cup {NoRoot} /\ place \in Places /\ place \in Nat /\ pc = "search"
  BY DEF IInv, SearchInv, Probe
<1>2. CASE c = NoRoot \/ ~ChecksumOK(c)
  <2>1. ~Genuine(c)
    BY <1>1, <1>2, RootFacts DEF Genuine
  <2>2. place' = place + 1 /\ pc' = "search" /\ memory' = memory /\ tables' = tables
    BY <1>1, <1>2 DEF Probe, firmware
  <2> QED
    BY <1>1, <2>1, <2>2 DEF IInv, SearchInv, Searched, LoopInv, EntriesTranslated, Ready
<1>3. CASE c # NoRoot /\ ChecksumOK(c)
  <2>1. Genuine(c)
    BY <1>1, <1>3, RootFacts
  <2>2. /\ rsdp' = place /\ pc' = "root" /\ place' = place
        /\ memory' = memory /\ tables' = tables /\ ACPI_version' = AsBool(c.revision)
    BY <1>1, <1>3 DEF Probe, firmware
  <2> QED
    BY <1>1, <2>1, <2>2 DEF IInv, SearchInv, Searched, LoopInv, EntriesTranslated, Ready
<1> QED
  BY <1>2, <1>3

LEMMA MapRootStep == IInv /\ MapRoot => IInv'
<1> SUFFICES ASSUME IInv, MapRoot PROVE IInv'
  OBVIOUS
<1>1. /\ pc = "root" /\ pc' = "entries" /\ UNCHANGED <<memory, tables, place, rsdp, ACPI_version>>
      /\ words' = RootTable(Len(tables), memory[rsdp].revision)
      /\ entry' = 0 /\ entries' = Len(tables)
  BY DEF MapRoot, firmware, search, IInv, SearchInv
<1>2. Len(tables) \in Nat
  BY DEF IInv, SearchInv
<1>3. memory[rsdp].revision \in {0, 2} /\ ACPI_version = AsBool(memory[rsdp].revision)
  <2>1. memory[rsdp] \in Roots \cup {NoRoot} /\ memory[rsdp] # NoRoot
        /\ ACPI_version = AsBool(memory[rsdp].revision)
    BY <1>1 DEF IInv, SearchInv, Genuine
  <2> QED
    BY <2>1, RootFacts
<1>4. SearchInv'
  BY <1>1 DEF IInv, SearchInv, Searched
<1>5. /\ words' \in [0 .. Width * Len(tables) - 1 -> Pointer]
      /\ \A e \in 0 .. Len(tables) - 1 : words'[Source(e)] = Physical(e)
  BY <1>1, <1>2, <1>3, FreshTable DEF Width, Source, AsBool
<1>6. LoopInv'
  BY <1>1, <1>2, <1>5 DEF LoopInv, Width, Source
<1> QED
  BY <1>1, <1>4, <1>6 DEF IInv, EntriesTranslated, Ready

LEMMA MapEntryStep == IInv /\ MapEntry => IInv'
<1> SUFFICES ASSUME IInv, MapEntry PROVE IInv'
  OBVIOUS
<1>1. /\ pc = "entries" /\ pc' = "entries" /\ entry < entries
      /\ entry' = entry + 1
      /\ words' = [words EXCEPT ![entry] = Virtual(words[Source(entry)].table)]
      /\ UNCHANGED <<memory, tables, place, rsdp, ACPI_version, entries>>
  BY DEF MapEntry, Target, firmware, search
<1>2. /\ entries = Len(tables) /\ entry \in 0 .. entries - 1 /\ entries \in Nat
      /\ words \in [0 .. Width * entries - 1 -> Pointer]
  BY <1>1 DEF IInv, SearchInv, LoopInv
<1>3. Virtual(words[Source(entry)].table) = Virtual(entry)
  <2>1. words[Source(entry)] = Physical(entry)
    BY <1>1, <1>2 DEF IInv, LoopInv
  <2> QED
    BY <1>2, <2>1, Pointers
<1>4. entry \in 0 .. Width * entries - 1
  BY <1>2 DEF Width
<1>5. words' \in [0 .. Width * entries - 1 -> Pointer]
  BY <1>1, <1>2, <1>3, <1>4, Pointers
<1>6. \A e \in 0 .. entry : words'[e] = Virtual(e)
  <2> SUFFICES ASSUME NEW e \in 0 .. entry PROVE words'[e] = Virtual(e)
    OBVIOUS
  <2>1. CASE e = entry
    BY <1>1, <1>2, <1>3, <1>4, <2>1
  <2>2. CASE e # entry
    BY <1>1, <1>2, <1>4, <2>2 DEF IInv, LoopInv
  <2> QED
    BY <2>1, <2>2
(* The word that is written lies before every word still to be read.       *)
<1>7. \A e \in entry + 1 .. entries - 1 : words'[Source(e)] = Physical(e)
  <2> SUFFICES ASSUME NEW e \in entry + 1 .. entries - 1
               PROVE  words'[Source(e)] = Physical(e)
    OBVIOUS
  <2>1. Source(e) # entry /\ Source(e) \in 0 .. Width * entries - 1
    BY <1>2 DEF Source, Width
  <2>2. words[Source(e)] = Physical(e)
    BY <1>1, <1>2 DEF IInv, LoopInv
  <2> QED
    BY <1>1, <1>2, <2>1, <2>2
<1>8. LoopInv'
  BY <1>1, <1>2, <1>5, <1>6, <1>7 DEF LoopInv, Width, Source
<1> QED
  BY <1>1, <1>8 DEF IInv, SearchInv, Searched, EntriesTranslated, Ready

(* Everything after the loop leaves the entries alone.                     *)
LEMMA LaterStep ==
  ASSUME IInv,
         pc \in Ready \/ (pc = "entries" /\ entry >= entries),
         pc' \in Ready,
         UNCHANGED <<firmware, search, root>>
  PROVE  IInv'
<1>1. UNCHANGED <<memory, tables, place, rsdp, ACPI_version, words, entry, entries>>
  BY DEF firmware, search, root
<1>2. \A e \in 0 .. Len(tables) - 1 : words[e] = Virtual(e)
  BY DEF IInv, SearchInv, LoopInv, EntriesTranslated
<1> QED
  BY <1>1, <1>2 DEF IInv, SearchInv, Searched, LoopInv, EntriesTranslated, Ready

LEMMA InvNext == IInv /\ [Next]_vars => IInv'
<1> SUFFICES ASSUME IInv, [Next]_vars PROVE IInv'
  OBVIOUS
<1>1. CASE GiveUp
  BY <1>1 DEF GiveUp, firmware, search, IInv, SearchInv, Searched, LoopInv, EntriesTranslated, Ready
<1>2. CASE EndEntries
  BY <1>2, LaterStep DEF EndEntries, Ready
<1>3. CASE FindMadt
  BY <1>3, LaterStep DEF FindMadt, Ready
<1>4. CASE FindIoApic
  BY <1>4, LaterStep DEF FindIoApic, NextRecord, Ready
<1>5. CASE FindIso
  BY <1>5, LaterStep DEF FindIso, NextRecord, Ready
<1>6. CASE ReadNull
  BY <1>6, LaterStep DEF ReadNull, Ready
<1>7. CASE FindFadt
  BY <1>7, LaterStep DEF FindFadt, Ready
<1>8. CASE UNCHANGED vars
  BY <1>8 DEF vars, firmware, search, root, IInv, SearchInv, Searched, LoopInv,
     EntriesTranslated, Ready, Width, Source
<1> QED
  BY <1>1, <1>2, <1>3, <1>4, <1>5, <1>6, <1>7, <1>8, ProbeStep, MapRootStep, MapEntryStep
     DEF Next

LEMMA InvHolds == Spec => []IInv
BY InvInit, InvNext, PTL DEF Spec

(* find_RSDP returns the first good candidate and ACPI_version is its      *)
(* version, for every search area.                                         *)
THEOREM RootValid == Spec => []RootIsValid
<1>1. IInv => RootIsValid
  BY DEF IInv, SearchInv, RootIsValid
<1> QED
  BY <1>1, InvHolds, PTL

(* init_rsdt translates the entries of a root table of any length in place *)
(* without losing one, in both versions.                                   *)
THEOREM EntriesAreTranslated == Spec => []EntriesTranslated
<1>1. IInv => EntriesTranslated
  BY DEF IInv
<1> QED
  BY <1>1, InvHolds, PTL

-----------------------------------------------------------------------------
(* What the users of the tables find *)

(* The root table is counted once; results stay what they were.            *)
FoundInv ==
  /\ pc \in Ready => entries = Len(tables)
  /\ pc \in Ready \ {"apic"} /\ ACPI_version = 0 => IsFirst("APIC", madt)
  /\ pc \in {"null fadt", "done"} /\ ACPI_version = 0 => IsFirst("FACP", fadt)

(* find_by_header reads the entries that init_rsdt has replaced.           *)
LEMMA FindsFirst ==
  ASSUME IInv, pc \in Ready, entries = Len(tables), ACPI_version = 0, NEW signature, NEW e,
         FindByHeader(signature, e)
  PROVE  IsFirst(signature, e)
<1>1. /\ tables \in Seq(STRING) /\ Len(tables) \in Nat /\ DOMAIN tables = 1 .. Len(tables)
      /\ \A i \in 0 .. Len(tables) - 1 : words[i] = Virtual(i)
  BY DEF IInv, SearchInv, EntriesTranslated
<1>2. ASSUME NEW i \in 0 .. Len(tables) - 1 PROVE words[i].table = i
  <2>1. words[i] = Virtual(i)
    BY <1>1
  <2>2. Virtual(i).table = i
    BY DEF Virtual
  <2> QED BY <2>1, <2>2
<1>3. Bearing(signature) = {i \in 0 .. Len(tables) - 1 : tables[i + 1] = signature}
  BY <1>2 DEF Bearing
<1>4. CASE Bearing(signature) = {}
  <2>1. e = Missing
    BY <1>4 DEF FindByHeader
  <2>2. ASSUME NEW i \in 1 .. Len(tables) PROVE tables[i] # signature
    <3>1. i - 1 \in 0 .. Len(tables) - 1 /\ (i - 1) + 1 = i
      BY <1>1
    <3> QED BY <1>3, <1>4, <3>1
  <2> QED BY <1>1, <2>1, <2>2 DEF IsFirst
<1>5. CASE Bearing(signature) # {}
  <2>1. e \in Bearing(signature) /\ \A f \in Bearing(signature) : e <= f
    BY <1>5 DEF FindByHeader
  <2>2. e \in 0 .. Len(tables) - 1 /\ tables[e + 1] = signature /\ e + 1 \in DOMAIN tables
    BY <1>1, <1>3, <2>1
  <2>3. ASSUME NEW i \in 1 .. e PROVE tables[i] # signature
    <3>1. i - 1 \in 0 .. Len(tables) - 1 /\ (i - 1) + 1 = i /\ ~(e <= i - 1)
      BY <1>1, <2>2
    <3> QED BY <1>3, <2>1, <3>1
  <2> QED BY <2>2, <2>3 DEF IsFirst
<1> QED BY <1>4, <1>5

(* Steps that look up no table.                                            *)
LEMMA FoundKept ==
  ASSUME FoundInv, UNCHANGED <<tables, entries, ACPI_version, madt, fadt>>,
         pc' \in Ready => pc \in Ready, pc = "apic" => pc' \notin Ready \ {"apic"},
         pc' \in {"null fadt", "done"} => pc \in {"null fadt", "done"}
  PROVE  FoundInv'
BY DEF FoundInv, IsFirst, Ready

LEMMA FoundNext == FoundInv /\ IInv /\ [Next]_vars => FoundInv'
<1> SUFFICES ASSUME FoundInv, IInv, [Next]_vars PROVE FoundInv'
  OBVIOUS
<1>1. CASE Probe \/ GiveUp \/ MapRoot \/ MapEntry
  <2>1. pc' \notin Ready
    BY <1>1 DEF Probe, GiveUp, MapRoot, MapEntry, Ready
  <2> QED BY <2>1 DEF FoundInv, Ready
<1>2. CASE EndEntries
  BY <1>2 DEF EndEntries, root, IInv, LoopInv, FoundInv, Ready, firmware
<1>3. CASE FindMadt
  <2>1. FindByHeader("APIC", madt') /\ pc = "apic" /\ pc' \in {"ps2", "io_apic"}
        /\ UNCHANGED <<tables, entries, ACPI_version>>
    BY <1>3 DEF FindMadt, firmware, search, root
  <2>2. ACPI_version = 0 => IsFirst("APIC", madt')
    BY <2>1, FindsFirst DEF FoundInv, Ready
  <2>3. ACPI_version' = 0 => IsFirst("APIC", madt)'
    BY <2>1, <2>2 DEF IsFirst
  <2> QED BY <2>1, <2>3 DEF FoundInv, Ready
<1>4. CASE FindIoApic \/ FindIso \/ ReadNull
  <2>1. /\ UNCHANGED <<tables, entries, ACPI_version, madt, fadt>>
        /\ pc \in Ready \ {"apic"} /\ pc' \notin {"null fadt", "done"}
    BY <1>4 DEF FindIoApic, FindIso, NextRecord, ReadNull, firmware, search, root, users, Ready
  <2> QED BY <2>1, FoundKept
<1>5. CASE FindFadt
  <2>1. FindByHeader("FACP", fadt') /\ pc = "ps2" /\ pc' \in {"null fadt", "done"}
        /\ UNCHANGED <<tables, entries, ACPI_version, madt>>
    BY <1>5 DEF FindFadt, firmware, search, root
  <2>2. ACPI_version = 0 => IsFirst("FACP", fadt')
    BY <2>1, FindsFirst DEF FoundInv, Ready
  <2>3. ACPI_version' = 0 => IsFirst("FACP", fadt)' /\ IsFirst("APIC", madt)'
    BY <2>1, <2>2 DEF IsFirst, FoundInv, Ready
  <2> QED BY <2>1, <2>3 DEF FoundInv, Ready
<1>6. CASE UNCHANGED vars
  BY <1>6, FoundKept DEF vars, firmware, search, root, users
<1> QED
  BY <1>1, <1>2, <1>3, <1>4, <1>5, <1>6 DEF Next

(* In ACPI 1.0 find_by_header returns the first table of its name in a     *)
(* root table of any length, and none only when there is none.             *)
THEOREM TablesAreFound == Spec => []TablesFound
<1>1. Init => FoundInv
  BY DEF Init, FoundInv, Ready
<1>2. FoundInv => TablesFound
  BY DEF FoundInv, TablesFound, Ready
<1> QED
  BY <1>1, <1>2, FoundNext, InvHolds, PTL DEF Spec

-----------------------------------------------------------------------------
(* The loops end: the places still to probe, the entries still to map and  *)
(* the records still to pass become fewer with every step.                 *)

PhasesLeft ==
  CASE pc = "search" -> 8 [] pc = "root" -> 7 [] pc = "entries" -> 6 [] pc = "apic" -> 5
    [] pc = "io_apic" -> 4 [] pc = "iso" -> 3 [] pc = "null iso" -> 2 [] pc = "ps2" -> 1
    [] OTHER -> 0

AllPlaces == EbdaPlaces + RomPlaces
PlacesLeft == AllPlaces - place

EntriesLeft ==
  CASE pc \in {"search", "root"} -> Len(tables) [] pc = "entries" -> entries - entry
    [] OTHER -> 0

(* There are two walks over the records.                                   *)
Walk == Len(records) + 1
RecordsLeft ==
  CASE pc \in {"search", "root", "entries", "apic"} -> 2 * Walk
    [] pc = "io_apic" -> 2 * Walk - at
    [] pc = "iso" -> Walk - at
    [] OTHER -> 0

WorkLeft == PhasesLeft + PlacesLeft + EntriesLeft + RecordsLeft

Walking ==
  /\ pc \in {"search", "root", "entries"} \cup Ready \cup Over
  /\ records \in Madts /\ place \in 0 .. AllPlaces
  /\ entries \in Nat /\ entry \in 0 .. entries
  /\ pc \in {"io_apic", "iso"} => at \in 1 .. Walk

LEMMA RecordFacts ==
  ASSUME Walking
  PROVE  /\ Len(records) \in Nat /\ Walk = Len(records) + 1
         /\ \A i \in 1 .. Len(records) : records[i].length # 0
         /\ AllPlaces \in Nat /\ Places = 0 .. AllPlaces - 1
<1>1. records \in Seq(Record) /\ \A i \in DOMAIN records : records[i].length > 0
  BY AcpiAssumption, RecordsAdvance DEF AcpiAssumption, Walking
<1>2. Len(records) \in Nat /\ DOMAIN records = 1 .. Len(records)
  BY <1>1
<1>3. \A i \in 1 .. Len(records) : records[i].length # 0
  BY <1>1, <1>2 DEF Record
<1> QED
  BY <1>2, <1>3, AcpiAssumption DEF AcpiAssumption, Walk, Places, AllPlaces

Countable ==
  /\ PhasesLeft \in Nat /\ PlacesLeft \in Nat /\ EntriesLeft \in Nat /\ RecordsLeft \in Nat
  /\ WorkLeft \in Nat

LEMMA WorkType == IInv /\ Walking => Countable
<1> SUFFICES ASSUME IInv, Walking PROVE Countable
  OBVIOUS
<1>1. PhasesLeft \in Nat
  BY DEF Walking, PhasesLeft, Ready, Over
<1>2. PlacesLeft \in Nat
  BY RecordFacts DEF Walking, PlacesLeft
<1>3. EntriesLeft \in Nat
  BY DEF IInv, SearchInv, Walking, EntriesLeft
<1>4. Walk \in Nat /\ Walk > 0
  BY RecordFacts
<1>5. RecordsLeft \in Nat
  BY <1>4 DEF Walking, RecordsLeft
<1> QED
  BY <1>1, <1>2, <1>3, <1>5 DEF WorkLeft, Countable

(* Less is left when the phase is over, or when it goes on with less.      *)
LEMMA Advances ==
  ASSUME IInv, IInv', Walking, Walking',
         PlacesLeft' = PlacesLeft \/ PlacesLeft' < PlacesLeft,
         EntriesLeft' = EntriesLeft \/ EntriesLeft' < EntriesLeft,
         RecordsLeft' = RecordsLeft \/ RecordsLeft' < RecordsLeft,
         PhasesLeft' = PhasesLeft \/ PhasesLeft' < PhasesLeft,
         \/ PlacesLeft' < PlacesLeft \/ EntriesLeft' < EntriesLeft
         \/ RecordsLeft' < RecordsLeft \/ PhasesLeft' < PhasesLeft
  PROVE  WorkLeft' < WorkLeft
<1>1. Countable
  BY WorkType
<1>2. IInv' /\ Walking' => Countable'
  BY WorkType, PTL
<1> QED
  BY <1>1, <1>2 DEF Countable, WorkLeft

LEMMA LoopsAdvance ==
  ASSUME IInv, IInv', Walking, Next
  PROVE  Walking' /\ WorkLeft' < WorkLeft
<1> USE DEF Ready, Over, firmware, search, root, users
<1>0. /\ place \in 0 .. AllPlaces /\ AllPlaces \in Nat /\ Places = 0 .. AllPlaces - 1
      /\ entries \in Nat /\ entry \in 0 .. entries
  BY RecordFacts DEF Walking
<1>r. Len(records) \in Nat /\ Walk = Len(records) + 1
  BY RecordFacts
<1>t. Len(tables) \in Nat
  BY DEF IInv, SearchInv
<1>1. CASE Probe
  <2>1. /\ UNCHANGED <<tables, records, entry, entries, at>> /\ pc = "search"
        /\ place \in Places
        /\ \/ pc' = "search" /\ place' = place + 1
           \/ pc' = "root" /\ place' = place
    BY <1>1 DEF Probe
  <2>2. Walking'
    <3>1. pc' \in {"search", "root"}
      BY <2>1
    <3>2. records' \in Madts
      BY <2>1 DEF Walking
    <3>3. place' \in 0 .. AllPlaces
      BY <1>0, <2>1
    <3>4. entries' \in Nat /\ entry' \in 0 .. entries'
      BY <1>0, <2>1
    <3> QED
      BY <3>1, <3>2, <3>3, <3>4 DEF Walking
  <2>3. /\ EntriesLeft' = EntriesLeft /\ RecordsLeft' = RecordsLeft /\ EntriesLeft \in Nat
        /\ RecordsLeft \in Nat
    BY <2>1, WorkType DEF EntriesLeft, RecordsLeft, Walk, Countable
  <2>4. CASE pc' = "search" /\ place' = place + 1
    <3>1. PlacesLeft' < PlacesLeft
      BY <1>0, <2>4 DEF PlacesLeft
    <3>2. PhasesLeft' = PhasesLeft /\ PhasesLeft = 8
      BY <2>1, <2>4 DEF PhasesLeft
    <3> QED
      BY <2>2, <2>3, <3>1, <3>2, Advances
  <2>5. CASE pc' = "root" /\ place' = place
    <3>1. PlacesLeft' = PlacesLeft /\ PhasesLeft' = 7 /\ PhasesLeft = 8
      BY <2>1, <2>5 DEF PlacesLeft, PhasesLeft
    <3> QED
      BY <2>2, <2>3, <3>1, Advances
  <2> QED
    BY <2>1, <2>4, <2>5
<1>2. CASE GiveUp
  <2>1. /\ UNCHANGED <<tables, records, place, entry, entries>>
        /\ pc = "search" /\ pc' = "lost"
    BY <1>2 DEF GiveUp
  <2>2. Walking'
    BY <2>1 DEF Walking
  <2>3. PhasesLeft' = 0 /\ PhasesLeft = 8 /\ PlacesLeft' = PlacesLeft
    BY <2>1 DEF PhasesLeft, PlacesLeft
  <2>4. EntriesLeft' = 0 /\ EntriesLeft = Len(tables)
    BY <2>1 DEF EntriesLeft
  <2>5. RecordsLeft' = 0 /\ RecordsLeft = 2 * Walk
    BY <2>1 DEF RecordsLeft
  <2> QED
    BY <1>t, <1>r, <2>2, <2>3, <2>4, <2>5, Advances
<1>3. CASE MapRoot
  <2>1. /\ UNCHANGED <<tables, records, place>> /\ pc = "root" /\ pc' = "entries"
        /\ entry' = 0 /\ entries' = Len(tables)
    BY <1>3 DEF MapRoot
  <2>2. Walking'
    BY <1>t, <2>1 DEF Walking
  <2>3. PhasesLeft' = 6 /\ PhasesLeft = 7 /\ PlacesLeft' = PlacesLeft
    BY <2>1 DEF PhasesLeft, PlacesLeft
  <2>4. EntriesLeft' = EntriesLeft
    BY <1>t, <2>1 DEF EntriesLeft
  <2>5. RecordsLeft' = RecordsLeft
    BY <2>1 DEF RecordsLeft, Walk
  <2> QED
    BY <2>2, <2>3, <2>4, <2>5, Advances
<1>4. CASE MapEntry
  <2>1. /\ UNCHANGED <<pc, tables, records, place, entries>> /\ pc = "entries"
        /\ entry < entries /\ entry' = entry + 1
    BY <1>4 DEF MapEntry
  <2>2. Walking'
    BY <1>0, <2>1 DEF Walking
  <2>3. PhasesLeft' = PhasesLeft /\ PlacesLeft' = PlacesLeft /\ RecordsLeft' = RecordsLeft
    BY <2>1 DEF PhasesLeft, PlacesLeft, RecordsLeft, Walk
  <2>4. EntriesLeft' < EntriesLeft
    BY <1>0, <2>1 DEF EntriesLeft
  <2> QED
    BY <2>2, <2>3, <2>4, Advances
<1>5. CASE EndEntries
  <2>1. /\ UNCHANGED <<tables, records, place, entry, entries>>
        /\ pc = "entries" /\ pc' = "apic"
    BY <1>5 DEF EndEntries
  <2>2. Walking'
    BY <2>1 DEF Walking
  <2>3. PhasesLeft' = 5 /\ PhasesLeft = 6 /\ PlacesLeft' = PlacesLeft
    BY <2>1 DEF PhasesLeft, PlacesLeft
  <2>4. EntriesLeft' = 0 /\ EntriesLeft \in Nat
    BY <1>0, <2>1 DEF EntriesLeft
  <2>5. RecordsLeft' = RecordsLeft
    BY <2>1 DEF RecordsLeft, Walk
  <2> QED
    BY <2>2, <2>3, <2>4, <2>5, Advances
<1> DEFINE kept == UNCHANGED <<tables, records, place, entry, entries>>
<1>6. CASE FindMadt
  <2>1. kept /\ pc = "apic" /\ at' = 1 /\ pc' \in {"ps2", "io_apic"}
    BY <1>6 DEF FindMadt
  <2>u. records' = records
    BY <2>1
  <2>w. Walk' = Walk /\ Walk \in Nat \ {0}
    BY <1>r, <2>u DEF Walk
  <2>2. Walking'
    <3>1. pc' \in {"ps2", "io_apic"} /\ records' \in Madts /\ place' \in 0 .. AllPlaces
      BY <1>0, <2>1 DEF Walking
    <3>2. entries' \in Nat /\ entry' \in 0 .. entries'
      BY <1>0, <2>1
    <3>3. at' \in 1 .. Walk'
      <4>1. at' = 1
        BY <2>1
      <4> HIDE DEF kept
      <4> QED
        BY <2>w, <4>1
    <3> QED
      BY <3>1, <3>2, <3>3 DEF Walking
  <2>3. PhasesLeft' < PhasesLeft
    <3>1. PhasesLeft = 5
      BY <2>1 DEF PhasesLeft
    <3>2. PhasesLeft' \in {1, 4}
      BY <2>1 DEF PhasesLeft
    <3> QED
      BY <3>1, <3>2
  <2>4. PlacesLeft' = PlacesLeft /\ EntriesLeft' = EntriesLeft
    BY <2>1 DEF PlacesLeft, EntriesLeft
  <2>5. RecordsLeft' < RecordsLeft
    BY <2>1, <2>w DEF RecordsLeft
  <2> QED
    BY <2>2, <2>3, <2>4, <2>5, Advances
<1>7. CASE FindIoApic \/ FindIso
  <2> DEFINE onward == at \in 1 .. Len(records) /\ at' = at + 1 /\ UNCHANGED pc
  <2>1. /\ kept /\ at \in 1 .. Walk
        /\ \/ pc = "io_apic" /\ (onward \/ pc' = "ps2" \/ (pc' = "iso" /\ at' = 1))
           \/ pc = "iso" /\ (onward \/ pc' \in {"null iso", "ps2"})
    <3>1. pc \in {"io_apic", "iso"} /\ at \in 1 .. Walk
      BY <1>7 DEF FindIoApic, FindIso, Walking
    <3>2. \A type : NextRecord(type) => onward /\ kept
      BY <1>r, <3>1, RecordFacts DEF NextRecord
    <3> QED
      BY <1>7, <3>1, <3>2 DEF FindIoApic, FindIso
  <2>u. records' = records
    BY <2>1
  <2>w. Walk' = Walk /\ Walk \in Nat \ {0}
    BY <1>r, <2>u DEF Walk
  <2>2. Walking'
    <3>1. /\ pc' \in {"io_apic", "iso", "ps2", "null iso"}
          /\ records' \in Madts /\ place' \in 0 .. AllPlaces
      BY <1>0, <2>1 DEF Walking
    <3>2. entries' \in Nat /\ entry' \in 0 .. entries'
      BY <1>0, <2>1
    <3>3. pc' \in {"io_apic", "iso"} => at' \in 1 .. Walk'
      <4>1. CASE onward
        <5>1. at \in 1 .. Len(records) /\ at' = at + 1
          BY <4>1
        <5> QED
          BY <1>r, <2>w, <5>1
      <4>2. CASE pc' = "iso" /\ at' = 1
        BY <2>w, <4>2
      <4>3. CASE pc' \in {"null iso", "ps2"}
        BY <4>3
      <4> QED
        BY <2>1, <4>1, <4>2, <4>3
    <3> QED
      BY <3>1, <3>2, <3>3 DEF Walking
  <2>4. PlacesLeft' = PlacesLeft /\ EntriesLeft' = EntriesLeft
    BY <2>1 DEF PlacesLeft, EntriesLeft
  <2>5. CASE onward
    <3>1. PhasesLeft' = PhasesLeft
      BY <2>5 DEF PhasesLeft
    <3>2. RecordsLeft' < RecordsLeft
      <4>1. pc' = pc /\ at' = at + 1 /\ at \in 1 .. Walk
        BY <2>1, <2>5
      <4>2. CASE pc = "io_apic"
        <5>1. RecordsLeft = 2 * Walk - at /\ RecordsLeft' = 2 * Walk' - at'
          BY <4>1, <4>2 DEF RecordsLeft
        <5> QED
          BY <2>w, <4>1, <5>1
      <4>3. CASE pc = "iso"
        <5>1. RecordsLeft = Walk - at /\ RecordsLeft' = Walk' - at'
          BY <4>1, <4>3 DEF RecordsLeft
        <5> QED
          BY <2>w, <4>1, <5>1
      <4> QED
        BY <2>1, <4>2, <4>3
    <3> QED
      BY <2>2, <2>4, <3>1, <3>2, Advances
  <2>6. CASE ~onward
    <3>1. PhasesLeft' < PhasesLeft
      <4>1. pc = "io_apic" => PhasesLeft = 4 /\ PhasesLeft' \in {1, 3}
        BY <2>1, <2>6 DEF PhasesLeft
      <4>2. pc = "iso" => PhasesLeft = 3 /\ PhasesLeft' \in {1, 2}
        BY <2>1, <2>6 DEF PhasesLeft
      <4>3. pc \in {"io_apic", "iso"}
        BY <2>1
      <4>4. CASE pc = "io_apic"
        BY <4>1, <4>4
      <4>5. CASE pc = "iso"
        BY <4>2, <4>5
      <4> QED
        BY <4>3, <4>4, <4>5
    <3>2. RecordsLeft' = RecordsLeft \/ RecordsLeft' < RecordsLeft
      <4>1. CASE pc' = "iso"
        BY <2>1, <2>6, <2>w, <4>1 DEF RecordsLeft
      <4>2. CASE pc' # "iso"
        <5>1. RecordsLeft' = 0
          BY <2>1, <2>6, <4>2 DEF RecordsLeft
        <5>2. RecordsLeft \in Nat
          BY WorkType DEF Countable
        <5> QED
          BY <5>1, <5>2
      <4> QED
        BY <4>1, <4>2
    <3> QED
      BY <2>2, <2>4, <3>1, <3>2, Advances
  <2> QED
    BY <2>5, <2>6
<1>8. CASE ReadNull \/ FindFadt
  <2>1. /\ kept
        /\ \/ pc = "null iso" /\ pc' = "ps2"
           \/ pc = "ps2" /\ pc' \in {"null fadt", "done"}
    BY <1>8 DEF ReadNull, FindFadt
  <2>2. Walking'
    BY <2>1 DEF Walking
  <2>3. PhasesLeft' < PhasesLeft
    <3>1. CASE pc = "null iso" /\ pc' = "ps2"
      <4>1. PhasesLeft = 2 /\ PhasesLeft' = 1
        BY <3>1 DEF PhasesLeft
      <4> QED
        BY <4>1
    <3>2. CASE pc = "ps2" /\ pc' \in {"null fadt", "done"}
      <4>1. PhasesLeft = 1 /\ PhasesLeft' = 0
        BY <3>2 DEF PhasesLeft
      <4> QED
        BY <4>1
    <3> QED
      BY <2>1, <3>1, <3>2
  <2>4. PlacesLeft' = PlacesLeft /\ EntriesLeft' = EntriesLeft /\ RecordsLeft' = RecordsLeft
    BY <2>1 DEF PlacesLeft, EntriesLeft, RecordsLeft
  <2> QED
    BY <2>2, <2>3, <2>4, Advances
<1> QED
  BY <1>1, <1>2, <1>3, <1>4, <1>5, <1>6, <1>7, <1>8 DEF Next

(* The search, the mapping loop and the walks make progress with every     *)
(* step: find_RSDP, init_rsdt and find_MADT_entry_by_type cannot run in a  *)
(* circle, whatever the firmware wrote, as long as its records are not     *)
(* empty (rsdt.c, apic.c).                                                 *)
THEOREM EveryStepAdvances == Spec => [](WorkLeft \in Nat) /\ [][WorkLeft' < WorkLeft]_vars
<1>1. Init => Walking
  BY AcpiAssumption DEF AcpiAssumption, Init, Walking, AllPlaces
<1>2. IInv /\ IInv' /\ Walking /\ [Next]_vars => Walking' /\ [WorkLeft' < WorkLeft]_vars
  <2>1. CASE UNCHANGED vars
    BY <2>1 DEF vars, firmware, search, root, users, Walking, Walk
  <2> QED
    BY <2>1, LoopsAdvance
<1>3. IInv /\ Walking => WorkLeft \in Nat
  BY WorkType DEF Countable
<1> QED
  BY <1>1, <1>2, <1>3, InvHolds, PTL DEF Spec
=============================================================================
