-------------------------------- MODULE Acpi --------------------------------
(***************************************************************************)
(* How pekOS finds the ACPI tables: init_rsdt and find_by_header in        *)
(* devices/rsdt.c, and their two users, init_apic (devices/apic.c) and     *)
(* init_ps2 (devices/ps2.c), as far as they look at tables.                *)
(*                                                                         *)
(* The search area is a row of places 16 bytes apart, those in the EBDA    *)
(* first and those in the BIOS ROM after them.  The entries of the root    *)
(* table are 32-bit words for the code, one for each table in the RSDT of  *)
(* ACPI 1.0 and two in the XSDT of ACPI 2.0; as init_rsdt maps the tables  *)
(* it replaces the entries, where they are, by one word for each.          *)
(***************************************************************************)
EXTENDS Integers, Sequences

CONSTANTS
  EbdaPlaces,    \* places searched in the EBDA (0x1000 / 0x10)
  RomPlaces,     \* places searched in the ROM
  Roots,         \* what may be found at a place that bears the signature
  NoRoot,        \* a place without the signature
  RootTables,    \* signatures of the tables that root tables may list, in order
  Madts          \* records of the MADT, in order: their types and lengths

Places == 0 .. EbdaPlaces + RomPlaces - 1
Missing == -1

(* A candidate: its revision and whether its first 20 and its first 36     *)
(* bytes sum to zero.                                                      *)
Root == [revision : {0, 2}, sum20 : BOOLEAN, sum36 : BOOLEAN]
Record == [type : Nat, length : Nat]

ASSUME AcpiAssumption ==
  /\ EbdaPlaces \in Nat /\ RomPlaces \in Nat
  /\ Roots \subseteq Root /\ NoRoot \notin Roots
  /\ \A t \in RootTables : t \in Seq(STRING)
  /\ \A m \in Madts : m \in Seq(Record)

(* Firmware writes records that are as long as they say.                   *)
ASSUME RecordsAdvance == \A m \in Madts : \A i \in DOMAIN m : m[i].length > 0

VARIABLES
  memory,        \* the search area
  tables,        \* signatures of the tables that the root table lists
  records,       \* records of the MADT
  pc,            \* what the kernel does next
  place,         \* cur_location
  rsdp,          \* the candidate that was chosen, or Missing
  ACPI_version,
  words,         \* the entries of the root table
  entry, entries,
  madt, fadt,    \* results of find_by_header: an entry, or Missing
  at,            \* the record find_MADT_entry_by_type looks at
  io_apic, iso   \* the records it returned, 0 for none

firmware == <<memory, tables, records>>
search == <<place, rsdp, ACPI_version>>
root == <<words, entry, entries>>
users == <<madt, fadt, at, io_apic, iso>>
vars == <<firmware, pc, search, root, users>>

(* Pointers: physical or, once a page is mapped there, virtual.            *)
Physical(i) == [kind |-> "physical", table |-> i]
Virtual(i) == [kind |-> "virtual", table |-> i]
Upper(i) == [kind |-> "upper", table |-> i]

(* The table as firmware wrote it; the XSDT has the lower word first.  The *)
(* upper word is dropped by the casts of the code: 32-bit kernels are only *)
(* given tables below 4 GiB.                                               *)
RootTable(n, version) ==
  IF version = 0 THEN [w \in 0 .. n - 1 |-> Physical(w)]
  ELSE [w \in 0 .. 2 * n - 1 |-> IF w % 2 = 0 THEN Physical(w \div 2) ELSE Upper(w \div 2)]

Init ==
  /\ memory \in [Places -> Roots \cup {NoRoot}]
  /\ tables \in RootTables /\ records \in Madts
  /\ pc = "search" /\ place = 0 /\ rsdp = Missing /\ ACPI_version = 0
  /\ words = [w \in {} |-> Physical(0)] /\ entry = 0 /\ entries = 0
  /\ madt = Missing /\ fadt = Missing /\ at = 1 /\ io_apic = 0 /\ iso = 0

-----------------------------------------------------------------------------
(* Names that end in capitals are faulty variants of the definition that   *)
(* follows; nothing uses them.                                             *)

(* ACPI_version is a bool.                                                 *)
AsBool(revision) == IF revision = 0 THEN 0 ELSE 1

(* do_checksum_RSDP sums as many bytes as the revision says.               *)
ChecksumOK(c) == IF c.revision # 0 THEN c.sum36 ELSE c.sum20

(* One place of find_RSDP; ACPI_version is set for bad candidates as well. *)
Probe_LATE_VERSION ==
  /\ pc = "search" /\ place \in Places
  /\ IF memory[place] = NoRoot
     THEN place' = place + 1 /\ UNCHANGED <<ACPI_version, rsdp, pc>>
     ELSE /\ IF ChecksumOK(memory[place])
             THEN rsdp' = place /\ pc' = "root" /\ UNCHANGED <<place, ACPI_version>>
             ELSE /\ place' = place + 1 /\ UNCHANGED <<rsdp, pc>>
                  /\ ACPI_version' = AsBool(memory[place].revision)
  /\ UNCHANGED <<firmware, root, users>>

Probe ==
  /\ pc = "search" /\ place \in Places
  /\ IF memory[place] = NoRoot
     THEN place' = place + 1 /\ UNCHANGED <<ACPI_version, rsdp, pc>>
     ELSE /\ ACPI_version' = AsBool(memory[place].revision)
          /\ IF ChecksumOK(memory[place])
             THEN rsdp' = place /\ pc' = "root" /\ UNCHANGED place
             ELSE place' = place + 1 /\ UNCHANGED <<rsdp, pc>>
  /\ UNCHANGED <<firmware, root, users>>

(* "Failed to find RSDP": init_rsdt goes on with a null pointer, and what  *)
(* it reads is up to the page-fault handler.  The model stops here.        *)
GiveUp ==
  /\ pc = "search" /\ place \notin Places
  /\ pc' = "lost"
  /\ UNCHANGED <<firmware, search, root, users>>

(* find_RSDT, and the mapping of its result.                               *)
MapRoot ==
  /\ pc = "root" /\ pc' = "entries"
  /\ words' = RootTable(Len(tables), memory[rsdp].revision)
  /\ entry' = 0 /\ entries' = Len(tables)
  /\ UNCHANGED <<firmware, search, users>>

(* The word that is read for an entry ...                                  *)
Source_PACKED(e) == e

Source(e) == IF ACPI_version # 0 THEN 2 * e ELSE e

(* ... and the one its virtual address goes to.                            *)
Target(e) == e

MapEntry ==
  /\ pc = "entries" /\ entry < entries
  /\ words' = [words EXCEPT ![Target(entry)] = Virtual(words[Source(entry)].table)]
  /\ entry' = entry + 1
  /\ UNCHANGED <<firmware, pc, search, entries, users>>

EndEntries ==
  /\ pc = "entries" /\ entry >= entries
  /\ pc' = "apic"
  /\ UNCHANGED <<firmware, search, root, users>>

-----------------------------------------------------------------------------
(* find_by_header: the first table with the signature in the RSDT; the     *)
(* branch for the XSDT is empty in the code.                               *)
Bearing(signature) == {e \in 0 .. entries - 1 : tables[words[e].table + 1] = signature}

FindByHeader_SKIPS_FIRST(signature, e) ==
  IF ACPI_version # 0 \/ Bearing(signature) \ {0} = {} THEN e = Missing
  ELSE e \in Bearing(signature) \ {0} /\ \A f \in Bearing(signature) \ {0} : e <= f

FindByHeader(signature, e) ==
  IF ACPI_version # 0 \/ Bearing(signature) = {} THEN e = Missing
  ELSE e \in Bearing(signature) /\ \A f \in Bearing(signature) : e <= f

Results == {Missing} \cup 0 .. entries - 1

(* init_apic gives up without a MADT.                                      *)
FindMadt ==
  /\ pc = "apic"
  /\ \E e \in Results : FindByHeader("APIC", e) /\ madt' = e
  /\ pc' = IF madt' = Missing THEN "ps2" ELSE "io_apic"
  /\ at' = 1
  /\ UNCHANGED <<firmware, search, root, fadt, io_apic, iso>>

(* find_MADT_entry_by_type: on to the next record ...                      *)
NextRecord_NOT_ADVANCED(type) ==
  /\ at <= Len(records) /\ records[at].type # type
  /\ at' = at
  /\ UNCHANGED <<firmware, pc, search, root, madt, fadt, io_apic, iso>>

NextRecord(type) ==
  /\ at <= Len(records) /\ records[at].type # type
  /\ at' = IF records[at].length = 0 THEN at ELSE at + 1
  /\ UNCHANGED <<firmware, pc, search, root, madt, fadt, io_apic, iso>>

(* ... or done with it.                                                    *)
Found(type, result) ==
  IF at > Len(records) THEN result = 0 ELSE records[at].type = type /\ result = at

FindIoApic ==
  \/ pc = "io_apic" /\ NextRecord(1)
  \/ /\ pc = "io_apic"
     /\ \E i \in 0 .. Len(records) : Found(1, i) /\ io_apic' = i
     /\ pc' = IF io_apic' = 0 THEN "ps2" ELSE "iso"
     /\ at' = 1
     /\ UNCHANGED <<firmware, search, root, madt, fadt, iso>>

(* The interrupt source override is printed without a test for its absence *)
FindIso ==
  \/ pc = "iso" /\ NextRecord(2)
  \/ /\ pc = "iso"
     /\ \E i \in 0 .. Len(records) : Found(2, i) /\ iso' = i
     /\ pc' = IF iso' = 0 THEN "null iso" ELSE "ps2"
     /\ UNCHANGED <<firmware, search, root, madt, fadt, at, io_apic>>

(* A read through a null pointer is served by the page-fault handler.      *)
ReadNull ==
  /\ pc = "null iso" /\ pc' = "ps2"
  /\ UNCHANGED <<firmware, search, root, users>>

(* init_ps2 looks at the FADT unless the revision is 0.                    *)
FindFadt ==
  /\ pc = "ps2"
  /\ \E e \in Results : FindByHeader("FACP", e) /\ fadt' = e
  /\ pc' = IF memory[rsdp].revision # 0 /\ fadt' = Missing THEN "null fadt" ELSE "done"
  /\ UNCHANGED <<firmware, search, root, madt, at, io_apic, iso>>

Next ==
  \/ Probe \/ GiveUp \/ MapRoot \/ MapEntry \/ EndEntries
  \/ FindMadt \/ FindIoApic \/ FindIso \/ ReadNull \/ FindFadt

Spec == Init /\ [][Next]_vars /\ WF_vars(Next)

-----------------------------------------------------------------------------
(* Properties *)

Ready == {"apic", "io_apic", "iso", "null iso", "ps2", "null fadt", "done"}
Over == {"lost", "null fadt", "done"}

Genuine(c) == c # NoRoot /\ IF c.revision = 0 THEN c.sum20 ELSE c.sum36

(* find_RSDP returns the first candidate whose checksum holds, and the     *)
(* global ACPI_version, which every candidate on the way overwrites, is    *)
(* the version of that one: find_RSDT goes by the first, the rest of       *)
(* rsdt.c by the second (rsdt.c:34,113,213).                               *)
RootIsValid ==
  pc \notin {"search", "lost"} =>
    /\ rsdp \in Places /\ Genuine(memory[rsdp])
    /\ \A p \in 0 .. rsdp - 1 : ~Genuine(memory[p])
    /\ ACPI_version = AsBool(memory[rsdp].revision)

(* init_rsdt replaces the entries in place, one word for the two of an     *)
(* XSDT entry: no entry is overwritten before it is read, and in the end   *)
(* entry e points at table e, in both versions.                            *)
EntriesTranslated ==
  pc \in Ready => \A e \in 0 .. Len(tables) - 1 : words[e] = Virtual(e)

(* With ACPI 1.0 find_by_header returns the first table of its name, and   *)
(* NULL only if there is none.                                             *)
IsFirst(signature, e) ==
  IF \A i \in DOMAIN tables : tables[i] # signature THEN e = Missing
  ELSE /\ e + 1 \in DOMAIN tables /\ tables[e + 1] = signature
       /\ \A i \in 1 .. e : tables[i] # signature

TablesFound ==
  pc = "done" /\ ACPI_version = 0 => IsFirst("APIC", madt) /\ IsFirst("FACP", fadt)

(* The search, the mapping loop and the walks over the MADT end.           *)
InitEnds == <>(pc \in Over)
=============================================================================
