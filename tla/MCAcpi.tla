------------------------------- MODULE MCAcpi -------------------------------
(* Two places in the EBDA and one in the ROM; damaged and good candidates  *)
(* of both versions; up to three tables, with one listed twice; MADTs with *)
(* and without the two records that init_apic looks for.                   *)
EXTENDS Acpi

MCRoots == {[revision |-> 0, sum20 |-> TRUE, sum36 |-> FALSE],
            [revision |-> 0, sum20 |-> FALSE, sum36 |-> FALSE],
            [revision |-> 2, sum20 |-> TRUE, sum36 |-> TRUE],
            [revision |-> 2, sum20 |-> TRUE, sum36 |-> FALSE]}
MCNoRoot == [revision |-> 1, sum20 |-> FALSE, sum36 |-> FALSE]
MCRootTables == {<<>>, <<"FACP", "APIC", "HPET">>, <<"APIC", "FACP", "APIC">>, <<"HPET", "FACP">>}
LocalApic == [type |-> 0, length |-> 8]
IoApic == [type |-> 1, length |-> 12]
Override == [type |-> 2, length |-> 10]
MCMadts == {<<LocalApic, IoApic, Override>>, <<LocalApic, Override, IoApic, Override>>,
            <<LocalApic, LocalApic>>, <<IoApic>>}
=============================================================================
