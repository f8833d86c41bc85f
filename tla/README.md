# pekOS: models and proofs

pekOS is a small 32-bit x86 kernel: boot code, paging, a VGA text terminal,
interrupts through the local and I/O APIC, ACPI table parsing and a PS/2
keyboard.  This directory models the parts of it that keep state or meet
concurrency, checks them with TLC on small instances, and proves the most
important properties for every instance with TLAPS.

Paths below are relative to `src/kernel/arch/i386/` unless they start with
`src/`.

## 1. Inventory

| component | state | operations | what is hard | what makes it correct |
|---|---|---|---|---|
| boot (`boot.S`) | page directory, table 1, cr0, cr3 | identity and higher-half map, self map, removal of the identity map | instructions and data fetched while the map changes, and translations the processor keeps | every access lands where it was linked; the tables it leaves are those `paging.c` starts from |
| virtual memory (`memory/paging.c`) | page tables, `kernel_PT_index`, bitmap `virtual_mmap`, `cur_virtaddr_idx`, `cur_physaddr` | `init_page_allocation`, `find_free_virtaddr`, `find_free_physaddr`, `allocate_pt`, `map_page`, `get_physaddr` | two allocators that do not know of each other, tables edited through a window on themselves, a pool whose bound is not tested | a page translates to the frame that was asked for, for ever; tables and frames are not shared |
| page fault (`process/exception_handler.c`) | none of its own | `page_fault_handler` | happens at any access, between any two steps of the drivers | as above |
| terminal (`tty.c`) | row, column, video memory, CRT registers | `terminal_write` and what it calls | the keyboard handler prints in the middle of the kernel's printing | stores stay in video memory, every print ends, the cursor follows |
| formatted output (`src/libc/stdio`) | count of characters, digit buffers | `printf`, `putchar`, `puts` | conversions at their limits, the format pointer after `%`, a count that must not overflow | the text of a reference rendering, or failure before the piece that does not fit |
| memory and strings (`src/libc/string`) | none | `memcpy`, `memmove`, `memset`, `memcmp`, `strlen`, `strncmp` | overlapping areas, texts without an end | equal to their definitions |
| interrupts (`process/idt.c`, `exception_caller.S`, `exception_handler.c`) | gates, interrupt flag, the kernel stack | stubs, handlers, EOI | interrupts are on while devices are still being set up; handlers fault, and so does the fault handler | every interrupt acknowledged once it is served, where the APIC is; what is interrupted resumes as it was |
| APIC, I/O APIC (`devices/apic.c`) | base, redirection table, mask bits, timer, EOI | `init_apic`, `apic_start_timer`, `apic_send_eoi` | vectors must match stubs and handlers; three ways to give up | all vectors in use are acknowledged |
| ACPI (`devices/rsdt.c`, end of `apic.c`) | chosen root, `ACPI_version`, translated entries | `init_rsdt`, `find_by_header`, `find_MADT_entry_by_type` | a table of 8-byte entries rewritten in place by 4-byte ones; a global set by rejected candidates | the right root; no entry lost; first table of a name found |
| PS/2 (`devices/ps2.c`) | configuration byte, the driver's view of both devices | `init_ps2`, `read_ps2_data`, `send_*`, `detect_ps2_device`, keyboard handler | polling without timeouts and with nothing that ties an answer to its command | answers stay in step, the boot ends, interrupts end up on, keys are read |
| 8259 PIC (`devices/pic.c`) | offsets, masks, requests and service of two controllers | `init_pic`, masks, EOI | what a byte means depends on the bytes before it; a cascade | silent before `sti`; with drivers, masks and acknowledgements as asked |
| segments (`process/gdt.c`, `gdt_flush.S`, `tss_flush.S`) | descriptors, selectors, task register | `init_gdt`, `write_tss` | tables written after they are in use; fields split over a descriptor | loaded selectors find what they name, then and later |
| serial port (`devices/serial.c`) | UART registers | `init_serial`, `write_serial`, `write_string_serial` | a latch that hides registers, a loop-back test, polling without timeout | the line carries the text; no chip stops the boot |
| `kernel_main` (`src/kernel/kernel/kernel.c`) | none | fixed order of initialisation | `sti` comes before paging, ACPI, APIC and PS/2 are ready | gates ready and PICs silent at `sti`; the start-up ends |

How they meet: `boot.S` hands its tables to `paging.c`; drivers call
`find_free_virtaddr` and `map_page` for every ACPI table and both APICs; any
access of the kernel may enter the page-fault handler, which calls `map_page`
too; all parts print, through `printf`, `putchar` and the terminal; `init_gdt`
and `init_idt` write to the serial port; the keyboard handler runs between any
two instructions once `init_idt` has executed `sti`, prints, reads the PS/2
data port and writes the EOI register; `init_apic` and `init_ps2` look tables
up with `find_by_header`.

## 2. Modules

| module | models | abstraction |
|---|---|---|
| `AddressSpace` | what paging promises: a partial map that only grows | no tables, bitmap, counters |
| `Paging` | `paging.c`, the page-fault handler | an address is a pair of table indices; an entry is a frame or absent (flags are always 3) |
| `PagingDiscipline` | what callers, linker and firmware must provide for the code to be right | assumptions only |
| `Boot` | `boot.S`, then `Paging` | a step is the instructions of which one matters |
| `Screen` | what the terminal promises without interrupts: a ring of cells | no registers |
| `Terminal` | `tty.c` under `putchar`, and a handler that prints | one access to a shared variable, video memory or port is a step, in the order of the `-O2` build |
| `InterruptStubs` | `exception_caller.S` and the entry to and return from handlers | a word is what it is and which; a handler is its use of stack and registers |
| `Handlers` | `Terminal` above, `InterruptStubs` below the handlers | one of the two moves in a behaviour |
| `Printf` | one call of `printf` | a character is a value; a turn of a loop is a step |
| `Strings` | one call of a function of `src/libc/string` on a small memory | a turn of a loop is a step |
| `Console` | `Printf` on `Terminal`, without interrupts; or a call of `Strings` | |
| `Serial`, `Pic`, `Descriptors` | `serial.c`; `pic.c`; `gdt.c`, its assembly and `idt.c` up to `lidt` | a port write or a table entry is a step |
| `Interrupts` | acknowledgements and `init_apic`'s programming, with the local and I/O APIC as environment | handlers reduced to their EOI writes |
| `InterruptsDiscipline` | nothing is wired to pin 15; the APIC is at a multiple of 64 KiB | assumptions only |
| `Kernel` | `kernel_main`: `Serial`, `Pic`, `Descriptors`, then `Interrupts` | |
| `Acpi` | `rsdt.c`, the MADT walk, the lookups of `init_apic` and `init_ps2` | a table is its signature; a checksum is whether it holds; a search place is 16 bytes |
| `PS2` | `ps2.c` and the keyboard handler, with the 8042 and its devices as environment | a byte is the set of its bits |
| `PS2Discipline` | keyboard only, two channels, quick controller, no early key | assumptions only |
| `PagingProofs`, `BootProofs`, `HandlersProofs`, `ConsoleProofs`, `PicProofs`, `KernelProofs`, `AcpiProofs`, `PS2Proofs` | the theorems; `PicProofs` has the lemmas about `Pic` that `KernelProofs` uses | |
| `MC...` | small instances | |

Names follow the source.  A definition whose name ends in capitals after an
underscore (`AllocatePT_FROM_ONE`) is a faulty variant of the definition that
follows it; nothing uses these, they document which slip each property
notices.

### Correspondence

*Boot.*  `at` is the next instruction that matters; `memory` is what the
instructions write, `tables` what `Paging` starts from, and `HandsOver` says
that they agree.  The processor may keep the translation of any page of
`Watched` at any time after paging is on (`KeepTranslation`) and may use
either a kept translation or the tables; loading cr3 drops the kept ones.
`Accesses` lists the pages each step needs: its own instruction, what it reads
and writes, the stack.

*Paging.*  `tables` is the content of the kernel's own frames read as page
tables; `Walk` is `get_physaddr` and the MMU at once.  `MapPage` is the whole
of `map_page`, `LinkTable` and `IndexAfterLink` being its first half with
`allocate_pt` and the clearing loop, `SetEntry` its second half with the early
return.  `MapFresh` is what a driver does for a frame (`find_free_virtaddr`,
`map_page`); these run on one processor, so a page fault happens before or
after, never inside: neither function touches an unmapped page.
`FaultOnData` and `FaultOnWindow` are the two mapping branches of
`page_fault_handler`.  `granted` is a history variable.  `IndexOnPool` says
whether the linker put `kernel_PT_index` into the first page of `kernel_PTs`.
`FirmwareFrames` are what drivers ask to be mapped: they may be anywhere but
in the page tables, and several pages may be given the same one, as `init_rsdt`
does for tables of one physical page.  `DemandFrames` are the frames that
`find_free_physaddr` may come to return.

*Terminal.*  `pc`, `r`, `c`, `at` are the position and the registers of the
kernel ("main") and of the handler ("irq").  `terminal_row` and
`terminal_column` are ordinary variables, so the compiler keeps them in
registers within `terminal_putchar`; the model has the loads and stores of
that build.  Interrupt gates clear the interrupt flag: a handler runs to its
end, as `Runs` says.

*InterruptStubs.*  `Stub(v)` is the text of `isr_stub_v`; `stack` grows at its
front, and `32(%esp)` is its ninth word.  The C function of a stub is its
calling convention: it saves the four registers it must, overwrites all, and
gives the four back.  Page faults are taken inside any function that returns,
`page_fault_handler` included; this is more than the code can do, as `map_page`
links a table before it touches it (`memory/paging.c:141-156`) and what else
`page_fault_handler` uses is mapped.  The stubs of the other exceptions neither save
registers nor drop an error code; they are in the model with the function that
halts, so their `iret` is never reached.

*Console.*  `printf` hands `todo` to `putchar` a character at a time and waits
for the terminal.  `request` carries, with the format and its arguments, the
text it stands for; `tested` is false for formats with a piece whose length
`printf` never compares with what is left of the count.  What the text must be
is `RequestsAssumption` of `Printf`: a call is empty, or its text is that of
the first piece of the format (`PlainText`, `Converted`, `AsItStands`)
followed by the text of what is left, which is a call of `Requests` too.
Numbers are written by position (`Numeral`); the texts of `MCConsole` come from
a recursive rendering of its own, so each run compares the two.  `Strings` has
the address of each byte read and written, and `before`, the memory at the
call.

*Serial, Pic, Descriptors.*  The UART has a single holding byte, as without
its FIFO; with it the driver only has more room.  The four kinds of chip are
what the loop-back test can meet.  `drivers` chooses between the kernel, which
uses nothing of `pic.c` after `init_pic`, and drivers that use its masks and
the handlers of vectors 32 to 47.  That of vector 33 ends with an EOI to the
local APIC too (`DriverStep` of `Kernel`), which has nothing in service then.
Descriptors are records of the bit fields
of `gdt.h` and `idt.h`, whose sizes are constants so that small addresses
already have several parts.

*Interrupts, Kernel.*  `stage` is the progress of `kernel_main` and
`init_apic`, `ProgramPin` one turn of the loop over the redirection table.
`Deliver` is the local APIC's priority rule followed by the gate;
`Acknowledgements` counts the EOI writes on the path from the stub of a vector
to its `iret`.  The poll of the keyboard handler (`exception_handler.c:48`), which
has no timeout, is in `PS2`; here it is taken to end.  `NoApic` and `NoIoApic` are the early returns.  `EnableApic`
writes the base back with the mask the code has, so the APIC may move.
`Kernel` runs the drivers' steps in the order of `kernel_main`; a serial text
is written to its end before its caller goes on.

*Acpi.*  `Probe` is a turn of either loop of `find_RSDP`; `MapEntry` is a turn
of either loop of `init_rsdt`; `NextRecord` and `Found` are
`find_MADT_entry_by_type`.  Reads through a null pointer do not stop this
kernel: the page-fault handler supplies a frame.  The model names those points
("lost", "null fadt", "null iso") and stops at the first two, where nothing
more is known.

*PS2.*  Each line of `Configure`, `TestPorts`, `ResetDevices`, `DetectDevice`
and `EnableInterrupts` is one write or one polled read of `init_ps2`, in source
order.  `Outb` is the bare `outb`, `SendCommand` and `SendData` wait for the
input buffer first.  The controller's reaction is an action of its own, and a
device's bytes reach the output buffer in any order between devices.  An
interrupt request is taken before the next step of `init_ps2`.

## 3. Runs

| run | instance | shows |
|---|---|---|
| `paging` | from the first instruction of `boot.S`; 8-entry tables, words of 4 bits, pool of 3 tables, 2 frames for drivers, 3 requests, 5 pages that may be touched, 2 whose translation is kept | every access of `boot.S` lands and its tables are handed over; safety of paging, stability of translations, refinement of `AddressSpace` |
| `paging_overrun` | as `paging`, with 1 touchable page and reads that go on from a granted page into the one behind it | `MappedAsAsked` fails: an ACPI table that goes on past its page makes the next request lose its mapping |
| `paging_index` | unaligned `kernel_PTs` | `TablesNotShared` fails: `kernel_PT_index` is cleared with the table |
| `terminal` | 3x2 screen, 8 cells in the page, 4 characters, 2 key interrupts; for the stubs, vectors 33, 48, 50, 51, 14, 0 and 13, three deep | safety and progress under every interleaving; stubs call handlers in order and resume what was interrupted |
| `terminal_alone` | same screen, no interrupt; every text of up to 7 letters and newlines and every pair of pieces of a format; every call of the functions of `string.h` on 4 bytes of 3 values | rendering, counts and failures of `printf`; digits fit; refinement of `Screen`; `src/libc/string` |
| `interrupts` | 4 kinds of serial chip, 2 pairs of masks left by the firmware, with and without drivers on lines 1 and 9; 3 gates; pins 1, 2, 14; 4 events | selectors and gates usable, PICs silent, serial line, order of initialisation, acknowledgement, progress to the end of the start-up |
| `interrupts_pin15` | pins 1, 15 | `NothingLeftInService` fails: vector 64 is not acknowledged |
| `acpi` | 2 + 1 search places, 4 kinds of candidate, 4 root tables, 4 MADTs: all combinations | root selection, in-place translation, lookups, termination |
| `ps2` | keyboard, port tests may fail, stale bytes of the firmware, 2 keys | answers in step, no poll in vain, configuration, identification, progress |
| `ps2_mouse` | a mouse on port 2 | `InterruptsEnabled` fails: its third reset byte shifts all answers and ends up in the configuration |
| `ps2_early_key` | a key pressed during `init_ps2` | `InterruptsEnabled` fails: the scan code is taken for the configuration byte |
| `ps2_single_channel` | no second port | `InitEnds` fails: the test of port 2 is never answered |

### Bounds

*Paging*: the image leaves one free page in its table, so the second request
crosses into a directory entry without a table, and the third follows it in
that table; two touchable pages share a table, one has its own, and two
window pages link tables early, so tables are made on every path and the pool
is used to its last element.  Of the two frames that drivers ask for, one is
inside the image but holds no table, like a table of the BIOS, and one is the
first that page faults do not get to; with three requests one of them is mapped
twice.  More pages of a kind repeat these.  The kept
translations are that of the page `boot.S` runs from and that of a page which
is mapped differently later.  The loop of `boot.S` that ends because `ecx`
reaches 0 needs an image of 1023 pages; only the proofs cover it.
*Terminal*: three columns and two rows are the least with a first, a middle
and a last column and a wrap to the top; four characters fill a row and one
cell, and a newline anywhere is a character of its own; two interrupts let
one disturb what the other left.  CRT registers hold 3 values, so that both
bytes matter.
*Stubs*: the deepest nesting the kernel has is an interrupt's handler and its
page fault; the third level is one more than it reaches.  Two addresses and
two error codes tell the faults apart.
*Console*: words of 8 bits put the limits of every conversion (0, the least
number, the greatest, the first with another digit) into reach; a count of at
most 7 makes most pairs too long, at either piece.  Four bytes and lengths up
to 3 give every overlap of two areas.
*Interrupts*: the keyboard (class 3), the cascade and a pin at the end (vector
63); with the timer in the class of the keyboard, four events suffice for
requests to pile up behind a handler.  One legacy line on each controller; the
masks left by the firmware are all open and a mixture.  Gates repeat, three
are a first, a middle and a last one.
*Acpi*: an XSDT of three entries has words read after their neighbours were
written; a bad candidate of either version precedes a good one of the other.
*PS2*: the driver is sequential; two keys meet in the device's buffer.

`CHECK_DEADLOCK FALSE` is given in every configuration: after initialisation
the kernel loops in `while (1)`, `exception_handler` halts, and the bounds on
events, keys, characters, requests and depth are used up.

### Fairness

`Handlers` (run `terminal`): weak fairness of the kernel's and of the
handler's steps of the terminal; a processor executes instructions unless an
interrupt is being handled, and interrupts are finitely many in a run.
`Kernel` (run `interrupts`): weak fairness of `kernel_main`, which nothing
stops but handlers; of delivery (the local APIC delivers what it can when the
interrupt flag allows); of handlers, whose polls are taken to end (that of the
keyboard handler is checked in `ps2`); and of the serial chip, which sends what
it holds.  None of devices, ticks, edges or drivers.  `PS2`: weak fairness of
`init_ps2`, of handlers and of the controller; none of the user.  `Acpi`:
sequential code that executes.  The other runs have safety properties only.

## 4. Proofs

All theorems hold for every value of the constants that satisfies the named
assumptions; nothing is assumed besides these.

*`PagingProofs`* (assumptions `PagingAssumption`, `TouchDiscipline`,
`TableBudget`, `FrameBudget`, `PoolAligned`): `TypeCorrect`,
`RequestsHonoured`, `TablesPrivate`, `PoolStaysKept`, `TranslationsStable`; and,
with `FirmwareOutOfReach` besides, `FramesStayPrivate` and `Implementation`.
The code never compares `cur_physaddr` with a frame that a driver mapped:
`FirmwareOutOfReach` says that page faults do not get as far as one.  It is
what makes a frame from `find_free_physaddr` private, and fresh as
`AddressSpace` asks; bitmap, tables and requests do not depend on it.  None of the invariants is inductive
alone: that a fresh table is not already in use needs that the tables linked
so far are exactly the first `kernel_PT_index` of the pool, hence that the
pool is large enough, hence a count of the directory entries linked against
`Reach`; that a frame from `find_free_physaddr` is new needs that all demand
frames in use lie below `cur_physaddr`, and that it does not wrap needs a
count of the pages backed; that a page `find_free_virtaddr` returns is
unmapped needs that pages at and after the cursor are mapped only if their bit
is set, which is where `TouchDiscipline` enters.  `CoreInv` is the conjunction of
these but for the frames, proved one action at a time, and `IInv` adds what is
known of the frames (`FramesInv`).  `Implementation` is the step simulation
of `AddressSpace` under the translation that `Walk` computes.

*`BootProofs`* (those and `BootAssumption`): `BootAccessesLand`,
`NothingStaysStale`, `TablesHandedOver`, `StartsPaging`, `BootedPaging`.  `BootInv` says for
each place of `boot.S` which entries have been written, and that each kept
translation agrees either with the present tables or with the identity map
that is about to go.  `StartsPaging` says that the started kernel runs `Paging`,
and `BootedPaging` draws the conclusion: the safety properties, the stability
of translations and the refinement, of the composition, the private frames and the refinement
again with `FirmwareOutOfReach`.

*`HandlersProofs`* (`TerminalAssumption`, `StubsAssumption`), of the terminal
and the stubs together.
`StoresStayInVideo`: the row is visible as `Height` only while the kernel is
about to reset it, at which moment the column is 0; a handler that catches it
there prints at most one character outside the screen, into the cell that
follows it in the page, and its line ends with a newline, so when it is over
row and column are in range again.  The kernel's own copies were taken in
range.
`CursorAlwaysFollows`, `CursorLeftRight`: `CursorInv` adds what each context
has computed and written of the position at each of the four port writes
(`Tracked`).  The handler is never interrupted, so `Tracked` holds of it
always, and of the kernel unless `disturbed` says that a handler came in
between; that a position fits two bytes is where the row past the end has to
have column 0.
`ArgumentsInPlace`, `InterruptedResumes`: neither follows from the top of the
stack alone.  `StubsInv` says of the code that runs, and of every code that
is interrupted, at any depth, that it is in a stub and the stack is exactly
what the interruption pushed and the stub added up to there (`StackAt`), or in
a C function called from it with at most the four words of its prologue on top;
an `iret` pops one level and the next one is in place again.  The direction
flag and the address of the fault matter only for the code on top (`Fresh`).
`PrintsComeNearer`: the loop that blanks the rest of a line stops at a column
that a handler may change under it.  `StepsLeft` is the rank of the place in
`terminal_putchar` plus eight for each blank that is left, counted from the
shared column or from the register copy, whichever the next step reads.  Each
step of a context lowers its own, and a handler, which leaves the column in
range, cannot lift the kernel's above `MostSteps`.

*`PicProofs`, `KernelProofs`* (`InterruptsAssumption`, `QuietPin`,
`AlignedBase`, `SerialAssumption`, `PicAssumption`, `DescriptorsAssumption`).
Of `Interrupts` alone: `TypeCorrect`, `AllAcknowledged`, `AcknowledgedAtApic`,
`CascadeStaysSilent` (pin 2 is masked, and its vector never requested, in
service or handled).  Unmasked pins carry their own vector; handlers do not
nest, so at most the running vector is in service and it stays so only while an
EOI is owed; no request is possible before the timer is started, by which time
the page of the APIC has been mapped and the base written back.  Of the whole
start-up: `KernelAcknowledges` carries the first of these to it;
`LineAlwaysCarriesText` and `ChipAlwaysConfigured` need what is in each
register after each access of `init_serial`; `SelectorsStayUsable` and
`GatesAlwaysReady` need which entries are complete at each stage, since tables
are written while they are in use, and that the parts of an address put
together are the address.  `KernelRunsInterrupts` says that each step of the
start-up is one of `Interrupts` or none (the EOI of vector 33 because drivers of
legacy lines run while nothing is in service, `DriversAlone`), and `KernelReachesApic` is
`AcknowledgedAtApic` of the whole; `EveryStepStartsUp` counts what is left of
each of the four drivers (`SerialLeft`, `PicLeft`, `DescriptorsLeft`,
`ApicLeft`, the accesses, writes, entries and pins still to come) and shows
that steps of `kernel_main` and of the chip lower the sum, and that nothing
which may come in between raises it.  `LegacyStaysOut` and `DriversAreServed` need
`PicInv`: which of its four words each controller waits for after each write of
`init_pic` (`Sequence`), that the mask bytes, bit by bit, are what the drivers
asked for (`Masks`), and that what is in service is the line of the handler
that runs, on the second controller together with the cascade (`Service`).
Setting and clearing a bit of a byte is arithmetic here, so these rest on
lemmas about the eight bits of a byte.

*`AcpiProofs`* (`AcpiAssumption`, `RecordsAdvance`): `RootValid`, `EntriesAreTranslated`,
`TablesAreFound`, `EveryStepAdvances`.  The loop invariant says that the entries before `entry` are
done and that the words the rest will be read from are untouched: the word
written for an entry never lies behind the one it was read from.  Each loop has
a counter that the code advances at every turn; `WorkLeft` adds what is left of
all of them, so that no walk is endless.  The walk over the MADT adds a length
that the firmware wrote: `RecordsAdvance`, that none is 0, is used here only.

*`PS2Proofs`* (`KeyboardOnly`, `QuickController`, `PatientUser`, the discipline
of `PS2Discipline`): `AnswersStayInStep`, `BothInterruptsOn`, `KeyboardFound`,
`PollsAreAnswered`, `EveryStepCounts`.
The run `ps2` has the same discipline, and each run `ps2_*` shows what happens
without a part of it.  The properties only speak of the moment of a read and of
the end; `PS2Inv` says for each of the labels of `init_ps2` which byte is on its
way to which register, or which bytes are owed, by whom, in which order and in
answer to which write (`Situation`, over `Owes`, `Wrote`, `Asked`), that nobody
else owes anything, and how far ports and interrupts are enabled (`Masks`).
Each write of the driver makes the next debt, each answer pays it off.
`PollsAreAnswered` (`NothingWaitsInVain`) adds to this that a debt is owed by a
device whose port is open to it (`Open`), and that after `init_ps2` a byte in
the output buffer always has an interrupt that is requested or running
(`Aftermath`): the handler reads one byte for each.  `EveryStepCounts` adds up
the steps left in `init_ps2`, the bytes on their way and the handlers they will
cause; each of these steps takes more from the sum than it adds, and only a
key adds to it.

*`ConsoleProofs`* (`StringsAssumption`, `PrintfAssumption`,
`RequestsAssumption`, `TerminalAssumption`).
`LibraryStaysCorrect`: the invariant says which bytes have been copied and that
those still to be read are as they were at the call, which is where the
direction of `memmove` enters; of the comparing loops, that the bytes before
`i` are equal and none of them ends the text.
`DigitsAlwaysFit`: what is left of the number is below base to the power of
the buffer's free places.  That a 32-bit number has at most ten decimal and
eight hexadecimal digits is computed from the powers themselves.
`EveryCallRenders`, `TooLongFails`: `PrintInv` says that the characters put,
those in hand and the text of what is left of the call are the text of the
call, and that `written` counts the first two as long as the text can be
counted or is tested piece by piece.  `TooLongFails` is about calls whose pieces
are all tested: what 0, the least number and the prefix of `%x` do to `written`
at its limit is not said.  While digits are extracted, those there
are are the low digits of the number and `num` is the number divided by their
power (`DigitsOf`), so that reversed they are its `Numeral`; that they are no
fewer needs that the last division did not give 0.  The text has no recursive
definition in this: a call is what is left of its predecessor.
`PrintsOnScreen`: `Screen` sees the cells as they are, and a position and a
line that run ahead of the variables while the kernel is between a store and
the last of its updates (`Visible`, `Position`, `Line` of `Terminal`).
`ScreenInv` says which copy is fresh at each step, and that nothing but the
kernel's own context prints.  The store of a cell is the step of `Screen`, the
others are steps of none.  `putchar` is given a `char`, so `PutcharStep` has the
characters of `Chars` and the newline.
`EveryLoopEnds`: what `printf` has left falls in lexicographic order, the format
before the phase of a piece (`Phase`) before what is left of the number or of
the characters to put; of a function of `src/libc/string` the turns that are
left (`TurnsLeft`), which for `strlen` is a natural number because the text it
was given ends inside the memory.

So every safety property that a run checks is proved.  Model-checked only is
liveness (`PrintsEnd`, `Served`, `StartsUp`, both `InitEnds`, `KeysRead`), whose
proof needs fairness and ENABLED.  The part of it that is safety is proved: the
measures of `PrintsComeNearer`, `EveryStepStartsUp`, `EveryStepAdvances`,
`EveryStepCounts` and `EveryLoopEnds` say that there is no endless run of steps, and
`PollsAreAnswered` that `init_ps2` is never at a poll nobody will answer.  What
is left to TLC is that a step is possible as long as the end has not been
reached, and that fairness then takes it.  Proved only, and repeated by no run:
`TypeOK` of `Paging` and of `Interrupts`, and `CascadeSilent` of `Interrupts`.

## 5. Disagreements between code and text

* `kernel_PTs` is not page aligned (`memory/paging.c:12`): run `paging_index`.
* ACPI tables are mapped by one page only (`devices/rsdt.c:92`): run
  `paging_overrun`.
* Vector 64 is not acknowledged (`process/exception_handler.c:21`): run
  `interrupts_pin15`.
* Three of `init_ps2`, see the runs `ps2_*`.

Without a run of their own:

* `devices/apic.c:192` promises to "set the physical address for local APIC
  registers" and line 220 to enable the APIC, but the mask `0xfffff0000` in
  line 195 clears bits 12 to 15 of the base: an APIC that is not at a multiple
  of 64 KiB is moved from under the page that `init_apic` has just mapped.
  `AlignedBase` rules it out; the reset value 0xFEE00000 satisfies it.
* `init_serial` reads back the byte it sent in loop-back without waiting for
  it (`devices/serial.c:25`), so that a healthy chip that takes the time of a
  byte is left in loop-back, although line 29 says "If serial is not faulty
  set it in normal operation mode"; `kernel_main` ignores the result.  The kind
  "slow" of `Serial`; `ChipConfigured` asks for normal operation of a chip that
  answers in time, rules it out for one that is faulty or absent, and leaves
  this one's mode open.
* `find_free_physaddr` counts up from 256 MiB (`memory/paging.c:18,194`) whatever
  is there.  The APICs are 3.7 GiB up, but on a machine whose memory ends a
  little above 256 MiB, the frames it returns may be those of ACPI tables.
  `FirmwareOutOfReach` rules it out.
* `printf` compares every piece with what is left of `INT_MAX` but for 0, the
  least number and the prefix of `%x` (`src/libc/stdio/printf.c:85,136,187`).
* `exception_caller.S:43` asks "is this correct?" of dropping the error code
  after `popal`: it is, run `terminal`, `Resumes`.  The stubs of the other
  exceptions do not drop theirs and do not clear the direction flag, which
  matters only as long as `exception_handler` never returns.
* `detect_ps2_device` directs only its first command to port 2
  (`devices/ps2.c:194`); the identify command (`:200`) goes to port 1, whose answer
  is printed as that of port 2.  `PS2` does the same, and `KeyboardIdentified`
  speaks of port 1 only.
* The limit of the task state is its size (`process/gdt.c:21`), one more than
  the offset of its last byte; `flush_gdt` overwrites `bx`, which belongs to
  its caller.
* The comment at `memory/paging.c:13` says that tables are handed out from
  index 1, they are from 0; `devices/rsdt.c:123` says that 1 KiB of the EBDA
  is searched, 4 KiB are; the configuration byte is written without waiting
  for the input buffer (`devices/ps2.c:50,65,150`), which `PS2` shows to
  matter when `Prompt` is FALSE.

## 6. Not modelled

* The colour, scrolling and cursor functions of `tty.c`, `set_kernel_stack`,
  `read_serial`, `pic_get_irr` and `pic_get_isr`, `get_pe_value`,
  `do_checksum_ACPISDT`, `find_entry_in_RSDT`, `test_exception_handler`, all of
  `memory/memory_access.c` but `read_word_at_address`, `abort` and
  `memory_management.c`: nothing calls them.
* `src/kernel/include/kernel/multiboot.h` and `cpuid.h`: declarations; the
  kernel does not look at what the boot loader passes, in particular not at
  the memory map, so frames from 256 MiB on are taken to exist.
* What is printed about tables and registers, and register addresses.
* Build scripts and linker script, but for the alignment they give.

## 7. Plan

Done: all components but the parts above, and a proof of every safety property.
What would add most from here:

1. Step simulations between the models that now share actions by hand: `MapFresh`
   of `Paging` by the driver steps of `Acpi` and `Interrupts`.
2. The discipline of `PS2` weakened to what the proofs use: `QuickController`
   only for the three bare writes of the configuration byte.
