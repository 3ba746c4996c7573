# wwt, a boot loader and a kernel: TLA+ models, checks and proofs

wwt is a small operating system for 64-bit PCs. A UEFI program (`boot/`) loads `\kernel.elf` and a
font, leaves the firmware's boot services and jumps into the kernel (`kernel/`), which sets up its
segments, a page frame allocator, page tables and interrupts, prints a few lines and halts. There
are no tests and hardly a comment; what the code does is read from the code. All of it is the build
without `DEBUG`, which no makefile defines.

## 1. The system

| Component | State | Operations | Interacts with |
|---|---|---|---|
| Boot loader: `boot/src/main.c`, `graphics.c`, `memory.c`, `font.c` | graphics handles and protocol, memory map with its key, `bootInfo` | `efi_main` and the services it calls, one after the other | firmware services, each of which may fail; the memory map changes beneath it |
| Kernel image loader: `boot/src/loader.c`, `elf.c`, `file.c` | the open file, pool buffers, pages at the segments' addresses | `loadKernelImage`, `readELFIdentity`, `readELFFile`, `loadProgramSegments`, `loadSegment` | file protocol and allocator of the firmware; called by `efi_main` |
| Boot messages: `boot/src/boot.c`, `serial.c`, `error.c` | the serial protocol | `debugPrint`, `printToSerialOut`, `checkForError` | called by everything in `boot/`, and by each other |
| Kernel start: `kernel/src/kernel.c` | `PML4`, CR3 | `kernel_main` | calls every component below |
| Page frame allocator: `kernel/src/pageFrame.c`, `bitmap.c`, `memory.c` | `pageBitmap`, `pageBitmapIndex`, `FREE_MEMORY`, `RESERVED_MEMORY`, `USED_MEMORY`, the memory map | `initializePageFrame`, `reservePages`, `unreservePages`, `lockPages`, `freePages`, `requestPage` | gives frames to the page tables |
| Page tables: `kernel/src/pageTable.c` | the tables, `pageTable` | `initializePageTable`, `mapMemory` | takes frames from the allocator; read by the processor |
| Interrupts: `kernel/src/interrupts.c` | `idt`, the two interrupt controllers, the interrupt flag | `initializeInterrupts`, `initializePIC`, `picEnd`, twenty handlers | devices; handlers interrupt `kernel_main` and print |
| Console: `kernel/src/graphics.c`, `font.c` | `font.cursorPosition`, the frame buffer | `print`, `putChar`, `put`, `next`, `clear`, `debugPrint` | called by `kernel_main` and by the handlers |
| Formatting: `kernel/src/string.c` | the 64-byte buffer of `debugPrint` | `vsprint`, `itoa`, `uitoa`, `gcvt`, `strcat` ... | called by `debugPrint` |
| Firmware library: `gnu-efi/lib/print.c`, `error.c` | the buffer of a message and its cursor | `Print`, `VPrint`, `VSPrint`, all of them `_Print`; `StatusToString` | called by `debugPrint` of the loader |
| Descriptor tables: `kernel/src/gdt.c`, `gdt.S` | `gdt`, `tss` | `initializeGDT` | the processor |
| UART: `kernel/src/uart.c`, `io.c` | the device | `uartInitialize`, `uartPutChar`, `uartPuts`, `uartGetChar` | the device at the other end of the line |

`libc/` has headers only, `kernel/src/math.c` is empty, `gnu-efi/` is a vendored library through
which the loader reaches the firmware and formats its messages.

**What is hard in it.** The kernel has one thread, so the interleavings are those of `kernel_main`
with interrupt handlers and devices, and of `efi_main` with a firmware that allocates memory on its
own. Almost every call of the loader may fail, at any depth. The allocator keeps the same fact in
three places (the bitmap, a hint, three counters) and is called in any order; its limits (the last
bit, the last frame, the null pointer that is also frame 0) are where the code is careless. Nothing
is persistent and there is no network, so there are no restarts and no message losses but those of
the serial line, whose device may fail, take part of a text, or still be busy with the firmware's. `PROJECT.json`
lists each hazard at its line, with the properties that would catch it going wrong. Where a property
allows an outcome or assumes it away, because the code has no promise to the contrary (a timer tick that
stops everything, a bitmap without room, a segment larger in the file than in memory), the hazard's note
says so instead.

**What makes each part correct.** *Allocator:* a frame handed out was free and is taken afterwards;
no free frame is overlooked; counters agree with the bitmap; nothing outside the bitmap is written.
*Page tables:* one call maps one page and no other; no table shares its frame with anything.
*Kernel start:* the identity map is complete when CR3 is loaded, its tables lie in free memory, and
the statistics are right. *Interrupts:* the controllers end up programmed, each line reaches its
own handler, nothing stays unacknowledged, and the idle loop is reached unless a handler keeps the
processor. *Loader:* success means a faithful image, no leak and no swallowed error; an error means
a cause. *Boot loader:* the kernel is entered with a current memory map, in the wanted video mode;
returning has a cause. *Boot
messages:* no message vanishes and every call ends, whatever the serial device does. *Console:* texts
are typed in order and, unless an interrupt tears a character, over nothing; the frame buffer is left through its end only. *Formatting:*
the text is what the format means, and stays in its buffer. *Descriptors, bitmap:* a field or a bit
changes only itself. *UART:* what is put arrives once, in order, at the right speed. *The two
programs together:* nothing the loader or the firmware still needs is written over by the kernel.

## 2. Modules

The modules with `MC` only give values to constants. Operators named like a definition with
something appended, and commented `Variant:`, are plausible mistakes that the properties
must tell from the code; no specification uses them.

| Module | Models | Abstracted |
|---|---|---|
| `PageFrameOps` | `pageFrame.c`, `bitmap.c` and `getMemorySize`, as functions from one allocator state to the next | addresses are divided by 4096; the bitmap is the set of its 1 bits, with index `8 * size`, the first bit behind the buffer, as a possible member, because both functions of `bitmap.c` let it through; a loop over pages is one step on a set of frames, since the body touches only its own bit |
| `PageFrame` | the allocator as a state machine: initialisation, then any call with any argument | callers are arbitrary; one call is one step, as no handler calls the allocator |
| `FrameAllocator` | the abstract specification: a set of available frames and the answer to the last request | which frame is granted |
| `MemoryProofs`, `PageFrameProofs` | lemmas about `PageFrameOps` and `PageTableOps`; theorems about `PageFrame` and `Handoff` | |
| `PageTableOps` | `mapMemory` over the contents of memory, on top of `PageFrameOps`, and the processor's walk | of an entry: address, Present, ReadWrite |
| `PageTable` | `mapMemory` interleaved with kernel code that takes, fills and frees frames; composes tables and allocator | the other users write one kind of junk |
| `AddressSpace` | the abstract specification: a function from pages to frames, one entry changed per call, until memory runs out; the call in which it does spares the pages that are mapped | the tables |
| `PageTableProofs` | theorems about `PageTable` | |
| `KernelBoot` | `kernel_main` from `initializeMemory` to the load of CR3, on whole machines (memory map, kernel, stack, frame buffer); composes the same two components in the order of the source | printing |
| `KernelBootProofs` | theorems about `KernelBoot` | |
| `Interrupts` | `kernel_main` from the load of the new segments: `initializeInterrupts`, `initializePIC` write by write, the rest of `kernel_main`, the handlers, both controllers and the devices, and the firmware's table before `lidt` | the message of a handler is one step; the eighteen exception handlers differ in their text and are one |
| `InterruptsProofs` | theorems about `Interrupts` | |
| `Console` | `print`, `putChar`, `put` and `next`, one step per access to the cursor, called by `kernel_main` and by handlers that interrupt it and each other | the screen is a grid of 8 by 16 pixel cells; texts are short and are not formatted; a handler is what it prints and whether it returns |
| `Typewriter` | the abstract specification: characters side by side, lines one after the other | what is printed, and by whom |
| `ConsoleProofs` | theorems about `Console` | |
| `Loader` | `loadKernelImage` down to every firmware call, memory byte by byte | 32- and 64-bit headers have the same fields; headers are read whole |
| `LoaderProofs` | theorems about `Loader`, and about `KernelFormat` and `FirmwareText`, which share the lemmas about sequences and digits | |
| `Boot` | `efi_main` down to every firmware call except those of `Loader`, which is one step | sizes of the memory map in descriptors; printing has no effect |
| `Handoff` | memory from the loader's allocations over the memory map to the kernel's allocator; composes `efi_main`, `getMemoryMap` and `PageFrame`, with a firmware that allocates in between | pool buffers take a frame or share one; a descriptor for each run of frames |
| `SerialDebug` | `initSerialService`, `debugPrint`, `printToSerialOut`, `checkForError`, call by call, which call each other when the device fails | a text is the call it is from, its kind and the status it shows |
| `Bitmap` | `getBitmap` and `setBitmap` on the bytes of memory, after `initializeBitmap` | a byte is the set of its 1 bits |
| `BitSet` | the abstract specification: a set of numbers, and everything else in memory | bytes |
| `Descriptors` | setters and getters of page table entries, gates and the computed segment descriptor, bit by bit | a word is the set of its 1 bits |
| `FieldRecord` | the abstract specification: a record whose fields are assigned and read | where the fields lie |
| `KernelFormat` | `debugPrint` and `vsprint` item by item, with every conversion, on the buffer | a double is a whole number and 64ths; characters have a class and a number |
| `FirmwareText` | `_Print` character by character, its buffer, the console and the bounded string it flushes to | an argument is a word or a sequence of characters; without `%f`, `%t`, `%g`, `%D`, which the loader does not use |
| `Numerals` | powers, for the place values that the properties of the last two speak of | |
| `Uart` | `uartInitialize` write by write, `uartPuts`, `uartPutChar`, `uartGetChar`, and a 16550 | the other registers of the device |
| `Units` | `Bitmap`, `Descriptors`, `KernelFormat`, `FirmwareText` and `Uart` next to each other, one of them running | they share no state, so nothing |
| `UnitsProofs` | theorems about `Boot`, `SerialDebug`, `Bitmap`, `Descriptors` and `Uart` | |

### How states and actions correspond to the code

`pf` in the allocator's modules is a record of the globals of `pageFrame.c`: `size` and `base` are
`pageBitmap.size` and `.bits` (as a frame), `bits` the 1 bits, `free`, `reserved`, `used` the three
counters in pages modulo `Word`, `next` is `pageBitmapIndex`. The actions of `PageFrame` have the
names of the functions, in capitals. `stray` is what uninitialised memory behind the bitmap holds.

`ram` in `PageTable` and `KernelBoot` is memory read as page tables: frame, then slot. `exhausted`
and `refused` record that `requestPage` returned NULL at some point, which the code does not notice.

`stack` in `Console` holds the calls of `print` under way, each with the text, its place in it, the
memory access it makes next (`at`) and what it has read (`x`, `y`). The build is `-O2` and the
cursor is neither volatile nor guarded, so an addition may be a load and a store, and the test after
it may look at the register or at memory: both are allowed. The place that `putChar` passes to `put`
takes two loads, `ReadX` and `ReadY`, in either order, because C does not say which argument is
evaluated first. `torn` is set when an interrupt comes in the middle of a character; `parted` collects
the characters for which one came between those two loads.

`pc` in `KernelBoot`, `Loader` and `Boot` is the next statement or firmware call. In `Loader`
and `Boot` each call has an action for its success and the code's reaction to its failure;
`failed` records that a service failed. `ph` in `Loader` is the `p` of `loadProgramSegments`. `pools`, `live` and `allocated` are what has been allocated.

`memory` in `Handoff` is the type of every frame as the firmware knows it, `map` the snapshot of it
that the kernel gets and `mapKey` the key that came with it. `ReadMap`, `MakeBitmap`, `LockKernel` and
`TakePage` are calls by `kernel_main` of the actions of `PageFrame`, with its `pf` and `memoryMapInfo`.
`FirmwareChangesMap` may come between any two of the loader's calls.

`stack` in `SerialDebug` holds the calls of `debugPrint` under way, each with what it does next and
the status its text shows; `buffer` is the one `errorMessageBuffer`. The status of a text is taken
when the text is formatted, which is after the next call may have overwritten the buffer.

`k` in `Uart` is the next write of `uartInitialize`, `transmit` and `receive` the queues of the
device, `line` what has reached the other end, each character with the speed and frame it was sent
with. `fmt`, `p` and `outputMessage` in `KernelFormat` are the item of the format, the place in the
buffer and the buffer; `luck` is what this build makes of the negation of the least `int`, which C leaves undefined. In
`FirmwareText`, `format` is what of the format is ahead of `ps->fmt.Index`, `arguments` what `va_arg`
has not taken yet, `state` the loop that is running, `item` is `Item`, and `out` the buffer with its
attribute and length and what has been flushed. `word` in `Descriptors` is one entry, gate or
descriptor.

`pic` in `Interrupts` holds the registers of both controllers, `stack` the handlers that run, the
innermost last, with the interrupt flag their `iret` restores; `main` and `k` say where
`kernel_main` is. `outb` is the controllers' reaction to a byte, taken from what the byte is for
(ICW1 to ICW4, mask, acknowledgement); between ICW1 and ICW2 the vector base is the old one or 0.

## 3. Runs

| Run | Question | Bounds, and why they are enough |
|---|---|---|
| `PageFrame` | `TypeOK`, `HintSound`, `CountersMatchBitmap`; implements `FrameAllocator` | Up to 9 frames and 16 bits: a contiguous machine, one with a hole whose free memory lies above the bitmap, one without free memory. Calls: single frames, a run across the bitmap's tail, a run around the address space. `Word` = 12 lets the counters wrap. |
| `PageFrameOverrun` (violation) | does any call change the bit behind the bitmap? | the same |
| `PageTable` | `TablesArePrivate`; implements `AddressSpace` | Tables of two entries, so 16 pages need four levels; four pages that share all, some and none of their tables; enough and too little memory; one frame held by others. `MCBeforeRefusal` stops after the first refusal. |
| `KernelBoot` | `RefusedOnlyWithoutMemory`, `TablesInFreeMemory`, `IdentityMapped`, `ResetOnlyAboveMemorySize`, `UsedMemoryAccounted` | 152 machines: memory on both sides of what the tables need, with and without a hole, the frame buffer in three positions relative to the tables of memory, clean and dirty memory, the bit behind the bitmap clear and set; in eight of them the kernel image lies behind the hole, above the memory size and partly under the end of the bitmap. |
| `Interrupts` | `ControllersProgrammed`, `WrongHandlerOnlyBeforeOffset`, `MaskedServedOnlyInWindow`, `NothingLeftInService`, `ResetOnlyIfInterruptsLeftOn`, `IdleOrFrozen`, `KeyboardServed` | timer, keyboard and one line of the second controller, four mask settings, two vector settings of the firmware, interrupts left on or off by it; handlers nest without bound in the model, as deep as the priorities allow |
| `InterruptsMasks` (violation) | are the saved masks always restored? | a firmware that masked everything |
| `Console` | implements `Typewriter`; `CharactersShow`, `TextsKeepTheirOrder`, `FaultAtTheEndOnly`, `FaultIsTheEnd` | two texts of `kernel_main`, one before and one after interrupts are on, then `int $0x21`; two interrupts of any kind at any moment; rows of two and three characters, so that texts fill a row, exceed it and end before its end; screens that are full early, late and never; a stack for five calls |
| `Loader` | `LoadedFaithfully`, `SuccessIsClean`, `ErrorHasCause`, `WritesStayInAllocatedPages`, `LoaderEnds` | nine sets of program headers with at most three segments (one for each branch of the loader and each way two segments can collide), both classes, whole and cut files; pages of two bytes |
| `Boot` | `KernelSeesCurrentMap`, `ReturnHasCause`, `KernelInWantedMode` | no, one and three video modes; two changes of the map by the firmware at any moment |
| `Handoff` | `NothingInUseIsTouched` | fourteen frames, four layouts of what the firmware holds, with and without a hole; two changes by the firmware; eight requests, more than there are free frames in most; one-byte frames, so that the bitmap takes up to two of them |
| `SerialDebug` | `MessagesAccountedFor`, `CallsReturn` | a device that works, fails up to three times or always, with two messages of the loader after the service is up; three statuses, so that a status can be mistaken for another |
| `Units` | `ImplementsBitSet`; `ImplementsFieldRecord`; `FormatsFaithfully`; `TextAsDocumented`; `TextsArrive` | *Bitmap:* two bytes between one and two others, ten indexes around every border. *Descriptors:* numbers with bits on both sides of every border between fields. *KernelFormat:* every pair of directives with numbers at the limits of an `int` of 30 bits (TLC's numbers have 32) and texts around the buffer's length of 64. *FirmwareText:* every directive with every combination of flags, 16- and 24-bit words for 32 and 64, a buffer of 5 for 320, so that it fills up at every place of an item. *Uart:* queues of three and texts of four, so that a text does not fit; three states of the firmware's queue, two of the latch, two speeds, two frames, with and without a device |

`Units` checks five modules in one run: they share no state, so a behaviour of the run is a
behaviour of one of them while the others rest.

### What the two violated properties show

`PageFrameOverrun`: `setBitmap` lets index `8 * size` through (`bitmap.c:15`), the first bit of the
byte behind a buffer that is `size` bytes long (`bitmap.h:10`). An ordinary call for a frame above
the memory size reaches it and the byte behind the bitmap changes.

`InterruptsMasks`: `initializePIC` saves the masks and restores them at its end
(`interrupts.c:63`, `:83`), but interrupts have been on since `interrupts.c:49` and ICW1 opens every
mask, so a device that was masked interrupts it, and the handler it meets does not return.

### What the passing runs show of the code

That `FREE_MEMORY` starts one page short: it is given the memory size, and then one page more than
that is reserved. `CountersMatchBitmap` is stated with that in mind: the counter and the number of
clear bits differ by a constant, and the counter wraps when the last frames are handed out. That
loading CR3 resets the machine if and only if something the kernel stands on lies above the memory
size, which is the sum of the map's entries and not its end (`ResetOnlyAboveMemorySize`). That a
timer tick ends all progress (`IdleOrFrozen` has to allow it). That
`lockPages` counts a page as used only if its bit was clear: a kernel image above the memory size is
not in the counter where the bitmap ends below it, and is where the bitmap, rounded up to bytes,
shows frames of no memory as free (`UsedMemoryAccounted` counts the open frames, not all). That a machine without graphics
handles passes the first check and fails a later one, while one without the graphics protocol goes
on with garbage (`KernelInWantedMode`). That the console needs interrupts off within one character
and no longer: interrupts between two characters leave it a typewriter (`ImplementsTypewriter`,
`CharactersShow`), those within lose or overlay characters, but even then no character of a text is drawn in a row above
an earlier one, and only one for which an interrupt came between the two loads at `graphics.c:54` can
be drawn left of an earlier one of its row or over it (`TextsKeepTheirOrder`): it goes to a place with
one coordinate from before the interrupt and one from behind it, where the cursor has never been. That the first character below the last row ends everything,
because the page fault handler prints below the last row too (`FaultIsTheEnd`). That a stale key
sends `efi_main` back to the firmware (`ReturnHasCause`).

That an interrupt between the new segments and `lidt` goes to the firmware's handler through the
kernel's segments and resets the machine, but only where the firmware leaves interrupts on across
`ExitBootServices` (`ResetOnlyIfInterruptsLeftOn`). That a serial device which fails for good takes
the loader's stack with it: the report of the failed write is written to the same device, and so on
(`CallsReturn` has to allow it); and that one which fails for a while only delays its messages, none
of which is lost or shows another's status. That the bitmap lies in free memory only if a free
segment is long enough for it, which nobody tests, and that given this the kernel writes to nothing
the loader or the firmware left in use (`NothingInUseIsTouched`, which has this as its
precondition).

That `vsprint` shows an empty string as the next string in memory, because `strcat` copies before it
looks (`FormatsFaithfully` leaves out messages with one; the kernel has none), shows nothing for `%x`
of 0, loses the sign of a number between -1 and 0, and leaves `%d` of the least `int` to the
compiler; and that a text of 64 characters or more is written outside the buffer. 
That the texts of the loader's library are those that the comment in front of `_Print` (`print.c:1041`
to `:1071`) promises, wherever the buffer fills up, except where the code and the comment disagree. The
definition of what is promised (`meaning`, `shownFor`) follows the comment; `unlikeComment` names the
directives of which the code does not keep it, and `TextAsDocumented` says nothing of a call with one:

* `-`, "justify on left (default is on right)" (`:1047`): what pads to the width stays in front, and only
  what fills up the field width moves behind the text;
* `X`, "fixed 8 byte value in hex" (`:1057`): without `l` it is the lower four bytes; with `l` it
  ignores a larger width, and fills up with zeros what the field width has cut off;
* `r` (`:1065`): a status that has no text is shown by `%X` without `l`, so without its upper half;
* `u`, "value as unsigned decimal" (`:1060`): from 2^63 on it is shown as a negative number;
* `,`, "add comma's to field" (`:1048`): ignored in front of anything but `d` and `u`.

`Units` has calls with the first four as well, and the property fails for each of them as soon as
`unlikeComment` leaves it out. `%N`, `%H` and `%E` are excluded too for a string, which has no attributes:
there they do not end. What the comment leaves open is taken from the code: a text longer than its
field is cut, a width is padded before a field, a directive that is not listed shows `?`, and a null
string is `(null)`. A format which ends within a directive is read past its end; the loader has none.
 That `uartInitialize` clears the queue
with the end of the firmware's last text in it, and nothing of the kernel's (`TextsArrive`). That an
address in a page table entry has 40 bits, as the processor wants it, although
`kernel/include/pageTable.h:7` and `:37` speak of 20.

### Fairness

`Loader` assumes that the firmware answers every call, `Console` that the processor executes: weak
fairness of the program's steps. `SerialDebug` assumes the same of a `debugPrint` under way, whose
calls to the device have a timeout; `efi_main` need not go on. `Interrupts` assumes that the
processor executes handlers and accepts a deliverable interrupt (weak fairness), and that what a
device interrupts gets its turn: `SF_vars(KernelMain)` and the same for the message of an exception
handler, which runs with interrupts on. Without it, devices that interrupt between any two
instructions could hold up `kernel_main` for ever. This is an assumption on the speed of
devices, the one the code makes too. Devices owe nothing: no fairness for `Raise`. The
other modules state safety only and assume no fairness.

## 4. Proofs

### The allocator

`PageFrameProofs` proves, on the lemmas of `MemoryProofs` and for every set of memory maps,
every set of calls, every `Word`, `PageSize` and `LowPages`:

* `Invariant`: `Spec => []IInv`;
* `TypeCorrect`: `Spec => []TypeOK`;
* `HintIsSound`: `Spec => []HintSound`;
* `CountersAreExact`: `Spec => []CountersMatchBitmap`;
* `Implementation`: `Spec => ImplementsFrameAllocator`.

**Assumptions.** `Word` and `PageSize` are positive, `LowPages` is a number; a memory map is a
sequence of descriptors inside the address space, with fewer pages than the address space; callers
pass addresses inside the address space. The next section discharges what is assumed of maps for the
maps the loader hands over.

**Argument.** `TypeOK`, `HintSound` and `CountersMatchBitmap` are not inductive each on its own: the
counters stay exact only if the set that is added is disjoint from the bits and the set that is
removed is part of them, which needs `bits` to be a finite set of addressable indexes, and the hint
must lie in the bitmap for `requestPage` to leave it there. `IInv` joins them. The allocator's calls come in three
shapes, and each has one lemma: `TakeFacts` for a set of settable bits turned on and a counter
raised, `GiveFacts` for clearable bits turned off and the hint lowered to their minimum,
`RequestFacts` for the search. `MapFacts` says what is read off a memory map, and `InitializeFacts`
strings the six calls of `initializePageFrame` together. The lemmas are about the operators and not
about one state machine: the page tables' proofs use the same ones. `RemainderUnique`, `ModAdd`, `CountersUp` and `CountersDown` carry the arithmetic modulo
`Word`; `BitsFinite` and `MinOfNaturals` what is needed of finite sets. The refinement maps
`available` to the clear bits below `8 * size`: a `requestPage` that succeeds is `Grant`, because
the minimum of the candidates above a sound hint is a clear bit; one that fails is `Refuse`, because
below a sound hint nothing is clear; all else is `Withdraw` or `GiveBack`.

### From the loader to the kernel

`PageFrameProofs` also proves, for every memory the loader may start in, every set of frames the kernel
is linked for, any number of changes by the firmware at any moment up to `ExitBootServices`, and any
number of requests:

* `HandoffInvariant`: `HandoffSpec => []HandoffInv`;
* `HandoffIsSafe`: `HandoffSpec => []NothingInUseIsTouched`;
* `HandoffImplementsPageFrame`: `HandoffSpec => Spec`, the specification of `PageFrame`.

**Assumptions.** The frames are numbered from 0, and there are ten fewer than the address space holds
at least (what the allocator's reservations add behind the last frame must not wrap); the kernel has a
frame. The refinement also takes the maps of `PageFrame` to include the valid ones, and its calls the
one `lockPages` of `kernel_main`.

**Argument.** `NothingInUseIsTouched` relates the state of memory at the end, as the firmware knows it,
to a bitmap computed from a snapshot, so `HandoffInv` has two halves. *The snapshot*: up to
`ExitBootServices`, if the key is still the one that came with the map, then the map is what `describe`
makes of memory now; afterwards it is, because a stale key ends `efi_main` and nothing but the firmware
and the loader changes memory. *The bitmap*: from `initializePageFrame` on, `BitmapInv` says that the
clear bits are exactly the open frames, free in memory, outside what is reserved and locked, and not yet
granted, together with what the rounding to bytes leaves behind the memory size.

What joins the halves is that `describe` has a descriptor for each run of frames and no other.
`RunEnds` finds the end of a run, `RunsCover` the run of a frame, `RunsNumbered` that `nth` numbers the
starts in order (by `Ranks`, on the number of starts below one), and `DescribeRuns`,
`DescribeConventional` and `LargestSegment` say what `initializePageFrame` reads off the result: the
conventional frames are the free ones, and the segment it picks is a longest free run.
`DescribeSize` adds the counts up. The library's induction theorems cannot be instantiated, so
`RunningTotal` proves what the recursive function of `getMemorySize` computes by a least counterexample:
were some prefix without a sum, the least one would have a predecessor with one. `DescribeValid` follows:
no map of `GetMemoryMap` exceeds the address space, which is what the proofs about `PageFrame` assume.
Then `RequestPage` grants the least open frame (`OpenFacts`, `TakePageKeeps`), and with `LongestFacts`
the bitmap lies inside a free run if one is long enough.

### The page tables

`PageTableProofs` proves, on the lemmas of `MemoryProofs` and for every number of entries in a
table, every set of memory maps, pages and frames, every junk in the frames that are handed out, and
any number of frames in other hands:

* `Invariant`: `Spec => []IInv`;
* `TreeOfPrivateFrames`: `Spec => []TablesArePrivate`;
* `Implementation`: `Spec => ImplementsAddressSpace`.

**Assumptions.** Those on the memory maps, and that the frames the bitmap covers fit into the address
field of an entry (a physical address has at most 52 bits, the number of a frame 40); some low frame
is reserved, so that the null page is never given away; virtual pages have the bits that four
indexes hold; old data reads as entries.

**Argument.** `IInv` says that, until a request is refused, the allocator is sane, memory reads as
tables (`Sound`), what others hold is taken, and the tables are a `Tree` of `Taken` frames: taken, held
by no one else, not null. `Tree` is about the entries of all tables above the leaf tables, and both
parts are needed for induction: that no entry leads to the root or to a frame another entry leads to,
and that all lead to taken frames, which is what keeps `requestPage` from handing one out again.
`descend` is the step: `DescendKeeps` shows that an absent entry gets a cleared frame which is nobody's
(`RequestedFacts`, `ClearedFacts`, `HungFacts`), that the tree grows by it (`TreeGrows`), and that no walk
notices, since it leads to an empty table (`WalkSame`). `NextLevel` chains three of them and
`LeafKeeps` adds the leaf entry: two pages whose walks reach the same leaf entry have the same four
indexes (`WalkAgree`, from the tree's injectivity), and are the same page (`IndexDetermines`, by
division). The call that is refused is followed to its end too: `DescendLost` and `LostToTheEnd` show
that whatever it then writes goes to frame 0 or to absent entries, so every page mapped before is
still mapped (`WalkKept`). `MapMemoryKeeps` is the sum of both. The users of other frames write
and free outside `Taken`, so the tree stays (`TreeStays`) and with it all walks.

### The start of the kernel

`KernelBootProofs` proves, for every set of machines (memory map, place and size of the kernel image
and the frame buffer, old data in memory, stray bit behind the bitmap) and every number of entries
in a table:

* `Invariant`: `Spec => []IInv`;
* `NeverRefused`: `Spec => []RefusedOnlyWithoutMemory`;
* `TablesFromPool`: `Spec => []TablesInFreeMemory`;
* `Identity`: `Spec => []IdentityMapped`;
* `ResetExplained`: `Spec => []ResetOnlyAboveMemorySize`;
* `UsedMemory`: `Spec => []UsedMemoryAccounted`.

**Assumptions.** Those of the allocator and of the page tables, and, of a machine, that its memory and
its frame buffer lie within the 48 bits of a virtual address (mapped to themselves, higher ones have
none) and that what the boot loader and the firmware hold for it (stack, boot information, font) is
not conventional memory. `Handoff` models where the latter comes from: the types of the frames in the
snapshot the kernel gets; that the map is valid is proved there.

**Argument.** The five properties speak of machines with enough memory, which is a count: the frames
of the pool on one side, the tables of all pages on the other. So the invariant has to know exactly
which bits are clear and how many tables there are at every moment, where the invariants of allocator
and tables only bound both.

*The bitmap.* `InitializedFacts` and `LockedFacts` give the bits after `initializePageFrame` and after the
kernel is locked, and what the counter of used memory holds then. `PoolFacts` shows `Roomy`: every
frame of the pool is below every other clear bit, since what lies above the memory size comes last.
`requestPage` takes the lowest clear bit, so it hands out the pool first, and only the pool while the
tables are fewer than it (`RequestCounts`; `Counted` and `Grown` keep the count).

*The tables.* `Shaped` says that the tables are numbered as `tablesFor` numbers them, by level and
upper digits of the page, each at a frame of its own, and that an entry is present exactly where the
numbers of parent and child are both in use. An absent entry that `descend` fills adds one number
(`ShapeGrows`, `DescendGrows`); `MapMemoryGrows` does so along the path of a page, at the end of which
the leaf entry changes nothing above it (`ShapeStays`). `Digits` and `DigitsUnique` are the
arithmetic of the numbers. So a call on a page adds the tables that page lacks and no other
(`MapPage`), and after any part of the loops the tables are `tablesFor` the pages mapped so far
(`Complete`). These are at most `tablesNeeded` (`NeededFacts`), so no request finds the pool empty.

*The rest.* That the pages mapped so far lead to themselves and all others nowhere is in `Progressing`;
`MapMemoryKeeps` of the page tables' proofs carries it over a call. On a machine without enough
memory the invariant says only that the allocator stays sane (`MapMemorySane`), which is all the code
guarantees. The counter of used memory is read modulo `Word`; bits and tables together are fewer than
the address space has pages, so it does not wrap.

### The bitmap

`UnitsProofs` proves `Implementation`: `BitmapSpec => ImplementsBitSet`, for every size and place
of the bitmap, every content of memory around it and all indexes. This is what the allocator's model
takes for granted when it has a set for the bitmap.

**Assumptions.** The bitmap and the byte behind it lie in memory; indexes are numbers.

**Argument.** The refinement reads the set back from memory: an index is a member if its bit is 1,
and `others` are all 1 bits of memory that belong to no index, so that a step which disturbs them is
no step of `BitSet`. The invariant `MemoryOK` says that memory holds bytes and that calls return true or
false; `MemoryKept` proves it. `BitsAreDistinct` shows by division that no two indexes share a bit, and
`BitsInMemory` that those the range check lets through, one too many included, lie in memory.
`PlacesAfterSet` says of every place in memory what a call leaves there; `SetBitmapIsPut` and
`GetBitmapIsGet` follow from it.

### Page table entries, gates and the segment descriptor

`UnitsProofs` proves `WordsImplementRecords`: `WordSpec => ImplementsFieldRecord`, for every content
of an entry and every sequence of calls with any numbers.

**Assumptions.** Entries have 64 bits; handlers, addresses and bases are numbers of 64 bits and gate
types of three.

**Argument.** The refinement reads the fields where the processor looks for them, and what belongs to no
field as one more field, so a setter that disturbs it is no step of `FieldRecord`. `ShiftBits`,
`FieldBits` and `FieldBit` say of one bit what a shift, an assignment and a read do to it; from these
`EntryBits`, `GateBits` and `SegmentBits` say of every bit of a word where it comes from after a
setter. `FlagFields`, `AddressFields`, `GateFields` and `SegmentFields` put the bits together to
fields again, the handler and the base, which lie in pieces, among them, and `OffsetRead`, `OneBit` and
`IndexRead` show that the getters read the same. The invariant `WordOK` says that no call stores a bit
outside the word.

### The boot loader

`UnitsProofs` proves, for every set of lists of video modes and any number of changes of the memory
map by the firmware:

* `BootInvariant`: `Spec => []BootInv`;
* `MapIsCurrent`: `Spec => []KernelSeesCurrentMap`;
* `ReturnsForACause`: `Spec => []ReturnHasCause`;
* `RunsInWantedMode`: `Spec => []KernelInWantedMode`.

**Assumptions.** A list of modes is a sequence that says of each mode whether it fits; the number of
changes is bounded by a number, any number.

**Argument.** The three properties speak of the moment in which `efi_main` ends, and what makes them
true is spread over the calls before it. `BuffersKept` says which buffers are allocated from which
call on. `MapAndKey` says that the key `efi_main` holds is never ahead of the firmware's, and that if
the two are equal the buffer shows what is allocated; hence `ExitBootServices`, which succeeds only on
equal keys, leaves with a current map. `Undisturbed` says that without changes by the firmware the
size, the room and the key agree from call to call, so that neither `GetMemoryMap` nor
`ExitBootServices` can fail for them. `ModesSearched` is the invariant of the loop over the modes: none
passed fits, and the loop is left on one that does. `StepOK` has a step for each call and one for the
firmware's changes beside them.

### The kernel image

`LoaderProofs` proves, for every set of files, every size of a page and of memory, whatever pages
are free and whichever services fail:

* `Invariant`: `Spec => []IInv`;
* `Faithful`: `Spec => []LoadedFaithfully`;
* `Clean`: `Spec => []SuccessIsClean`;
* `ErrorCause`: `Spec => []ErrorHasCause`;
* `WritesStay`: `Spec => WritesStayInAllocatedPages`.

**Assumptions.** Sizes of segments are numbers below `Word`, memory is smaller than `Word`, and page 0
is never free. Nothing is assumed of what the headers say: segments may overlap, lie anywhere, promise
more bytes than the file has, or have more bytes in the file than in memory.

**Argument.** `Bookkeeping` says which buffers are held at which call. `Finished` are the segments that
are loaded, `Placed` those that have their pages. None of the properties is inductive without
`Placement`: the allocated pages are those of the placed segments, and no two of these share one. From
it `Located`, with the arithmetic of `BytesInPages`, puts every byte of a placed segment into memory and into a page that
is that segment's alone; so a write between the bounds of one segment changes nothing of another and
stays in allocated pages (`Written`), which carries `Contents`: finished segments show their bytes and
zeros, the current one its bytes once they are copied. `CopyMem` stays between the bounds because `filesz` is at most
`memsz` (`wellFormed`), `SetMem` because `ZeroFillCount` shows that the subtraction then does not
wrap. `Placement` also explains refusals: if `AllocatePages` finds a page taken that was free at the
start, some loaded segment has it. `StatusStep` lists the calls that return, and with what.

### Interrupts

`InterruptsProofs` proves, for every set of lines and whatever masks, vector bases and interrupt flag
the firmware has left:

* `Invariant`: `Spec => []IInv`;
* `RemappingArrives`: `Spec => []ControllersProgrammed`;
* `MasksHoldOutsideTheWindow`: `Spec => []MaskedServedOnlyInWindow`;
* `AllAcknowledged`: `Spec => []NothingLeftInService`;
* `ResetHasCause`: `Spec => []ResetOnlyIfInterruptsLeftOn`;
* `OwnHandlersServe`: `Spec => []WrongHandlerOnlyBeforeOffset`, of a firmware that satisfies
  `BasesApart`.

**Assumptions.** Lines are numbers from 0 to 15 without 2; masks are bytes and bases numbers up to
248.

**Argument.** `Reached` says what the first writes of `initializePIC` have made of the controllers:
what each expects next, which offset is in place, and on which controller the firmware's mask is in
force. A write takes the controllers from one stage to the next (`Write`, with a lemma for each kind
of byte) and nothing else moves them, since `Acknowledge` shows that `picEnd` leaves masks, bases and
the initialisation alone. An interrupt is delivered only through an open mask, so a line the
firmware had masked finds one only in the stages in which the mask in force is not the firmware's.
That nothing is left in service rests on `ServedAlone` and `StuckForGood`: the only handler that
returns is entered through an interrupt gate, so it runs alone or on top of one that never returns,
and `InService` bounds what it has to acknowledge to one line of each controller. Whatever vector a
base that the firmware left leads to, `Gates` covers it.

`WrongHandlerOnlyBeforeOffset` is not true of every base: a firmware that had left the second
controller on vectors that overlap 32 and 33 would have its lines served by the timer's and the
keyboard's handlers until the second offset is written. `BasesApart` excludes that, and nothing else;
a PC's firmware, which leaves the second controller on 112, satisfies it. It is a hypothesis on the
constants of this one theorem; under it `HandlersOwn`, a part of `IInv`, is the property itself, and
the offset written later does not change which line a running handler was entered for
(`SameInterrupt`).

### The boot messages

`UnitsProofs` proves, for every set of statuses and any number of messages:

* `SerialInvariant`: `SerialSpec => []SerialInv`;
* `NoMessageVanishes`: `SerialSpec => []MessagesAccountedFor`.

**Assumptions.** The statuses contain the two that the loader checks for by name, and none of them is
mistaken for one of the marks the model uses for no status and for a call under way. Nothing is
assumed of the device: each write may succeed, fail with any status or take part of the text.

**Argument.** A failed write calls `debugPrint` again, which puts its own text into the one
`errorMessageBuffer`, so the property depends on when each call reads the buffer. `FrameOK` says of
every call under way, from what it does next, what of the buffer and the logs is still its own: it is
the last call made until it has written, so the buffer shows its status until its text is formatted,
and nothing of it is on the device before it writes. `Nested` says that all calls but the
innermost wait to report a failed write, hence read the buffer no more. `Accounted` is what the logs
must hold when a call ends. `Called`, `Moved` and `Replaced` carry these over the three things a step
does: make a call, move the innermost one on, end it in favour of another. The texts are on the
device in the order of the calls because only the last call writes.

### The console

`ConsoleProofs` proves, for every screen, all texts of `kernel_main` and the handlers, any number of
interrupts between any two accesses to the cursor, and any depth of the stack:

* `Invariant`: `Spec => []IInv`;
* `TypeCorrect`: `Spec => []TypeOK`;
* `CharactersAreShown`: `Spec => []CharactersShow`;
* `OrderKept`: `Spec => []TextsKeepTheirOrder`;
* `FaultsAtTheEnd`: `Spec => []FaultAtTheEndOnly`;
* `Implementation`: `Spec => ImplementsTypewriter`.

**Assumptions.** A screen has at least one row and one column, the stack room for one call, and texts
are sequences of characters.

**Argument.** The calls of `print` under way form a stack, and each of them may write to the cursor
what it has read before the ones above it moved it. So nothing can be said of the cursor alone.
`Calls` says that there are marks, the place of the cursor at which each call was entered, with
`CallInv` for each call between its own mark and the next one's (the cursor's, for the innermost).
Four things are in it. `Ordered`: wherever the cursor is when the call goes on, the call leaves it at
`end`, which is not before its mark; so a call may take back what those above it have done, never what
those below it have. Its clause `Registers` says what a call knows that has loaded one coordinate or
both: the row is no lower than the cursor's, and unless the character is parted the place is one the
cursor had. `Own`: the characters it has drawn stand no lower than that end and than the row at which it
is about to draw; and before that end and before that place, in reading order, if neither they nor the
one it is at are parted. A parted character may have been drawn behind the place where the call goes on,
which is why nothing more can be said of it. `Fits`: how far right of a row it may find the cursor, or keep a column
in a register; one cell for each torn text below it. `Shown`: without a torn character, what it has
printed shows. `EndMonotone` is why the marks are enough: a later cursor means a later end, so a call
that goes on (`CallResumed`) is no worse off than at its mark. `Nesting` says who may stand above
whom: a handler of a device has interrupts off, so that the only call above it can be a page fault's;
a call that has another above it between its two loads is at a parted character;
`Numbered`, that a text's number is its own. `PutCalls` is the step that draws; `QuietStep` carries all
others, `PushStep` and `PopStep` calls and returns. A fault before the rows are used up needs a column
beyond the last, which by `Fits` only a torn character leaves in a register.

`ImplementsTypewriter` needs more of a console whose promise has not lapsed, and `PaperInv` adds it:
what the innermost call holds in its registers is what the cursor says (`UpToDate`), rows are filled
from the left, the current one up to the pen, and those below it are empty (`Packed`), and there are
no more texts than were begun or came with an interrupt (`TextsKnown`), so that every character is one
of `Chars`. Each step of a character has a lemma; a call or a return meets and leaves a console
between two characters (`RestingStep`), because an interrupt elsewhere tears one and `Nesting` puts no
call above a character under way but a page fault's, and with that the rows are used up
(`FaultLapses`). The promise never comes back, since the cursor goes up only where a character was
torn (`NoWayBack`). Then a step of the console is one of the typewriter: `Put` is `Type`
(`PutTypes`, `PutChars`), a `StoreY` that stays on the screen is `NewLine` (`StoreYBegins`), one that
leaves it or an interrupt within a character is `Lapse`, and no other step is seen on the page
(`OthersKeep`).

### The kernel's formatting

`LoaderProofs` proves, for every width of an `int`, every length of the buffer, all runs of literal
text, all strings, formats and arguments, and whatever the compiler makes of the negation of the least
`int`:

* `FormatInvariant`: `FormatSpec => []FormatInv`;
* `FormatIsFaithful`: `FormatSpec => []FormatsFaithfully`.

**Assumptions.** `reverse` is as long as the longest number with its terminator, base mark and sign
(`W + 3`; the code has 36 for 32). No text has a terminator in it. The arguments are what the
directives take: any integer for a number, a string of the program for `%s`. The whole part of a double
is an `int`, since the conversion is undefined otherwise, and its fraction is a multiple of a part
that is more than the 0.00000001 at which `gcvt` stops.

**Argument.** That the text so far stands in front of `p` is not inductive: the conversions move `p` by
`strlen(p)`, and `strcat` stores no terminator, so the place of the next item depends on what lies behind
`p`. `FormatInv` adds that all of it is zero; `debugPrint`'s initializer makes it true, every item
that fits keeps it, and a text that does not fit spills, at which the claim becomes that the message is
too long. `StoredText` is the step: text stored at `p`, with a terminator or without, ends where `strlen`
says. Under it are the conversions. `UpwardsByPlace` shows that the loop of `itoa` and `uitoa` stores
the digits that division by powers of the radix yields, `NumeralFacts` that reversed they are the number
as it is meant, at most `W` digits long (`Lengths`), and `FractionFacts` with `NextPlace` the same of
the loop of `gcvt`. `ItoaFacts` and `GcvtFacts` put sign, base mark, point and terminator around them.
`MeantFacts` says that the text meant grows by what the next item shows.

These are recursive functions over all numbers. The library's induction theorems cannot be instantiated,
so `LeastNatural` is proved from the axioms of the integers, and from it induction with a set in the place
of the predicate (`SetInduction`, `StepInduction`) and that what is computed step by step exists
(`Iterates`); a closed form is then shown to satisfy the recursive equation, and to be the only one.

### The loader's formatting

`LoaderProofs` proves, for every set of calls, every length of the buffer, all widths of an `int` and a
`long` and every table of statuses:

* `PrintsAsDocumented`: `TextSpec => []TextAsDocumented`, with the directives that are `unlikeComment`
  excluded by the property.

**Assumptions.** A format is made of parts the library knows, a directive without conversion only at
its end, and each directive has the argument it takes: a number fits a `long`, a null string is a
string too. A number in a format has at most two digits (no format of the loader has one); a width on
the stack is any number. The buffer holds two characters and a string has room for one with its terminator.
`LongBits` is below 999, the number of digits up to which `ValueToString` writes no comma unasked.

**Argument.** The property compares what has been flushed with a text nobody computes, and in the
middle of a directive neither the format nor the item says how much of that text is out. `Reading` says
where in the call the loops stand. Between two parts (`Between`), the format and the arguments ahead
are those of the parts that remain, and what has been put out is `textTo` of those that are done. Within
literal text (`Within`), the same holds of its first characters. Within a directive (`InDirective`),
nothing more has been put out, what is ahead begins with the symbols behind the first `m` of the ten a
directive can have, and `ItemAt` lists what the item has heard from those. A symbol that is missing is
behind as soon as it is ahead (`DirectiveSkips`), so the loop can always be taken to be in front of
one that is there (`Before`); its character tells which one, because no conversion is a modifier, and
each of `FlagStep`, `StarStep`, `NumberStep`, `FieldAttributeStep` moves behind it. `ItemStep` and
`AttributeStep` end the directive. `ShownFacts` says what `PITEM` then puts out, by place value
(`codeShown`), and under it are `DigitsByPlace`, the digits of both bases, and `CountFacts`, the place of
every comma. All of this holds of every call. Only the last step is about the comment: `CommentKept` shows
that where a directive is not `unlikeComment`, what the code shows of it is what the comment promises.

The buffer is one operator, `Emitted`: the text so far is what has been flushed, as far as there was
room, and the buffer in the attribute in force. A flush, wherever it comes, a new attribute and one more
character keep it (`FlushKeeps`, `SettingKeeps`, `OneMore`), since cutting a string twice cuts it once
(`AtMostFacts`). `Plain` excludes the calls the property excludes, strings with `%N`, `%H` or `%E`: there the
attribute is 0, the loop goes on behind the conversion, and `InDirective` fails.

### The serial port

`UnitsProofs` proves, for every depth of the device's queues, all texts, every text the firmware has
left in the transmit queue and every divisor and format it has set:

* `UartInvariant`: `UartSpec => []UartInv`;
* `KernelsTextsArrive`: `UartSpec => []TextsArrive`.

**Assumptions.** The queues hold at least one character, what the firmware left fits into them, and
a divisor is a pair.

**Argument.** `Programmed` says, write by write, what `uartInitialize` has made of the latch, the divisor
and the format (`Register` is the effect of one write on each); after the sixth the latch is closed, so
a character put is a character and not a divisor. `FirmwaresText` says that up to the clearing of the
queues the line and the queue are the firmware's text. The clearing is where the kernel's part begins:
`Split(first)` says that the line has the first characters of the firmware's text, then the
kernel's, and that the queue goes on where the line ends. `UartPutChar` waits until the queue is
empty, so its character is not dropped; `Transmit` moves one from the queue to the line.
`InvariantArrives` reads the property, which speaks of subsequences, off the positions.

### Not proved

**Model-checked only.** The safety of every component is proved, and every refinement, the two
violated properties aside.
Out of the prover's reach are the liveness properties `CallsReturn`, `FaultIsTheEnd`, `IdleOrFrozen`,
`KeyboardServed` and `LoaderEnds`, since fairness is stated with `ENABLED`. No module declares a
`RECURSIVE` operator: recursion is written as recursive functions, so that every module can be
proved about.

## 5. Not modelled, and the plan

Everything in `boot/` and `kernel/` that runs and changes state is modelled, except what the list
below names. The plan is carried out.

`Console` takes two things for granted: a row of characters fits
the screen exactly (1024 by 768, the one mode the loader accepts, is 128 by 48 cells), and no page
behind the frame buffer is mapped, as on machines whose memory ends below it.

Left out for good:

* `gnu-efi`, but for the formatting the loader uses: nine tenths of the repository's C are this
  vendored library, most of it headers of constants and protocols, and functions nothing calls. The
  boot services the loader reaches through it are the firmware's, and external in `Boot`, `Loader`,
  `Handoff` and `SerialDebug`. A map of the code that the repository's own programs execute can
  therefore cover only a small share of all lines.
* `libc` (no code), headers that declare and do nothing, `math.c` (empty), build files.
* `printELFFileInfo`, `clear`, `drawRect`, `getResolution`, `strcpy` on its own, `memcmp`, `uitos`
  and `itoh`, the test screens: output only, compiled out, or never called.
* `ltr` and the constant segment descriptors: loaded once and never changed.
* `uartPutInt`, which is `uartPuts` of the digits of `itoa`.
