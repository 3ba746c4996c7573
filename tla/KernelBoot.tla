----------------------------- MODULE KernelBoot -----------------------------
(***************************************************************************)
(* The start of kernel_main (kernel/src/kernel.c): from the memory map of  *)
(* the boot loader to a processor that runs on the kernel's own page       *)
(* tables.  One step is one statement, or one pass of a loop; nothing else *)
(* runs, for the boot loader has left the firmware and interrupts have no  *)
(* handlers yet.                                                           *)
(*                                                                         *)
(* A machine is a record:                                                  *)
(*   map                      the memory map the boot loader passes on     *)
(*   kernelStart, kernelSize  the frame _kernelStart lies in, and the      *)
(*                            bytes from there to _kernelEnd               *)
(*   inUse                    the frames that hold the rest of what the    *)
(*                            kernel runs on: stack, BootInfo, font        *)
(*   fbStart, fbPages         the frame buffer, which starts on a page     *)
(*   junk                     the entries old data in its memory reads as  *)
(*   stray                    whether the byte after the bitmap has its    *)
(*                            first bit set                                *)
(***************************************************************************)
EXTENDS PageTableOps

CONSTANT Machines

(* The pages of a virtual address of 48 bits; physical addresses have more. *)
addressSpace == 0..(Fanout * Fanout * Fanout * Fanout - 1)

ASSUME AddressSpaceAssumption == addressSpace \subseteq 0..(EntryFrames - 1)

(* The first frame, which a null pointer points to, is not given away.      *)
ASSUME NullAssumption == LowPages > 0

(* Memory and the frame buffer have virtual addresses to be mapped at, and  *)
(* what the boot loader and the firmware allocated is not conventional.     *)
ASSUME MachinesAssumption ==
  \A m \in Machines :
    /\ ValidMap(m.map)
    /\ (getMemorySize(m.map) \div 8 + 1) * 8 <= EntryFrames
    /\ 0..(getMemorySize(m.map) - 1) \subseteq addressSpace
    /\ m.fbStart \in Nat /\ m.fbPages \in Nat
    /\ m.fbStart..(m.fbStart + m.fbPages - 1) \subseteq addressSpace
    /\ m.kernelStart \in Nat /\ m.kernelSize \in Nat
    /\ m.inUse \subseteq Nat /\ m.inUse \cap ConventionalFrames(m.map) = {}
    /\ m.junk \in Entry
    /\ m.stray \in BOOLEAN

VARIABLES
  machine,   \* the machine that boots
  pc,        \* the statement of kernel_main to execute next
  pf,        \* the allocator's globals
  ram,       \* the frames the bitmap will cover, as page tables
  pageTable, \* the global of pageTable.h
  i,         \* the loop variable, as a page
  cr3,       \* the root the processor walks from, Firmware before kernel_main
             \* loads its own
  refused    \* TRUE once requestPage has returned NULL

vars == <<machine, pc, pf, ram, pageTable, i, cr3, refused>>

Firmware == -1

memoryPages == getMemorySize(machine.map)

Init ==
  /\ machine \in Machines
  /\ pc = "initializePageFrame"
  /\ pf = ZeroedAllocator
  /\ ram = [f \in 0..((memoryPages \div 8 + 1) * 8 - 1) |->
              [slot \in Slots |-> machine.junk]]
  /\ pageTable = NULL
  /\ i = 0
  /\ cr3 = Firmware
  /\ refused = FALSE

(* initializeMemory(&bootInfo->memoryMap); initializePageFrame(); *)
InitializePageFrame ==
  /\ pc = "initializePageFrame"
  /\ pf' = initializePageFrame(pf, machine.map, machine.stray)
  /\ pc' = "lockKernel"
  /\ UNCHANGED <<machine, ram, pageTable, i, cr3, refused>>

kernelPages == machine.kernelSize \div PageSize + 1

\* Variant: the size in bytes taken for a number of pages.
LockKernelBytes ==
  /\ pc = "lockKernel"
  /\ pf' = lockPages(pf, PageRun(machine.kernelStart, machine.kernelSize))
  /\ pc' = "requestPML4"
  /\ UNCHANGED <<machine, ram, pageTable, i, cr3, refused>>

(* lockPages(&_kernelStart, kernelPages); *)
LockKernel ==
  /\ pc = "lockKernel"
  /\ pf' = lockPages(pf, PageRun(machine.kernelStart, kernelPages))
  /\ pc' = "requestPML4"
  /\ UNCHANGED <<machine, ram, pageTable, i, cr3, refused>>

(* PML4 = requestPage(); memset(PML4, 0, 0x1000); initializePageTable(PML4); *)
RequestPML4 ==
  /\ pc = "requestPML4"
  /\ pf' = requestPage(pf)
  /\ pageTable' = requestedPage(pf)
  /\ ram' = memsetTable(ram, pageTable')
  /\ refused' = (pageTable' = NULL)
  /\ pc' = "mapMemory"
  /\ UNCHANGED <<machine, i, cr3>>

(* mapMemory(i, i), as both loops call it. *)
mapIdentity ==
  LET after == mapMemory(pf, ram, pageTable, i, i)
  IN  /\ pf' = after.pf
      /\ ram' = after.ram
      /\ refused' = (refused \/ after.refused)

\* Variant: the loop goes by the number of the last page.
MapMemoryShort ==
  /\ pc = "mapMemory"
  /\ \/ /\ i < memoryPages - 1
        /\ mapIdentity
        /\ i' = i + 1
        /\ UNCHANGED pc
     \/ /\ i >= memoryPages - 1
        /\ pc' = "mapFrameBuffer"
        /\ i' = machine.fbStart
        /\ UNCHANGED <<pf, ram, refused>>
  /\ UNCHANGED <<machine, pageTable, cr3>>

(* for (i = 0; i < getMemorySize(); i += 0x1000), and on to fbBase. *)
MapMemory ==
  /\ pc = "mapMemory"
  /\ \/ /\ i < memoryPages
        /\ mapIdentity
        /\ i' = i + 1
        /\ UNCHANGED pc
     \/ /\ i >= memoryPages
        /\ pc' = "mapFrameBuffer"
        /\ i' = machine.fbStart
        /\ UNCHANGED <<pf, ram, refused>>
  /\ UNCHANGED <<machine, pageTable, cr3>>

(* for (i = fbBase; i < fbBase + fbSize; i += 4096) *)
MapFrameBuffer ==
  /\ pc = "mapFrameBuffer"
  /\ \/ /\ i < machine.fbStart + machine.fbPages
        /\ mapIdentity
        /\ i' = i + 1
        /\ UNCHANGED pc
     \/ /\ i >= machine.fbStart + machine.fbPages
        /\ pc' = "loadCR3"
        /\ UNCHANGED <<pf, ram, i, refused>>
  /\ UNCHANGED <<machine, pageTable, cr3>>

(* What kernel_main needs to find where it was as soon as CR3 is loaded. *)
kernelFrames ==
  machine.kernelStart..(machine.kernelStart + (machine.kernelSize - 1) \div PageSize)

inUse == kernelFrames \cup machine.inUse

(* movq %0, %%cr3.  The processor goes on with the next instruction if it   *)
(* can fetch it; if not, it faults, finds no handler, and resets.           *)
LoadCR3 ==
  /\ pc = "loadCR3"
  /\ cr3' = pageTable
  /\ pc' = IF \A f \in inUse : translate(ram, pageTable, f) = f
             THEN "initializeInterrupts" ELSE "reset"
  /\ UNCHANGED <<machine, pf, ram, pageTable, i, refused>>

(* The next component takes over, or the machine is gone. *)
Stop ==
  /\ pc \in {"initializeInterrupts", "reset"}
  /\ UNCHANGED vars

Next ==
  \/ InitializePageFrame
  \/ LockKernel
  \/ RequestPML4
  \/ MapMemory
  \/ MapFrameBuffer
  \/ LoadCR3
  \/ Stop

Spec == Init /\ [][Next]_vars

-----------------------------------------------------------------------------
memoryRange == 0..(memoryPages - 1)
fbRange     == machine.fbStart..(machine.fbStart + machine.fbPages - 1)

bitmapFrames == PageRun(pf.base, pf.size \div PageSize + 1)

(* The frames requestPage may give away once the kernel is locked: they are *)
(* conventional, the bitmap covers them, and nothing of the kernel's is in  *)
(* them.                                                                    *)
pool ==
  (ConventionalFrames(machine.map) \cap memoryRange)
    \ (PageRun(0, LowPages) \cup bitmapFrames
         \cup PageRun(machine.kernelStart, kernelPages))

(* The tables four levels need for some pages: the root, and on each level  *)
(* below it one for every group of pages with the same upper indexes.       *)
tablesFor(pages) ==
  {<<0, 0>>}
    \cup {<<1, ((page \div Fanout) \div Fanout) \div Fanout>> : page \in pages}
    \cup {<<2, (page \div Fanout) \div Fanout>> : page \in pages}
    \cup {<<3, page \div Fanout>> : page \in pages}

tablesNeeded == Cardinality(tablesFor(memoryRange \cup fbRange))

enoughMemory == tablesNeeded <= Cardinality(pool)

(* Boot is refused a frame only on a machine whose free memory is smaller   *)
(* than its page tables.                                                    *)
RefusedOnlyWithoutMemory == refused => ~enoughMemory

(* The tables live in free memory: no table overwrites the kernel, its      *)
(* stack, the boot information, the bitmap, the first megabyte or anything  *)
(* else the memory map does not call conventional.                          *)
TablesInFreeMemory ==
  pc \notin {"initializePageFrame", "lockKernel", "requestPML4"} /\ enoughMemory =>
    upperTables(ram, pageTable) \cup PTs(ram, pageTable) \subseteq pool \ machine.inUse

(* Once CR3 is loaded, every page of memory and of the frame buffer leads   *)
(* to itself, and every other page of the 48-bit address space faults.      *)
IdentityMapped ==
  cr3 # Firmware /\ enoughMemory =>
    \A page \in addressSpace :
      translate(ram, cr3, page) =
        IF page \in memoryRange \cup fbRange THEN page ELSE Unmapped

(* Loading CR3 resets the machine only if something the kernel runs on lies *)
(* above the memory size.  getMemorySize adds up the memory map instead of  *)
(* looking for its end, so a hole in the map is all it takes.               *)
ResetOnlyAboveMemorySize ==
  pc = "reset" /\ enoughMemory => ~(inUse \subseteq memoryRange \cup fbRange)

(* The frames the bitmap shows as free until the first of them is locked:   *)
(* conventional memory, and what the bitmap covers above the memory size.   *)
openFrames ==
  { f \in 0..(pf.size * 8) :
      \/ f \in ConventionalFrames(machine.map)
      \/ f > memoryPages /\ ~(machine.stray /\ f = pf.size * 8) } \ PageRun(0, LowPages)

(* When the mapping is done getUsedRAM counts the page tables, the bitmap,  *)
(* and the kernel as far as its frames were free: nothing twice, and        *)
(* nothing that was reserved.                                               *)
UsedMemoryAccounted ==
  cr3 # Firmware /\ enoughMemory =>
    LET kernel == PageRun(machine.kernelStart, kernelPages)
    IN  pf.used = Cardinality((bitmapFrames \cup kernel) \cap openFrames) + tablesNeeded
=============================================================================
