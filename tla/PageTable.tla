------------------------------ MODULE PageTable ------------------------------
(***************************************************************************)
(* The page tables of pageTable.c together with the page-frame allocator   *)
(* that feeds them, and the other users of that allocator: kernel code     *)
(* that requests frames, writes whatever it likes into them and frees them *)
(* again, between any two calls of mapMemory.                              *)
(***************************************************************************)
EXTENDS PageTableOps

CONSTANTS
  MemoryMaps, \* the memory maps the allocator may have been initialised with
  Junk,       \* an entry as left behind by whoever used a frame before
  Pages,      \* virtual pages callers of mapMemory pass
  Frames,     \* frames callers of mapMemory pass
  HeldLimit   \* bound: frames the rest of the kernel holds at a time

(* Memory maps are as PageFrame takes them, and a physical address has no   *)
(* more than the 52 bits an entry can hold.                                 *)
ASSUME MemoryMapAssumption ==
  \A map \in MemoryMaps :
    /\ ValidMap(map)
    /\ (getMemorySize(map) \div 8 + 1) * 8 <= EntryFrames

(* The first frame, which a null pointer points to, is not given away.      *)
ASSUME NullAssumption == LowPages > 0

(* Virtual addresses have 48 bits. *)
ASSUME PagesAssumption ==
  /\ Pages # {}
  /\ Pages \subseteq 0..(Fanout * Fanout * Fanout * Fanout - 1)

ASSUME ContentAssumption == Junk \subseteq Entry /\ Frames \subseteq Nat

VARIABLES
  pf,        \* the allocator
  ram,       \* the contents of every frame the bitmap covers
  pageTable, \* the global of pageTable.h, NoTable until initializePageTable
  held,      \* frames requested by the rest of the kernel, and not freed
  exhausted  \* TRUE once mapMemory or kernel_main was refused a frame

vars == <<pf, ram, pageTable, held, exhausted>>

NoTable == -1

allFrames(p) == 0..(p.size * 8 - 1)

(* A frame full of old data, as page-table entries. *)
junkFrame(entry) == [i \in Slots |-> entry]

Init ==
  /\ \E map \in MemoryMaps : pf = initializePageFrame(ZeroedAllocator, map, FALSE)
  /\ \E entry \in Junk : ram = [f \in allFrames(pf) |-> junkFrame(entry)]
  /\ pageTable = NoTable
  /\ held = {}
  /\ exhausted = FALSE

(* kernel_main: PML4 = requestPage(); memset(PML4, 0, 0x1000);              *)
(* initializePageTable(PML4).                                               *)
InitializePageTable ==
  /\ pageTable = NoTable
  /\ pf' = requestPage(pf)
  /\ pageTable' = requestedPage(pf)
  /\ ram' = memsetTable(ram, pageTable')
  /\ exhausted' = (exhausted \/ pageTable' = NULL)
  /\ UNCHANGED held

MapMemory(page, frame) ==
  LET after == mapMemory(pf, ram, pageTable, page, frame)
  IN  /\ pageTable # NoTable
      /\ pf' = after.pf
      /\ ram' = after.ram
      /\ exhausted' = (exhausted \/ after.refused)
      /\ UNCHANGED <<pageTable, held>>

(* Other kernel code takes a frame, if there is one, and fills it. *)
RequestPage(entry) ==
  /\ Cardinality(held) < HeldLimit
  /\ pf' = requestPage(pf)
  /\ held' = held \cup ({requestedPage(pf)} \ {NULL})
  /\ ram' = [f \in DOMAIN ram |-> IF f \in held' \ held THEN junkFrame(entry) ELSE ram[f]]
  /\ UNCHANGED <<pageTable, exhausted>>

(* It frees a frame it holds, with what it wrote there. *)
FreePage(frame) ==
  /\ frame \in held
  /\ pf' = freePages(pf, {frame})
  /\ held' = held \ {frame}
  /\ UNCHANGED <<ram, pageTable, exhausted>>

Next ==
  \/ InitializePageTable
  \/ \E page \in Pages, frame \in Frames : MapMemory(page, frame)
  \/ \E entry \in Junk : RequestPage(entry)
  \/ \E frame \in held : FreePage(frame)

Spec == Init /\ [][Next]_vars

-----------------------------------------------------------------------------
(* As long as no request was refused, the page tables form a tree of        *)
(* private frames: each table hangs in exactly one slot of one table of the *)
(* level above, it is taken in the bitmap, it is no one else's frame, and   *)
(* neither the null page nor the root hangs anywhere.  So no write to one   *)
(* entry, and no write of another owner, can show in two walks.             *)
TablesArePrivate ==
  pageTable # NoTable /\ ~exhausted =>
    LET all == links(ram, upperTables(ram, pageTable))
    IN  /\ \A k, l \in all : target(ram, k) = target(ram, l) => k = l
        /\ \A l \in all : /\ target(ram, l) \in pf.bits \ held
                          /\ target(ram, l) \notin {NULL, pageTable}
        /\ pageTable \in pf.bits \ held

(* The address space the processor would see after loading CR3. *)
mapping ==
  [page \in Pages |->
     IF pageTable = NoTable THEN Unmapped ELSE translate(ram, pageTable, page)]

(* Until memory runs out mapMemory does what its name says, to the page it  *)
(* is given and to no other, whatever the frames it takes for its tables    *)
(* were used for before.  The call that is refused a frame builds tables in *)
(* frame 0, one on top of the other, and still spares the pages that were   *)
(* mapped.  Later calls walk through frame 0 and may write anywhere.        *)
AddressSpaceSpec == INSTANCE AddressSpace
  WITH Frames <- 0..(EntryFrames - 1), Nowhere <- Unmapped, intact <- ~exhausted

ImplementsAddressSpace == AddressSpaceSpec!Spec
=============================================================================
