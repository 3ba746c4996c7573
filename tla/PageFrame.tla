------------------------------ MODULE PageFrame ------------------------------
(***************************************************************************)
(* The page-frame allocator as the rest of the kernel sees it: kernel_main *)
(* hands over the memory map, initialises the allocator, and from then on  *)
(* any kernel code may call reservePages, unreservePages, lockPages,       *)
(* freePages and requestPage (kernel/include/pageFrame.h) in any order and *)
(* with any argument.  The kernel has one thread and no interrupt handler  *)
(* calls the allocator, so a call is one step.                             *)
(***************************************************************************)
EXTENDS PageFrameOps

CONSTANTS
  MemoryMaps, \* the memory maps the firmware may hand over
  Calls       \* the <<start, count>> arguments callers may pass

ASSUME MemoryMapAssumption == \A map \in MemoryMaps : ValidMap(map)

ASSUME CallsAssumption == Calls \subseteq (0..(Word - 1)) \X Nat

VARIABLES
  memoryMapInfo, \* the memory map, << >> until initializeMemory
  pf,            \* the allocator's globals
  stray,         \* 1 if the byte after the bitmap held a 1 bit where index
                 \* 8 * size lands when the allocator was initialised, else 0
  page           \* what the last call returned, NoCall if it returns nothing

vars == <<memoryMapInfo, pf, stray, page>>

NoCall == -1

Init ==
  /\ memoryMapInfo = << >>
  /\ pf = ZeroedAllocator
  /\ stray = 0
  /\ page = NoCall

Ready == pf.size > 0

(* memory.c: initializeMemory stores the pointer kernel_main gives it. *)
InitializeMemory(map) ==
  /\ memoryMapInfo = << >>
  /\ memoryMapInfo' = map
  /\ UNCHANGED <<pf, stray, page>>

(* The bitmap goes into memory nobody has cleared: whether the byte after   *)
(* it starts with a 1 is up to its last owner.                              *)
InitializePageFrame(g) ==
  /\ memoryMapInfo # << >>
  /\ ~Ready
  /\ pf' = initializePageFrame(pf, memoryMapInfo, g = 1)
  /\ stray' = g
  /\ page' = NoCall
  /\ UNCHANGED memoryMapInfo

(* A call that leaves everything but the allocator alone. *)
Call(next) ==
  /\ Ready
  /\ pf' = next
  /\ page' = NoCall
  /\ UNCHANGED <<memoryMapInfo, stray>>

ReservePages(start, count)   == Call(reservePages(pf, PageRun(start, count)))
UnreservePages(start, count) == Call(unreservePages(pf, PageRun(start, count)))
LockPages(start, count)      == Call(lockPages(pf, PageRun(start, count)))
FreePages(start, count)      == Call(freePages(pf, PageRun(start, count)))

RequestPage ==
  /\ Ready
  /\ pf' = requestPage(pf)
  /\ page' = requestedPage(pf)
  /\ UNCHANGED <<memoryMapInfo, stray>>

Next ==
  \/ \E map \in MemoryMaps : InitializeMemory(map)
  \/ \E g \in 0..1 : InitializePageFrame(g)
  \/ \E c \in Calls : ReservePages(c[1], c[2])
  \/ \E c \in Calls : UnreservePages(c[1], c[2])
  \/ \E c \in Calls : LockPages(c[1], c[2])
  \/ \E c \in Calls : FreePages(c[1], c[2])
  \/ RequestPage

Spec == Init /\ [][Next]_vars

-----------------------------------------------------------------------------
(* Every variable holds a value of its type, and the hint stays inside the  *)
(* bitmap.                                                                  *)
TypeOK ==
  /\ memoryMapInfo \in MemoryMaps \cup {<< >>}
  /\ pf \in [size : Nat, base : Nat, bits : SUBSET Nat, free : 0..(Word - 1),
             reserved : 0..(Word - 1), used : 0..(Word - 1), next : Nat]
  /\ pf.bits \subseteq 0..(pf.size * 8)
  /\ pf.next <= pf.size * 8
  /\ stray \in 0..1
  /\ page \in {NoCall} \cup Nat

(* The free-frame hint of pageFrame.c is sound: every frame below           *)
(* pageBitmapIndex is held, so requestPage may start its scan there and     *)
(* still not miss a frame that was given back behind it.                    *)
HintSound == \A i \in 0..(pf.next - 1) : i \in pf.bits

(* The three counters of pageFrame.c follow the bitmap exactly, in 64-bit   *)
(* arithmetic and through every mix of reserve, unreserve, lock and free:   *)
(* reserved and used memory add up to the bits set since initialisation,    *)
(* and free memory is what is left of the memory size.  So getFreeRAM and   *)
(* the number of clear bits differ by the constant 8 * size - memory size,  *)
(* and FREE_MEMORY wraps below zero when the last frames are handed out.    *)
CountersMatchBitmap ==
  Ready =>
    LET held == Cardinality(pf.bits)
    IN  /\ (pf.reserved + pf.used + stray) % Word = held % Word
        /\ (pf.free + held) % Word = (getMemorySize(memoryMapInfo) + stray) % Word

(* The allocator keeps the promise of FrameAllocator: requestPage returns a *)
(* frame nobody held and which is held afterwards, and returns NULL only    *)
(* when no bit of the bitmap is clear.                                      *)
clearFrames == {i \in 0..(pf.size * 8 - 1) : i \notin pf.bits}

Allocator == INSTANCE FrameAllocator
  WITH Frames <- 0..(Word - 1), Refused <- NULL, NoRequest <- NoCall,
       available <- clearFrames, answer <- page

ImplementsFrameAllocator == Allocator!Spec

(* bitmap.h says size is the length of the bitmap in bytes, so the buffer   *)
(* ends before the bit of index 8 * size; no allocator call may change it.  *)
WritesStayInBitmap ==
  [][Ready => (pf.size * 8 \in pf'.bits <=> pf.size * 8 \in pf.bits)]_vars
=============================================================================
