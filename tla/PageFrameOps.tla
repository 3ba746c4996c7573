---------------------------- MODULE PageFrameOps ----------------------------
(***************************************************************************)
(* The operations of the physical page-frame allocator of the kernel       *)
(* (kernel/src/pageFrame.c over kernel/src/bitmap.c), as functions from    *)
(* one allocator state to the next.                                        *)
(*                                                                         *)
(* The C code works on addresses and bytes; here every address is divided  *)
(* by 4096, so a frame is the natural number address / 4096, and the three *)
(* uint64_t byte counters, which only ever move by 4096, count pages       *)
(* modulo Word = 2^64 / 4096.                                              *)
(*                                                                         *)
(* An allocator state is a record with the globals of pageFrame.c:         *)
(*   size      pageBitmap.size, the length of the bitmap in bytes          *)
(*   base      the frame pageBitmap.bits points to                         *)
(*   bits      the indexes of the bits that are 1.  Index 8 * size is the  *)
(*             first bit of the byte AFTER the buffer: both functions of   *)
(*             bitmap.c let it through (index > size * 8 is the test)      *)
(*   free, reserved, used   FREE_MEMORY, RESERVED_MEMORY, USED_MEMORY      *)
(*   next      pageBitmapIndex                                             *)
(***************************************************************************)
EXTENDS Integers, Sequences, FiniteSets, FiniteSetsExt

CONSTANTS
  Word,      \* frames in the 64-bit address space: 2^52
  PageSize,  \* bytes in a page: 4096
  LowPages   \* frames reservePages(0, 0x100) keeps from the allocator: 256

ASSUME WordAssumption == Word \in Nat \ {0}
ASSUME PageSizeAssumption == PageSize \in Nat \ {0}
ASSUME LowPagesAssumption == LowPages \in Nat

EfiConventionalMemory == 7

(* What requestPage returns when it finds no frame: the null pointer, which *)
(* is also the address of frame 0.                                          *)
NULL == 0

(* The frames the loops of reservePages, lockPages... visit: address + i *  *)
(* 4096 in uint64_t arithmetic, divided by 4096.                            *)
PageRun(start, count) == {(start + i) % Word : i \in 0..(count - 1)}

-----------------------------------------------------------------------------
(* kernel/src/bitmap.c                                                      *)

\* Variant: a bitmap without a bounds check.
AddressableAlways(pf, index) == index \in Nat

(* The bounds check of getBitmap and setBitmap. *)
Addressable(pf, index) == index <= pf.size * 8

getBitmap(pf, index) == Addressable(pf, index) /\ index \in pf.bits

\* Variant: reservePage and lockPage without their early return.
SettableTwice(pf, F) == {i \in F : Addressable(pf, i)}

(* The frames of F whose bit setBitmap turns on, and off.  The *Page        *)
(* functions return early when getBitmap says there is nothing to do.       *)
Settable(pf, F) == {i \in F : ~getBitmap(pf, i) /\ Addressable(pf, i)}
Clearable(pf, F) == {i \in F : getBitmap(pf, i)}

-----------------------------------------------------------------------------
(* kernel/src/pageFrame.c.  F is the set of frames the loop visits: the     *)
(* per-page functions are idempotent and touch only their own bit, so the   *)
(* order of the loop does not show in the result.                           *)

reservePages(pf, F) ==
  LET S == Settable(pf, F)
      n == Cardinality(S)
  IN  [pf EXCEPT !.bits = @ \cup S,
                 !.free = (@ - n) % Word,
                 !.reserved = (@ + n) % Word]

\* Variant: lockPage books the page as reserved.
lockPagesAsReserved(pf, F) ==
  LET S == Settable(pf, F)
      n == Cardinality(S)
  IN  [pf EXCEPT !.bits = @ \cup S, !.free = (@ - n) % Word, !.reserved = (@ + n) % Word]

lockPages(pf, F) ==
  LET S == Settable(pf, F)
      n == Cardinality(S)
  IN  [pf EXCEPT !.bits = @ \cup S,
                 !.free = (@ - n) % Word,
                 !.used = (@ + n) % Word]

(* Clearing a bit below pageBitmapIndex pulls the hint back to it.          *)
unreservePages(pf, F) ==
  LET C == Clearable(pf, F)
      n == Cardinality(C)
  IN  [pf EXCEPT !.bits = @ \ C,
                 !.free = (@ + n) % Word,
                 !.reserved = (@ - n) % Word,
                 !.next = Min({@} \cup C)]

\* Variant: freePage without the last two lines.
freePagesKeepingHint(pf, F) ==
  LET C == Clearable(pf, F)
      n == Cardinality(C)
  IN  [pf EXCEPT !.bits = @ \ C, !.free = (@ + n) % Word, !.used = (@ - n) % Word]

freePages(pf, F) ==
  LET C == Clearable(pf, F)
      n == Cardinality(C)
  IN  [pf EXCEPT !.bits = @ \ C,
                 !.free = (@ + n) % Word,
                 !.used = (@ - n) % Word,
                 !.next = Min({@} \cup C)]

\* Variant: the scan starts after the frame handed out last.
CandidatesAfterHint(pf) == {i \in (pf.next + 1)..(pf.size * 8 - 1) : ~getBitmap(pf, i)}

(* The scan of requestPage: clear bits from pageBitmapIndex on.  Its loop   *)
(* condition is index < size * 8, one stricter than the check of bitmap.c.  *)
Candidates(pf) == {i \in pf.next..(pf.size * 8 - 1) : ~getBitmap(pf, i)}

(* The state requestPage leaves behind, and the page it returns.            *)
requestPage(pf) ==
  IF Candidates(pf) = {}
    THEN [pf EXCEPT !.next = IF @ < pf.size * 8 THEN pf.size * 8 ELSE @]
    ELSE LET i == Min(Candidates(pf))
         IN  [lockPages(pf, {i}) EXCEPT !.next = i]

requestedPage(pf) ==
  IF Candidates(pf) = {} THEN NULL ELSE Min(Candidates(pf))

-----------------------------------------------------------------------------
(* The memory map: a sequence of descriptors [type, start, count] with      *)
(* start and count in frames.                                               *)

(* getMemorySize (kernel/src/memory.c), in pages: the sum of all counts, of *)
(* every type, and not the highest address.                                 *)
getMemorySize(map) ==
  LET count[i \in 0..Len(map)] == IF i = 0 THEN 0 ELSE count[i - 1] + map[i].count
  IN  count[Len(map)]

Conventional(map) == {i \in DOMAIN map : map[i].type = EfiConventionalMemory}

ConventionalFrames(map) ==
  UNION {PageRun(map[i].start, map[i].count) : i \in Conventional(map)}

(* The frame where the bitmap goes: the start of the first among the        *)
(* longest conventional segments, NULL if there is none.                    *)
largestFreeMemorySegment(map) ==
  LET longest == {i \in Conventional(map) :
                    /\ map[i].count > 0
                    /\ \A j \in Conventional(map) : map[j].count <= map[i].count}
  IN  IF longest = {} THEN NULL ELSE map[Min(longest)].start

(* initializeBitmap zeroes size bytes and not the byte after them: stray    *)
(* tells whether that byte's first bit happens to be 1.                     *)
initializeBitmap(pf, bytes, buffer, stray) ==
  [pf EXCEPT !.size = bytes,
             !.base = buffer,
             !.bits = IF stray THEN {bytes * 8} ELSE {}]

\* Variant: the last line forgotten, so the bitmap lies in free memory.
initializePageFrameBitmapFree(pf, map, stray) ==
  LET pages   == getMemorySize(map)
      empty   == initializeBitmap([pf EXCEPT !.free = pages], pages \div 8 + 1,
                                  largestFreeMemorySegment(map), stray)
      held    == reservePages(empty, PageRun(0, pages + 1))
      opened  == unreservePages(held, ConventionalFrames(map))
  IN  reservePages(opened, PageRun(0, LowPages))

initializePageFrame(pf, map, stray) ==
  LET pages   == getMemorySize(map)
      bytes   == pages \div 8 + 1
      empty   == initializeBitmap([pf EXCEPT !.free = pages], bytes,
                                  largestFreeMemorySegment(map), stray)
      held    == reservePages(empty, PageRun(0, pages + 1))
      opened  == unreservePages(held, ConventionalFrames(map))
      lowHeld == reservePages(opened, PageRun(0, LowPages))
  IN  lockPages(lowHeld, PageRun(lowHeld.base, bytes \div PageSize + 1))

(* UEFI gives page-aligned segments inside the address space, fewer pages   *)
(* than the address space has, and memory enough for the bitmap.            *)
ValidMap(map) ==
  /\ map \in Seq([type : Nat, start : 0..(Word - 1), count : Nat])
  /\ getMemorySize(map) \in 0..(Word - 1)
  /\ (getMemorySize(map) \div 8 + 1) * 8 < Word

(* The globals before initializePageFrame: zero-initialised data.           *)
ZeroedAllocator ==
  [size |-> 0, base |-> NULL, bits |-> {}, free |-> 0, reserved |-> 0,
   used |-> 0, next |-> 0]
=============================================================================
