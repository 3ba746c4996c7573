---------------------------- MODULE LoaderProofs ----------------------------
(***************************************************************************)
(* Proofs about Loader: what loadKernelImage brings into memory, what it   *)
(* leaves behind and why it fails, for every file, every size of a page,   *)
(* every memory and every service that fails.  And about the texts that    *)
(* loader and kernel print, which share the lemmas about sequences and     *)
(* digits: in KernelFormat, that a message of the kernel reads as it is    *)
(* meant, for every width of an int, every length of the buffer and all    *)
(* formats and arguments; in FirmwareText, that a message of the loader is *)
(* what the comment of its library says of the format, wherever the        *)
(* library keeps that comment.                                             *)
(***************************************************************************)
EXTENDS Loader, KernelFormat, FirmwareText, SequenceTheorems, FiniteSetTheorems, TLAPS

-----------------------------------------------------------------------------
(* Pages.                                                                   *)
LEMMA QuotientOfPage ==
  ASSUME NEW n \in Nat
  PROVE  /\ n \div PageSize \in Nat /\ n % PageSize \in 0..(PageSize - 1)
         /\ n = (n \div PageSize) * PageSize + (n % PageSize)
<1>1. n \div PageSize \in Nat
  BY LoaderAssumption
<1>2. n % PageSize \in 0..(PageSize - 1)
  BY LoaderAssumption
<1>3. n = (n \div PageSize) * PageSize + (n % PageSize)
  BY LoaderAssumption
<1> QED
  BY <1>1, <1>2, <1>3

LEMMA Factor ==
  ASSUME NEW a \in Int, NEW b \in Int, a < b
  PROVE  a * PageSize + PageSize <= b * PageSize /\ a * PageSize \in Int /\ b * PageSize \in Int
<1>1. PICK d \in Nat : b = (a + 1) + d
  <2>1. b - (a + 1) \in Nat /\ b = (a + 1) + (b - (a + 1))
    OBVIOUS
  <2> QED
    BY <2>1
<1>2. b * PageSize = (a * PageSize + PageSize) + d * PageSize
  BY <1>1, LoaderAssumption
<1>3. d * PageSize >= 0 /\ d * PageSize \in Int /\ a * PageSize \in Int /\ b * PageSize \in Int
  BY LoaderAssumption
<1> QED
  BY <1>2, <1>3, LoaderAssumption

(* Where a number lies determines its quotient.                             *)
LEMMA QuotientUnique ==
  ASSUME NEW n \in Nat, NEW q \in Int, NEW r \in 0..(PageSize - 1), n = q * PageSize + r
  PROVE  n \div PageSize = q
<1> DEFINE d == n \div PageSize
<1>1. d \in Int /\ n % PageSize \in 0..(PageSize - 1) /\ n = d * PageSize + (n % PageSize)
  BY QuotientOfPage
<1> HIDE DEF d
<1>2. ~(d < q)
  <2> SUFFICES ASSUME d < q PROVE FALSE
    OBVIOUS
  <2>1. d * PageSize + PageSize <= q * PageSize /\ d * PageSize \in Int /\ q * PageSize \in Int
    BY <1>1, Factor
  <2> QED
    BY <1>1, <2>1, LoaderAssumption
<1>3. ~(q < d)
  <2> SUFFICES ASSUME q < d PROVE FALSE
    OBVIOUS
  <2>1. q * PageSize + PageSize <= d * PageSize /\ d * PageSize \in Int /\ q * PageSize \in Int
    BY <1>1, Factor
  <2> QED
    BY <1>1, <2>1, LoaderAssumption
<1> QED
  BY <1>1, <1>2, <1>3 DEF d

(* The bytes of a segment lie in its pages.                                 *)
LEMMA BytesInPages ==
  ASSUME NEW s \in Segments, s.paddr % PageSize = 0, NEW i \in 0..(s.memsz - 1)
  PROVE  s.paddr + i \in Nat /\ (s.paddr + i) \div PageSize \in pagesOf(s)
<1> DEFINE f == s.paddr \div PageSize
           q == i \div PageSize
           r == i % PageSize
           c == (s.memsz + PageSize - 1) \div PageSize
           last == (s.memsz + PageSize - 1) % PageSize
<1>1. s.paddr \in Nat /\ s.memsz \in Nat /\ i \in Nat /\ i < s.memsz
  BY LoaderAssumption DEF Segments
<1>2. f \in Nat /\ s.paddr = f * PageSize
  <2>1. f \in Nat /\ s.paddr = f * PageSize + (s.paddr % PageSize)
    BY <1>1, QuotientOfPage
  <2>2. f * PageSize \in Int
    BY <2>1, LoaderAssumption
  <2> QED
    BY <2>1, <2>2
<1>3. q \in Nat /\ r \in 0..(PageSize - 1) /\ i = q * PageSize + r
  BY <1>1, QuotientOfPage
<1>4. c \in Nat /\ last \in 0..(PageSize - 1) /\ s.memsz + PageSize - 1 = c * PageSize + last
  <2>1. s.memsz + PageSize - 1 \in Nat
    BY <1>1, LoaderAssumption
  <2> QED
    BY <2>1, QuotientOfPage
<1>5. pagesOf(s) = f..(f + c - 1)
  BY DEF pagesOf
<1> HIDE DEF f, q, r, c, last
<1>6. (f + q) * PageSize = f * PageSize + q * PageSize /\ f * PageSize \in Int /\ q * PageSize \in Int
  BY <1>2, <1>3, LoaderAssumption
<1>7. (s.paddr + i) \div PageSize = f + q
  <2>1. s.paddr + i = (f + q) * PageSize + r
    BY <1>2, <1>3, <1>6, LoaderAssumption
  <2>2. s.paddr + i \in Nat /\ f + q \in Int
    BY <1>1, <1>2, <1>3
  <2> QED
    BY <1>3, <2>1, <2>2, QuotientUnique
<1>8. q < c
  <2> SUFFICES ASSUME ~(q < c) PROVE FALSE
    OBVIOUS
  <2>1. c * PageSize <= q * PageSize /\ c * PageSize \in Int
    <3>1. CASE c = q
      BY <1>4, <1>6, <3>1
    <3>2. CASE c < q
      <4>1. c * PageSize + PageSize <= q * PageSize /\ c * PageSize \in Int
        BY <1>3, <1>4, <3>2, Factor
      <4> QED
        BY <1>6, <4>1, LoaderAssumption
    <3> QED
      BY <1>3, <1>4, <3>1, <3>2
  <2> QED
    BY <1>1, <1>3, <1>4, <1>6, <2>1, LoaderAssumption
<1> QED
  BY <1>1, <1>2, <1>3, <1>4, <1>5, <1>7, <1>8

(* A page below Pages lies in memory with all its bytes.                    *)
LEMMA PagesInMemory ==
  ASSUME NEW a \in Nat, a \div PageSize < Pages
  PROVE  a \in Addresses
<1> DEFINE q == a \div PageSize
           r == a % PageSize
<1>1. q \in Nat /\ r \in 0..(PageSize - 1) /\ a = q * PageSize + r /\ q < Pages
  BY QuotientOfPage
<1> HIDE DEF q, r
<1>2. q * PageSize + PageSize <= Pages * PageSize /\ q * PageSize \in Int /\ Pages * PageSize \in Int
  BY <1>1, Factor, LoaderAssumption
<1>3. Pages * PageSize = PageSize * Pages
  BY LoaderAssumption
<1> QED
  BY <1>1, <1>2, <1>3, LoaderAssumption DEF Addresses

-----------------------------------------------------------------------------
(* The invariant.  Where the calls lie: before the loop over the program    *)
(* headers, in it, in loadSegment, and behind it.                           *)
Opening ==
  { "identitySetPosition", "identityAllocate", "identityRead", "validateELFIdentity",
    "identityFree", "headerSetPosition", "headerAllocate", "headerRead",
    "programHeadersSetPosition", "programHeadersAllocate", "programHeadersRead", "setEntry" }

Allocated == {"segmentAllocate", "segmentRead", "segmentCopy", "segmentFree", "zeroFill"}
InSegment == {"segmentSetPosition", "allocatePages"} \cup Allocated
Behind    == {"closeFile", "headerFree", "programHeadersFree", "return"}

Running == {"openFile", "programSegments"} \cup Opening \cup InSegment \cup Behind

(* What is held while the loader runs.                                      *)
Bookkeeping ==
  /\ pc \in Running \cup {"done", "crashed"}
  /\ pc \in Running =>
       /\ status = "none" /\ failed = FALSE
       /\ pools \subseteq {"identity", "header", "programHeaders", "segment"}
       /\ "identity" \in pools => pc \in {"identityRead", "validateELFIdentity", "identityFree"}
       /\ "header" \in pools =>
            pc \in Opening \cup InSegment \cup {"programSegments", "closeFile", "headerFree"}
       /\ "programHeaders" \in pools =>
            pc \in {"programHeadersRead", "setEntry", "programSegments"} \cup InSegment
                     \cup {"closeFile", "headerFree", "programHeadersFree"}
       /\ "segment" \in pools => pc \in {"segmentRead", "segmentCopy", "segmentFree"}
       /\ pc \in Behind \ {"closeFile"} => open = FALSE
  /\ pc = "crashed" => status = "none"
  /\ SuccessIsClean

(* The segments that are loaded, and those that have their pages.           *)
Finished == {n \in loadSegments : n < ph}
Placed   == Finished \cup (IF pc \in Allocated THEN {ph} ELSE {})

bytesRead(s) ==
  [i \in 1..s.filesz |-> IF s.offset + i <= Len(file.data) THEN file.data[s.offset + i] ELSE Old]

Progress ==
  /\ file \in Files /\ free \in FreePages
  /\ memory \in [Addresses -> Int]
  /\ ph \in 1..(Len(file.segments) + 1) /\ loaded \in Nat
  /\ pc \in {"openFile"} \cup Opening => ph = 1 /\ allocated = {}
  /\ pc \in InSegment => ph \in loadSegments
  /\ pc \in Behind => ph = Len(file.segments) + 1
  /\ pc \in {"programSegments"} \cup InSegment \cup Behind => entry = file.entry
  /\ loaded = 0 => Finished = {}
  /\ pc \in {"allocatePages", "segmentAllocate", "segmentRead"} => position = segment.offset
  /\ pc = "segmentCopy" => buffer = bytesRead(segment)
  /\ pc \in Allocated \ {"zeroFill"} => segment.filesz > 0

(* The allocated pages are those of the segments, side by side.             *)
Placement ==
  pc \in Running =>
    /\ allocated \subseteq free
    /\ \A n \in Placed : /\ file.segments[n].paddr % PageSize = 0
                         /\ pagesOf(file.segments[n]) \subseteq allocated
    /\ \A m, n \in Placed :
         m # n => pagesOf(file.segments[m]) \cap pagesOf(file.segments[n]) = {}
    /\ \A page \in allocated : \E n \in Placed : page \in pagesOf(file.segments[n])

intact == wellFormed /\ complete

(* Memory shows the first bytes of a segment.                               *)
Shows(s, bytes) ==
  \A i \in 0..(bytes - 1) :
    memory[s.paddr + i] = IF i < s.filesz THEN file.data[s.offset + i + 1] ELSE 0

Contents ==
  intact /\ pc \in Running =>
    /\ \A n \in Finished : Shows(file.segments[n], file.segments[n].memsz)
    /\ pc \in {"segmentFree", "zeroFill"} => Shows(segment, segment.filesz)

IInv ==
  /\ Bookkeeping /\ Progress /\ Placement /\ Contents
  /\ ErrorHasCause /\ LoadedFaithfully

-----------------------------------------------------------------------------
LEMMA FileFacts ==
  ASSUME file \in Files
  PROVE  /\ file.segments \in Seq(Segments) /\ file.data \in Seq(Nat) /\ file.entry \in Nat
         /\ DOMAIN file.segments = 1..Len(file.segments) /\ Len(file.segments) \in Nat
         /\ loadSegments \subseteq 1..Len(file.segments)
         /\ \A n \in loadSegments : file.segments[n] \in Segments
<1>1. file.segments \in Seq(Segments) /\ file.data \in Seq(Nat) /\ file.entry \in Nat
  BY FilesAssumption
<1>2. DOMAIN file.segments = 1..Len(file.segments) /\ Len(file.segments) \in Nat
  BY <1>1
<1>3. \A n \in 1..Len(file.segments) : file.segments[n] \in Segments
  BY <1>1
<1> QED
  BY <1>1, <1>2, <1>3 DEF loadSegments

LEMMA InitIInv == Init => IInv
<1> SUFFICES ASSUME Init PROVE IInv
  OBVIOUS
<1>1. Bookkeeping
  BY DEF Init, Bookkeeping, Running, Opening, Allocated, InSegment, Behind, SuccessIsClean
<1>2. Len(file.segments) \in Nat /\ loadSegments \subseteq 1..Len(file.segments)
  BY FileFacts DEF Init
<1>3. Finished = {}
  <2>1. \A n \in loadSegments : ~(n < 1)
    BY <1>2
  <2> QED
    BY <2>1 DEF Init, Finished
<1>4. Placed = {}
  BY <1>3 DEF Init, Placed, Allocated
<1>5. Progress
  BY <1>2, <1>3 DEF Init, Progress, Opening, Allocated, InSegment, Behind, Old
<1>6. Placement
  BY <1>4 DEF Init, Placement
<1>7. Contents
  BY <1>3 DEF Init, Contents
<1> QED
  BY <1>1, <1>5, <1>6, <1>7 DEF Init, IInv, ErrorHasCause, LoadedFaithfully

(* What is held, call by call.                                              *)
LEMMA BookkeepingStep == ASSUME Bookkeeping, [Next]_vars PROVE Bookkeeping'
<1> USE DEF Bookkeeping, Running, Opening, Allocated, InSegment, Behind, SuccessIsClean
<1>1. CASE UNCHANGED vars
  BY <1>1 DEF vars
<1>2. CASE ServiceFails
  BY <1>2 DEF ServiceFails, return, unchangedData, FirmwareCalls
<1>3. CASE OpenFile
  BY <1>3 DEF OpenFile, goto
<1>4. CASE ReadELFIdentity
  BY <1>4 DEF ReadELFIdentity, setPosition, allocatePool, readWhole, goto, unchangedData
<1>5. CASE ValidateELFIdentity
  BY <1>5 DEF ValidateELFIdentity, goto, return, unchangedData
<1>6. CASE FreeIdentity
  BY <1>6 DEF FreeIdentity, freePool, goto
<1>7. CASE ReadELFFile
  BY <1>7 DEF ReadELFFile, setPosition, allocatePool, readWhole, goto, unchangedData
<1>8. CASE SetEntry
  BY <1>8 DEF SetEntry, goto, return
<1>9. CASE LoadProgramSegments
  BY <1>9 DEF LoadProgramSegments, goto, return
<1>10. CASE LoadSegment
  <2>1. CASE SetSegmentPosition
    BY <2>1 DEF SetSegmentPosition, setPosition, goto
  <2>2. CASE AllocateSegmentPages
    BY <2>2 DEF AllocateSegmentPages, goto, return
  <2>3. CASE allocatePool("segmentAllocate", "segment", "segmentRead")
    BY <2>3 DEF allocatePool, goto
  <2>4. CASE ReadSegment
    BY <2>4 DEF ReadSegment, goto
  <2>5. CASE CopySegment
    BY <2>5 DEF CopySegment, write, goto, return
  <2>6. CASE freePool("segmentFree", "segment", "zeroFill")
    BY <2>6 DEF freePool, goto
  <2>7. CASE ZeroFill
    BY <2>7 DEF ZeroFill, write, goto, return
  <2> QED
    BY <1>10, <2>1, <2>2, <2>3, <2>4, <2>5, <2>6, <2>7 DEF LoadSegment
<1>11. CASE CloseFile
  BY <1>11 DEF CloseFile, goto
<1>12. CASE FreeHeader
  BY <1>12 DEF FreeHeader, freePool, goto
<1>13. CASE FreeProgramHeaders
  BY <1>13 DEF FreeProgramHeaders, freePool, goto
<1>14. CASE Return
  BY <1>14 DEF Return, return, unchangedData
<1> QED
  BY <1>1, <1>2, <1>3, <1>4, <1>5, <1>6, <1>7, <1>8, <1>9, <1>10, <1>11, <1>12, <1>13, <1>14
  DEF Next, LoadKernelImage

-----------------------------------------------------------------------------
(* Where the bytes of a segment lie that has its pages. *)
LEMMA Located ==
  ASSUME Progress, Placement, pc \in Running, NEW n \in Placed,
         file.segments[n] \in Segments, NEW i \in 0..(file.segments[n].memsz - 1)
  PROVE  /\ file.segments[n].paddr + i \in Addresses
         /\ (file.segments[n].paddr + i) \div PageSize \in pagesOf(file.segments[n])
         /\ (file.segments[n].paddr + i) \div PageSize \in allocated
<1> DEFINE s == file.segments[n]
           a == s.paddr + i
<1>1. s.paddr % PageSize = 0 /\ pagesOf(s) \subseteq allocated /\ allocated \subseteq free
  BY DEF Placement
<1>2. a \in Nat /\ a \div PageSize \in pagesOf(s)
  BY <1>1, BytesInPages
<1>3. free \subseteq 1..(Pages - 1)
  BY LoaderAssumption DEF Progress
<1>4. a \div PageSize < Pages
  BY <1>1, <1>2, <1>3, LoaderAssumption
<1> QED
  BY <1>1, <1>2, <1>4, PagesInMemory

LEMMA PlacedFacts ==
  ASSUME Progress
  PROVE  /\ \A n \in Finished : n \in loadSegments /\ n # ph /\ n \in Placed
         /\ pc \in Allocated => ph \in Placed
         /\ \A n \in Placed : n \in loadSegments /\ file.segments[n] \in Segments
<1>1. /\ ph \in 1..(Len(file.segments) + 1)
      /\ pc \in Allocated => ph \in loadSegments
      /\ \A n \in loadSegments : file.segments[n] \in Segments /\ n \in 1..Len(file.segments)
      /\ Len(file.segments) \in Nat
  BY FileFacts DEF Progress, InSegment
<1>2. \A n \in Finished : n \in loadSegments /\ n # ph /\ n \in Placed
  BY <1>1 DEF Finished, Placed
<1>3. \A n \in Placed : n \in loadSegments
  BY <1>1, <1>2 DEF Placed
<1> QED
  BY <1>1, <1>2, <1>3 DEF Placed

(* A write into the segment that is being loaded reaches only its pages,    *)
(* and hence none of a segment loaded before.                               *)
LEMMA WrittenBytes ==
  ASSUME Progress, Placement, pc \in Allocated,
         NEW start \in Nat, NEW bytes, NEW count \in Nat, DOMAIN bytes = 1..count,
         segment.paddr <= start, start + count <= segment.paddr + segment.memsz,
         memory' = [a \in Addresses |->
                      IF a - start + 1 \in DOMAIN bytes THEN bytes[a - start + 1] ELSE memory[a]]
  PROVE  /\ \A n \in Finished : \A i \in 0..(file.segments[n].memsz - 1) :
              memory'[file.segments[n].paddr + i] = memory[file.segments[n].paddr + i]
         /\ \A i \in 0..(segment.memsz - 1) :
              memory'[segment.paddr + i] =
                IF segment.paddr + i - start + 1 \in 1..count
                  THEN bytes[segment.paddr + i - start + 1] ELSE memory[segment.paddr + i]
         /\ \A a \in Addresses : memory'[a] # memory[a] => a \div PageSize \in allocated
         /\ count > 0 => start + count <= PageSize * Pages
<1>1. /\ segment \in Segments /\ ph \in Placed /\ pc \in Running
      /\ segment.paddr \in Nat /\ segment.memsz \in Nat
  BY PlacedFacts, LoaderAssumption DEF segment, Running, InSegment, Segments
<1>2. ASSUME NEW i \in 0..(segment.memsz - 1)
      PROVE  /\ segment.paddr + i \in Addresses
             /\ (segment.paddr + i) \div PageSize \in pagesOf(segment)
             /\ (segment.paddr + i) \div PageSize \in allocated
  BY <1>1, Located DEF segment
<1>3. ASSUME NEW a \in Addresses, a - start + 1 \in 1..count
      PROVE  a \div PageSize \in pagesOf(segment) /\ a \div PageSize \in allocated
  <2>1. a \in Int /\ a - segment.paddr \in 0..(segment.memsz - 1)
    BY <1>1, <1>3 DEF Addresses
  <2>2. segment.paddr + (a - segment.paddr) = a
    BY <1>1, <2>1
  <2> QED
    BY <1>2, <2>1, <2>2
<1>4. ASSUME NEW n \in Finished, NEW i \in 0..(file.segments[n].memsz - 1)
      PROVE  memory'[file.segments[n].paddr + i] = memory[file.segments[n].paddr + i]
  <2>1. n \in Placed /\ n # ph /\ file.segments[n] \in Segments
    BY PlacedFacts
  <2>2. /\ file.segments[n].paddr + i \in Addresses
        /\ (file.segments[n].paddr + i) \div PageSize \in pagesOf(file.segments[n])
    BY <1>1, <2>1, Located
  <2>3. pagesOf(file.segments[n]) \cap pagesOf(segment) = {}
    BY <1>1, <2>1 DEF Placement, segment
  <2>4. PICK a \in Addresses : a = file.segments[n].paddr + i
    BY <2>2
  <2>5. a - start + 1 \notin 1..count
    BY <1>3, <2>2, <2>3, <2>4
  <2>6. memory'[a] = memory[a]
    BY <2>5
  <2> QED
    BY <2>4, <2>6
<1>5. ASSUME NEW i \in 0..(segment.memsz - 1)
      PROVE  memory'[segment.paddr + i] =
               IF segment.paddr + i - start + 1 \in 1..count
                 THEN bytes[segment.paddr + i - start + 1] ELSE memory[segment.paddr + i]
  <2>1. PICK a \in Addresses : a = segment.paddr + i
    BY <1>2
  <2>2. memory'[a] = IF a - start + 1 \in 1..count THEN bytes[a - start + 1] ELSE memory[a]
    OBVIOUS
  <2>3. segment.paddr + i - start + 1 = a - start + 1
    BY <1>1, <2>1
  <2> QED
    BY <2>1, <2>2, <2>3, Zenon
<1>6. ASSUME NEW a \in Addresses, memory'[a] # memory[a]
      PROVE  a \div PageSize \in allocated
  BY <1>3, <1>6
<1>7. ASSUME count > 0 PROVE start + count <= PageSize * Pages
  <2>1. start + count - 1 - segment.paddr \in 0..(segment.memsz - 1)
    BY <1>1, <1>7
  <2>2. segment.paddr + (start + count - 1 - segment.paddr) = start + count - 1
    BY <1>1
  <2>3. start + count - 1 \in Addresses
    BY <1>2, <2>1, <2>2
  <2>4. PageSize * Pages \in Int
    BY LoaderAssumption
  <2> QED
    BY <2>3, <2>4 DEF Addresses
<1> QED
  BY <1>4, <1>5, <1>6, <1>7

-----------------------------------------------------------------------------
(* The steps.  The loader stops, with whatever it has written. *)
LEMMA Stopped ==
  ASSUME Progress, pc' \in {"done", "crashed"}, file' = file, free' = free,
         memory' \in [Addresses -> Int], ph' \in 1..(Len(file.segments) + 1), loaded' \in Nat,
         loaded' = 0 => ph' = ph /\ loaded = 0
  PROVE  Progress' /\ Placement' /\ Contents'
<1>1. pc' \notin Running /\ pc' \notin {"openFile"} \cup Opening
      /\ pc' \notin {"programSegments"} \cup InSegment \cup Behind
      /\ pc' \notin {"allocatePages", "segmentAllocate", "segmentRead"} /\ pc' # "segmentCopy"
      /\ pc' \notin Allocated \ {"zeroFill"}
  BY DEF Running, Opening, Allocated, InSegment, Behind
<1>2. Placement' /\ Contents'
  BY <1>1 DEF Placement, Contents
<1>3. loaded' = 0 => Finished' = {}
  BY DEF Progress, Finished, loadSegments
<1> QED
  BY <1>1, <1>2, <1>3 DEF Progress

(* A call that allocates no page and writes nothing.                        *)
LEMMA Moved ==
  ASSUME Placement, Contents, pc \in Running, pc' \in Running,
         UNCHANGED <<file, memory, free, allocated, ph>>,
         pc \in Allocated <=> pc' \in Allocated,
         pc' \in {"segmentFree", "zeroFill"} => pc \in {"segmentFree", "zeroFill"}
  PROVE  Finished' = Finished /\ loadSegments' = loadSegments /\ Placement' /\ Contents'
<1>1. Finished' = Finished /\ loadSegments' = loadSegments
  BY DEF Finished, loadSegments
<1>2. Placed' = Placed
  BY <1>1 DEF Placed
<1>3. Placement'
  BY <1>2 DEF Placement, pagesOf
<1>4. intact' <=> intact
  BY <1>1 DEF intact, wellFormed, complete
<1>5. Contents'
  BY <1>1, <1>4 DEF Contents, Shows, segment
<1> QED
  BY <1>1, <1>3, <1>5

LEMMA OpeningStep ==
  ASSUME Progress, Placement, Contents, pc \in {"openFile"} \cup Opening, pc' \in Opening,
         UNCHANGED <<file, memory, free, allocated, ph, loaded>>
  PROVE  Progress' /\ Placement' /\ Contents'
<1>1. /\ pc \in Running /\ pc' \in Running /\ pc \notin Allocated /\ pc' \notin Allocated
      /\ pc' \notin {"segmentFree", "zeroFill"}
      /\ pc' \notin {"programSegments"} \cup InSegment \cup Behind
      /\ pc' \notin {"allocatePages", "segmentAllocate", "segmentRead"} /\ pc' # "segmentCopy"
  BY DEF Running, Opening, Allocated, InSegment, Behind
<1>2. Finished' = Finished /\ Placement' /\ Contents'
  BY <1>1, Moved
<1> QED
  BY <1>1, <1>2 DEF Progress

LEMMA ClosingStep ==
  ASSUME Progress, Placement, Contents, pc \in Behind, pc' \in Behind,
         UNCHANGED <<file, memory, free, allocated, entry, ph, loaded>>
  PROVE  Progress' /\ Placement' /\ Contents'
<1>1. /\ pc \in Running /\ pc' \in Running /\ pc \notin Allocated /\ pc' \notin Allocated
      /\ pc' \notin {"segmentFree", "zeroFill"} /\ pc' \notin {"openFile"} \cup Opening
      /\ pc' \notin InSegment
      /\ pc' \notin {"allocatePages", "segmentAllocate", "segmentRead"} /\ pc' # "segmentCopy"
  BY DEF Running, Opening, Allocated, InSegment, Behind
<1>2. Finished' = Finished /\ Placement' /\ Contents'
  BY <1>1, Moved
<1> QED
  BY <1>1, <1>2 DEF Progress

(* The first call of loadKernelImage that writes to its caller.             *)
LEMMA SetEntryStep ==
  ASSUME Progress, Placement, Contents, SetEntry
  PROVE  Progress' /\ Placement' /\ Contents'
<1>1. UNCHANGED <<file, memory, free, allocated, ph, loaded>> /\ entry' = file.entry
  BY DEF SetEntry
<1>2. CASE pc' = "done"
  <2>1. /\ file' = file /\ free' = free /\ ph' = ph /\ loaded' = loaded /\ memory' = memory
        /\ memory \in [Addresses -> Int] /\ ph \in 1..(Len(file.segments) + 1) /\ loaded \in Nat
    BY <1>1 DEF Progress
  <2> QED
    BY <1>2, <2>1, Stopped
<1>3. CASE pc' = "programSegments"
  <2>1. /\ pc \in Running /\ pc' \in Running /\ pc \notin Allocated /\ pc' \notin Allocated
        /\ pc' \notin {"segmentFree", "zeroFill"} /\ pc' \notin {"openFile"} \cup Opening
        /\ pc' \notin InSegment /\ pc' \notin Behind
        /\ pc' \notin {"allocatePages", "segmentAllocate", "segmentRead"} /\ pc' # "segmentCopy"
    BY <1>3 DEF SetEntry, Running, Opening, Allocated, InSegment, Behind
  <2>2. Finished' = Finished /\ Placement' /\ Contents'
    BY <1>1, <2>1, Moved
  <2> QED
    BY <1>1, <2>1, <2>2 DEF Progress
<1> QED
  BY <1>2, <1>3 DEF SetEntry, return, goto

(* The loop passes a header that is not loaded, meets one that is, or ends. *)
LEMMA LoopStep ==
  ASSUME Progress, Placement, Contents, LoadProgramSegments
  PROVE  Progress' /\ Placement' /\ Contents'
<1>1. /\ pc = "programSegments" /\ pc \in Running /\ pc \notin Allocated /\ entry = file.entry
      /\ file' = file /\ memory' = memory /\ free' = free /\ allocated' = allocated
      /\ entry' = entry /\ buffer' = buffer /\ position' = position
      /\ memory \in [Addresses -> Int] /\ ph \in 1..(Len(file.segments) + 1) /\ loaded \in Nat
      /\ file \in Files /\ free \in FreePages
      /\ Len(file.segments) \in Nat /\ loadSegments \subseteq 1..Len(file.segments)
      /\ loadSegments' = loadSegments
  BY FileFacts DEF LoadProgramSegments, Progress, Running, Opening, Allocated, InSegment, Behind,
                   loadSegments
<1>2. CASE ph <= Len(file.segments) /\ segment.type # PT_LOAD /\ ph' = ph + 1
           /\ goto("programSegments") /\ UNCHANGED loaded
  <2>1. ph \notin loadSegments
    BY <1>2 DEF segment, loadSegments
  <2>2. Finished' = Finished
    <3>1. \A n \in loadSegments : n < ph' <=> n < ph
      BY <1>1, <1>2, <2>1
    <3> QED
      BY <1>1, <3>1 DEF Finished
  <2>3. Placed = Finished /\ Placed' = Finished
    BY <1>1, <1>2, <2>2 DEF Placed, goto, Allocated
  <2>4. Placement'
    BY <1>1, <1>2, <2>3 DEF Placement, pagesOf, goto
  <2>5. intact' <=> intact
    BY <1>1 DEF intact, wellFormed, complete
  <2>6. Contents'
    BY <1>1, <1>2, <2>2, <2>5 DEF Contents, Shows, goto
  <2>7. Progress'
    <3>1. pc' = "programSegments" /\ loaded' = loaded /\ ph' \in 1..(Len(file.segments) + 1)
      BY <1>1, <1>2 DEF goto
    <3> QED
      BY <1>1, <2>2, <3>1 DEF Progress, Opening, Allocated, InSegment, Behind
  <2> QED
    BY <2>4, <2>6, <2>7
<1>3. CASE ph <= Len(file.segments) /\ segment.type = PT_LOAD
           /\ goto("segmentSetPosition") /\ UNCHANGED <<ph, loaded>>
  <2>1. pc' = "segmentSetPosition" /\ ph' = ph /\ loaded' = loaded
    BY <1>3 DEF goto
  <2>2. pc' \in Running /\ pc' \notin Allocated /\ pc' \notin {"segmentFree", "zeroFill"}
    BY <2>1 DEF Running, InSegment, Allocated
  <2>3. Finished' = Finished /\ Placement' /\ Contents'
    BY <1>1, <2>1, <2>2, Moved
  <2>4. ph \in loadSegments
    BY <1>1, <1>3 DEF segment, loadSegments
  <2> QED
    BY <1>1, <2>1, <2>3, <2>4 DEF Progress, Opening, Allocated, InSegment, Behind
<1>4. CASE ph > Len(file.segments) /\ goto("closeFile") /\ UNCHANGED <<ph, loaded>>
  <2>1. pc' = "closeFile" /\ ph' = ph /\ loaded' = loaded /\ ph = Len(file.segments) + 1
    BY <1>1, <1>4 DEF goto
  <2>2. pc' \in Running /\ pc' \notin Allocated /\ pc' \notin {"segmentFree", "zeroFill"}
    BY <2>1 DEF Running, Behind, Allocated
  <2>3. Finished' = Finished /\ Placement' /\ Contents'
    BY <1>1, <2>1, <2>2, Moved
  <2> QED
    BY <1>1, <2>1, <2>3 DEF Progress, Opening, Allocated, InSegment, Behind
<1>5. CASE return("error") /\ UNCHANGED <<ph, loaded>>
  BY <1>1, <1>5, Stopped DEF return
<1> QED
  BY <1>2, <1>3, <1>4, <1>5 DEF LoadProgramSegments

(* loadSegment, up to its pages. *)
LEMMA SetSegmentPositionStep ==
  ASSUME Progress, Placement, Contents, SetSegmentPosition
  PROVE  Progress' /\ Placement' /\ Contents'
<1>1. /\ pc = "segmentSetPosition" /\ pc' = "allocatePages" /\ position' = segment.offset
      /\ UNCHANGED <<file, memory, free, allocated, pools, open, buffer, entry, ph, loaded>>
  BY DEF SetSegmentPosition, setPosition, goto
<1>2. Finished' = Finished /\ loadSegments' = loadSegments /\ Placement' /\ Contents'
  <2>1. /\ pc \in Running /\ pc' \in Running /\ pc \notin Allocated /\ pc' \notin Allocated
        /\ pc' \notin {"segmentFree", "zeroFill"}
    BY <1>1 DEF Running, InSegment, Allocated
  <2> QED
    BY <1>1, <2>1, Moved
<1>3. ph \in loadSegments /\ entry = file.entry /\ segment' = segment
  BY <1>1 DEF Progress, InSegment, segment
<1> QED
  BY <1>1, <1>2, <1>3 DEF Progress, Opening, Allocated, InSegment, Behind

(* AllocatePages gives pages that no segment has. *)
LEMMA AllocateStep ==
  ASSUME Progress, Placement, Contents, AllocateSegmentPages
  PROVE  Progress' /\ Placement' /\ Contents'
<1>1. /\ pc = "allocatePages" /\ pc \in Running /\ pc \notin Allocated
      /\ file' = file /\ memory' = memory /\ free' = free /\ buffer' = buffer
      /\ entry' = entry /\ ph' = ph /\ loaded' = loaded /\ position' = position
      /\ memory \in [Addresses -> Int] /\ ph \in 1..(Len(file.segments) + 1) /\ loaded \in Nat
      /\ file \in Files /\ free \in FreePages
      /\ ph \in loadSegments /\ entry = file.entry /\ position = segment.offset
      /\ loaded = 0 => Finished = {}
  BY DEF AllocateSegmentPages, Progress, Running, Allocated, InSegment
<1>2. CASE /\ segment.paddr % PageSize = 0 /\ pagesOf(segment) \subseteq free \ allocated
           /\ allocated' = allocated \cup pagesOf(segment)
           /\ goto(IF segment.filesz > 0 THEN "segmentAllocate" ELSE "zeroFill")
  <2>1. /\ pc' \in {"segmentAllocate", "zeroFill"}
        /\ pc' = "zeroFill" <=> ~(segment.filesz > 0)
    BY <1>2 DEF goto
  <2>2. Finished' = Finished /\ loadSegments' = loadSegments /\ segment' = segment
    BY <1>1 DEF Finished, loadSegments, segment
  <2>3. Placed = Finished /\ Placed' = Finished \cup {ph} /\ pc' \in Running
    BY <1>1, <2>1, <2>2 DEF Placed, Allocated, Running, InSegment
  <2>4. /\ allocated \subseteq free
        /\ \A n \in Finished : /\ file.segments[n].paddr % PageSize = 0
                               /\ pagesOf(file.segments[n]) \subseteq allocated
        /\ \A m, n \in Finished :
             m # n => pagesOf(file.segments[m]) \cap pagesOf(file.segments[n]) = {}
        /\ \A page \in allocated : \E n \in Finished : page \in pagesOf(file.segments[n])
    BY <1>1, <2>3 DEF Placement
  <2>5. \A s : pagesOf(s)' = pagesOf(s)
    BY DEF pagesOf
  <2>6. allocated' \subseteq free'
    BY <1>1, <1>2, <2>4
  <2>7. \A n \in Placed' : /\ file.segments[n].paddr % PageSize = 0
                           /\ pagesOf(file.segments[n]) \subseteq allocated'
    BY <1>2, <2>3, <2>4 DEF segment
  <2>8. \A n \in Finished : pagesOf(file.segments[n]) \cap pagesOf(file.segments[ph]) = {}
    BY <1>2, <2>4 DEF segment
  <2>9. \A m, n \in Placed' :
          m # n => pagesOf(file.segments[m]) \cap pagesOf(file.segments[n]) = {}
    BY <2>3, <2>4, <2>8
  <2>10. \A page \in allocated' : \E n \in Placed' : page \in pagesOf(file.segments[n])
    BY <1>2, <2>3, <2>4 DEF segment
  <2>11. Placement'
    BY <1>1, <2>6, <2>7, <2>9, <2>10 DEF Placement, pagesOf
  <2>12. Contents'
    <3>1. intact' <=> intact
      BY <1>1, <2>2 DEF intact, wellFormed, complete
    <3>2. segment \in Segments
      BY <1>1, FileFacts DEF segment
    <3>3. pc' = "zeroFill" => 0..(segment.filesz - 1) = {}
      BY <2>1, <3>2, LoaderAssumption DEF Segments
    <3>4. pc' \in {"segmentFree", "zeroFill"} => Shows(segment, segment.filesz)'
      BY <1>1, <2>1, <2>2, <3>3 DEF Shows
    <3>5. intact => \A n \in Finished : Shows(file.segments[n], file.segments[n].memsz)
      BY <1>1 DEF Contents
    <3>6. \A n \in Finished : Shows(file.segments[n], file.segments[n].memsz)
                                => Shows(file.segments[n], file.segments[n].memsz)'
      BY <1>1 DEF Shows
    <3> QED
      BY <2>2, <3>1, <3>4, <3>5, <3>6 DEF Contents
  <2>13. Progress'
    BY <1>1, <2>1, <2>2 DEF Progress, Opening, Allocated, InSegment, Behind
  <2> QED
    BY <2>11, <2>12, <2>13
<1>3. CASE return("error")
  BY <1>1, <1>3, Stopped DEF return
<1> QED
  BY <1>2, <1>3 DEF AllocateSegmentPages

(* The buffer, before and after the copy.                                   *)
LEMMA BufferStep ==
  ASSUME Progress, Placement, Contents,
         \/ allocatePool("segmentAllocate", "segment", "segmentRead") \/ ReadSegment
         \/ freePool("segmentFree", "segment", "zeroFill")
  PROVE  Progress' /\ Placement' /\ Contents'
<1>1. /\ UNCHANGED <<file, memory, free, allocated, position, entry, ph, loaded>>
      /\ pc \in {"segmentAllocate", "segmentRead", "segmentFree"}
      /\ pc' \in {"segmentRead", "segmentCopy", "zeroFill"}
      /\ pc' = "zeroFill" => pc = "segmentFree"
      /\ pc' = "segmentRead" => pc = "segmentAllocate"
      /\ pc' = "segmentCopy" => pc = "segmentRead" /\ ReadSegment
  BY DEF allocatePool, ReadSegment, freePool, goto
<1>2. /\ pc \in Running /\ pc' \in Running /\ pc \in Allocated /\ pc' \in Allocated
      /\ pc' \in {"segmentFree", "zeroFill"} => pc \in {"segmentFree", "zeroFill"}
      /\ pc \in InSegment /\ pc' \in InSegment
      /\ pc' \notin {"openFile"} \cup Opening /\ pc' \notin Behind
      /\ pc' \in {"allocatePages", "segmentAllocate", "segmentRead"} => pc' = "segmentRead"
  BY <1>1 DEF Running, Opening, Allocated, InSegment, Behind
<1>3. Finished' = Finished /\ loadSegments' = loadSegments /\ Placement' /\ Contents'
  BY <1>1, <1>2, Moved
<1>4. ph \in loadSegments /\ entry = file.entry /\ segment' = segment
  BY <1>1, <1>2 DEF Progress, segment
<1>5. pc' = "segmentCopy" => buffer' = bytesRead(segment) /\ bytesRead(segment)' = bytesRead(segment)
  <2> SUFFICES ASSUME pc' = "segmentCopy"
               PROVE  buffer' = bytesRead(segment) /\ bytesRead(segment)' = bytesRead(segment)
    OBVIOUS
  <2>1. position = segment.offset
    BY <1>1 DEF Progress
  <2> QED
    BY <1>1, <1>4, <2>1 DEF ReadSegment, bytesRead
<1>6. pc' = "segmentRead" => position = segment.offset
  BY <1>1 DEF Progress
<1> QED
  BY <1>1, <1>2, <1>3, <1>4, <1>5, <1>6 DEF Progress

(* What a write leaves typed, and where it goes on.                         *)
LEMMA WriteFacts ==
  ASSUME NEW start \in Nat, NEW bytes, NEW count \in Nat, bytes \in [1..count -> Int], NEW next,
         memory \in [Addresses -> Int], write(start, bytes, next)
  PROVE  /\ memory' \in [Addresses -> Int]
         /\ memory' = [a \in Addresses |->
                        IF a - start + 1 \in DOMAIN bytes THEN bytes[a - start + 1] ELSE memory[a]]
         /\ start + count > PageSize * Pages => pc' = "crashed" /\ UNCHANGED <<status, failed>>
         /\ ~(start + count > PageSize * Pages) =>
              \/ goto(next)
              \/ return("error") /\ failed' = TRUE
<1>1. DOMAIN bytes = 1..count /\ Len(bytes) = count
  OBVIOUS
<1>2. memory' = [a \in Addresses |->
                  IF a - start + 1 \in DOMAIN bytes THEN bytes[a - start + 1] ELSE memory[a]]
  BY DEF write
<1>3. \A a \in Addresses :
        (IF a - start + 1 \in DOMAIN bytes THEN bytes[a - start + 1] ELSE memory[a]) \in Int
  BY <1>1
<1>4. memory' \in [Addresses -> Int]
  BY <1>2, <1>3
<1> QED
  BY <1>1, <1>2, <1>4 DEF write

LEMMA SegmentFacts ==
  ASSUME Progress, pc \in InSegment
  PROVE  /\ segment \in Segments /\ ph \in loadSegments /\ ph \in 1..Len(file.segments)
         /\ segment.paddr \in Nat /\ segment.offset \in Nat
         /\ segment.filesz \in Nat /\ segment.memsz \in Nat
         /\ segment.filesz < Word /\ segment.memsz < Word
         /\ wellFormed => segment.filesz <= segment.memsz
         /\ complete => segment.offset + segment.filesz <= Len(file.data)
         /\ bytesRead(segment) \in [1..segment.filesz -> Int]
<1>1. ph \in loadSegments
  BY DEF Progress
<1>2. segment \in Segments /\ ph \in 1..Len(file.segments) /\ file.data \in Seq(Nat)
  BY <1>1, FileFacts DEF Progress, segment
<1>3. /\ segment.paddr \in Nat /\ segment.offset \in Nat
      /\ segment.filesz \in Nat /\ segment.memsz \in Nat
      /\ segment.filesz < Word /\ segment.memsz < Word
  BY <1>2, LoaderAssumption DEF Segments
<1>4. bytesRead(segment) \in [1..segment.filesz -> Int]
  <2>1. ASSUME NEW i \in 1..segment.filesz
        PROVE  (IF segment.offset + i <= Len(file.data)
                  THEN file.data[segment.offset + i] ELSE Old) \in Int
    <3>1. CASE segment.offset + i <= Len(file.data)
      <4>1. segment.offset + i \in 1..Len(file.data)
        BY <1>2, <1>3, <3>1
      <4> QED
        BY <1>2, <3>1, <4>1
    <3>2. CASE ~(segment.offset + i <= Len(file.data))
      BY <3>2 DEF Old
    <3> QED
      BY <3>1, <3>2
  <2> QED
    BY <2>1 DEF bytesRead
<1> QED
  BY <1>1, <1>2, <1>3, <1>4 DEF wellFormed, complete, segment

(* CopyMem. *)
LEMMA CopyStep ==
  ASSUME Progress, Placement, Contents, CopySegment
  PROVE  Progress' /\ Placement' /\ Contents'
<1>1. /\ pc = "segmentCopy" /\ pc \in Running /\ pc \in Allocated /\ pc \in InSegment
      /\ file' = file /\ free' = free /\ allocated' = allocated /\ position' = position
      /\ buffer' = buffer /\ entry' = entry /\ ph' = ph /\ loaded' = loaded
      /\ buffer = bytesRead(segment) /\ entry = file.entry
      /\ memory \in [Addresses -> Int] /\ ph \in 1..(Len(file.segments) + 1) /\ loaded \in Nat
      /\ write(segment.paddr, buffer, "segmentFree")
  BY DEF CopySegment, Progress, Running, Allocated, InSegment
<1>2. /\ segment.paddr \in Nat /\ segment.filesz \in Nat /\ segment.memsz \in Nat
      /\ segment.offset \in Nat
      /\ buffer \in [1..segment.filesz -> Int] /\ ph \in loadSegments
      /\ wellFormed => segment.filesz <= segment.memsz
      /\ complete => segment.offset + segment.filesz <= Len(file.data)
  BY <1>1, SegmentFacts
<1>3. /\ memory' \in [Addresses -> Int]
      /\ memory' = [a \in Addresses |->
                     IF a - segment.paddr + 1 \in DOMAIN buffer
                       THEN buffer[a - segment.paddr + 1] ELSE memory[a]]
      /\ pc' = "crashed" \/ pc' = "segmentFree" \/ pc' = "done"
  <2>1. PICK start, count, bytes :
          start = segment.paddr /\ count = segment.filesz /\ bytes = buffer
    OBVIOUS
  <2>2. start \in Nat /\ count \in Nat /\ bytes \in [1..count -> Int]
    BY <1>2, <2>1
  <2>3. write(start, bytes, "segmentFree")
    BY <1>1, <2>1
  <2>4. /\ memory' \in [Addresses -> Int]
        /\ memory' = [a \in Addresses |->
                       IF a - start + 1 \in DOMAIN bytes THEN bytes[a - start + 1] ELSE memory[a]]
        /\ start + count > PageSize * Pages => pc' = "crashed"
        /\ ~(start + count > PageSize * Pages) =>
             goto("segmentFree") \/ (return("error") /\ failed' = TRUE)
    BY <1>1, <2>2, <2>3, WriteFacts
  <2>5. pc' = "crashed" \/ pc' = "segmentFree" \/ pc' = "done"
    BY <2>4 DEF goto, return
  <2> QED
    BY <2>1, <2>4, <2>5
<1>4. CASE pc' = "crashed" \/ pc' = "done"
  BY <1>1, <1>3, <1>4, Stopped
<1>5. CASE pc' = "segmentFree"
  <2>1. Finished' = Finished /\ loadSegments' = loadSegments /\ segment' = segment
    BY <1>1 DEF Finished, loadSegments, segment
  <2>2. Placed' = Placed /\ pc' \in Running
    BY <1>1, <1>5, <2>1 DEF Placed, Allocated, Running, InSegment
  <2>3. Placement'
    BY <1>1, <2>2 DEF Placement, pagesOf
  <2>4. Progress'
    BY <1>1, <1>2, <1>3, <1>5, <2>1 DEF Progress, Opening, Allocated, InSegment, Behind
  <2>5. intact' <=> intact
    BY <1>1, <2>1 DEF intact, wellFormed, complete
  <2>6. ASSUME intact
        PROVE  /\ \A n \in Finished : Shows(file.segments[n], file.segments[n].memsz)'
               /\ Shows(segment, segment.filesz)'
    <3>1. DOMAIN buffer = 1..segment.filesz /\ segment.filesz <= segment.memsz
      BY <1>2, <2>6 DEF intact
    <3>2. /\ \A n \in Finished : \A i \in 0..(file.segments[n].memsz - 1) :
               memory'[file.segments[n].paddr + i] = memory[file.segments[n].paddr + i]
          /\ \A i \in 0..(segment.memsz - 1) :
               memory'[segment.paddr + i] =
                 IF segment.paddr + i - segment.paddr + 1 \in 1..segment.filesz
                   THEN buffer[segment.paddr + i - segment.paddr + 1]
                   ELSE memory[segment.paddr + i]
      <4>1. PICK start, count, bytes :
              start = segment.paddr /\ count = segment.filesz /\ bytes = buffer
        OBVIOUS
      <4>2. /\ start \in Nat /\ count \in Nat /\ DOMAIN bytes = 1..count
            /\ segment.paddr <= start /\ start + count <= segment.paddr + segment.memsz
        BY <1>2, <3>1, <4>1
      <4>3. memory' = [a \in Addresses |->
                        IF a - start + 1 \in DOMAIN bytes THEN bytes[a - start + 1] ELSE memory[a]]
        BY <1>3, <4>1
      <4>4. /\ \A n \in Finished : \A i \in 0..(file.segments[n].memsz - 1) :
                 memory'[file.segments[n].paddr + i] = memory[file.segments[n].paddr + i]
            /\ \A i \in 0..(segment.memsz - 1) :
                 memory'[segment.paddr + i] =
                   IF segment.paddr + i - start + 1 \in 1..count
                     THEN bytes[segment.paddr + i - start + 1] ELSE memory[segment.paddr + i]
        BY <1>1, <4>2, <4>3, WrittenBytes
      <4> QED
        BY <4>1, <4>4
    <3>3. \A n \in Finished : Shows(file.segments[n], file.segments[n].memsz)
      BY <1>1, <2>6 DEF Contents
    <3>4. ASSUME NEW i \in 0..(segment.filesz - 1)
          PROVE  memory'[segment.paddr + i] = file.data[segment.offset + i + 1]
      <4>1. segment.paddr + i - segment.paddr + 1 = i + 1 /\ i + 1 \in 1..segment.filesz
            /\ i \in 0..(segment.memsz - 1)
        BY <1>2, <3>1
      <4>2. memory'[segment.paddr + i] = buffer[i + 1]
        BY <3>2, <4>1
      <4>3. segment.offset + (i + 1) <= Len(file.data) /\ segment.offset + (i + 1) = segment.offset + i + 1
        <5>1. segment.offset + segment.filesz <= Len(file.data)
          BY <1>2, <2>6 DEF intact
        <5>2. Len(file.data) \in Nat
          BY FileFacts DEF Progress
        <5> DEFINE offset == segment.offset
                   filesz == segment.filesz
        <5>3. offset \in Nat /\ filesz \in Nat /\ i + 1 <= filesz /\ i \in Int
          BY <1>2, <4>1
        <5>4. offset + filesz <= Len(file.data)
          BY <5>1
        <5> HIDE DEF offset, filesz
        <5>5. offset + (i + 1) <= Len(file.data) /\ offset + (i + 1) = offset + i + 1
          BY <5>2, <5>3, <5>4
        <5> QED
          BY <5>5 DEF offset
      <4> QED
        BY <1>1, <4>1, <4>2, <4>3 DEF bytesRead
    <3>5. Shows(segment, segment.filesz)'
      BY <1>1, <1>2, <2>1, <3>4 DEF Shows
    <3> QED
      BY <1>1, <3>2, <3>3, <3>5 DEF Shows
  <2> QED
    BY <2>1, <2>3, <2>4, <2>5, <2>6 DEF Contents
<1> QED
  BY <1>3, <1>4, <1>5

(* How many zeros follow the bytes from the file. *)
LEMMA ZeroFillCount ==
  ASSUME Progress, pc \in InSegment
  PROVE  /\ zeroFillCount \in Nat
         /\ wellFormed => zeroFillCount = segment.memsz - segment.filesz
<1>1. PICK filesz, memsz, word :
        filesz = segment.filesz /\ memsz = segment.memsz /\ word = Word
  OBVIOUS
<1>2. /\ filesz \in Nat /\ memsz \in Nat /\ word \in Nat
      /\ filesz < word /\ memsz < word /\ (wellFormed => filesz <= memsz)
  BY <1>1, SegmentFacts, LoaderAssumption
<1>3. (memsz - filesz) % word \in Nat
  BY <1>2
<1>4. ASSUME filesz <= memsz PROVE (memsz - filesz) % word = memsz - filesz
  <2>1. memsz - filesz \in 0..(word - 1)
    BY <1>2, <1>4
  <2>2. ASSUME NEW n \in 0..(word - 1) PROVE n % word = n
    BY <1>2
  <2> QED
    BY <2>1, <2>2
<1> QED
  BY <1>1, <1>2, <1>3, <1>4 DEF zeroFillCount

(* SetMem, and the end of a segment. *)
LEMMA ZeroFillStep ==
  ASSUME Progress, Placement, Contents, ZeroFill
  PROVE  Progress' /\ Placement' /\ Contents'
<1>1. /\ pc = "zeroFill" /\ pc \in Running /\ pc \in Allocated /\ pc \in InSegment
      /\ file' = file /\ free' = free /\ allocated' = allocated /\ position' = position
      /\ buffer' = buffer /\ entry' = entry /\ ph' = ph + 1 /\ loaded' = loaded + 1
      /\ entry = file.entry /\ file \in Files /\ free \in FreePages
      /\ memory \in [Addresses -> Int] /\ loaded \in Nat
  BY DEF ZeroFill, Progress, Running, Allocated, InSegment
<1>2. /\ segment.paddr \in Nat /\ segment.filesz \in Nat /\ segment.memsz \in Nat
      /\ ph \in loadSegments /\ ph \in 1..Len(file.segments)
      /\ wellFormed => segment.filesz <= segment.memsz
      /\ zeroFillCount \in Nat
      /\ wellFormed => zeroFillCount = segment.memsz - segment.filesz
  BY <1>1, SegmentFacts, ZeroFillCount
<1>3. /\ loadSegments \subseteq 1..Len(file.segments) /\ Len(file.segments) \in Nat
      /\ loadSegments' = loadSegments
  BY <1>1, FileFacts DEF loadSegments
<1>4. ph' \in 1..(Len(file.segments) + 1) /\ loaded' \in Nat /\ loaded' # 0
  BY <1>1, <1>2, <1>3
<1>5. PICK start, count, zeros :
        /\ start = segment.paddr + segment.filesz /\ count = zeroFillCount
        /\ zeros = [n \in 1..zeroFillCount |-> 0]
  OBVIOUS
<1>6. /\ start \in Nat /\ count \in Nat /\ zeros \in [1..count -> Int]
      /\ DOMAIN zeros = 1..count /\ \A n \in 1..count : zeros[n] = 0
  BY <1>2, <1>5
<1>7. /\ memory' \in [Addresses -> Int]
      /\ pc' \in {"done", "crashed", "programSegments"}
      /\ \/ count = 0 /\ memory' = memory
         \/ memory' = [a \in Addresses |->
                        IF a - start + 1 \in DOMAIN zeros THEN zeros[a - start + 1] ELSE memory[a]]
  <2>1. CASE count > 0
    <3>1. write(start, zeros, "programSegments")
      BY <1>1, <1>5, <2>1 DEF ZeroFill
    <3>2. /\ memory' \in [Addresses -> Int]
          /\ memory' = [a \in Addresses |->
                         IF a - start + 1 \in DOMAIN zeros THEN zeros[a - start + 1] ELSE memory[a]]
          /\ start + count > PageSize * Pages => pc' = "crashed"
          /\ ~(start + count > PageSize * Pages) =>
               goto("programSegments") \/ (return("error") /\ failed' = TRUE)
      BY <1>1, <1>6, <3>1, WriteFacts
    <3> QED
      BY <3>2 DEF goto, return
  <2>2. CASE count = 0
    BY <1>1, <1>5, <2>2 DEF ZeroFill, goto
  <2> QED
    BY <1>6, <2>1, <2>2
<1>8. CASE pc' \in {"done", "crashed"}
  BY <1>1, <1>4, <1>7, <1>8, Stopped
<1>9. CASE pc' = "programSegments"
  <2>1. Finished' = Finished \cup {ph}
    <3>1. \A n \in loadSegments : n < ph' <=> n < ph \/ n = ph
      BY <1>1, <1>2, <1>3
    <3> QED
      BY <1>2, <1>3, <3>1 DEF Finished
  <2>2. Placed = Finished \cup {ph} /\ Placed' = Placed /\ pc' \in Running /\ pc' \notin Allocated
    BY <1>1, <1>9, <2>1 DEF Placed, Allocated, Running, InSegment
  <2>3. Placement'
    BY <1>1, <2>2 DEF Placement, pagesOf
  <2>4. Progress'
    BY <1>1, <1>4, <1>7, <1>9 DEF Progress, Opening, Allocated, InSegment, Behind
  <2>5. (intact' <=> intact) /\ pc' \notin {"segmentFree", "zeroFill"}
    BY <1>1, <1>3, <1>9 DEF intact, wellFormed, complete
  <2>6. ASSUME intact
        PROVE  \A n \in Finished \cup {ph} : Shows(file.segments[n], file.segments[n].memsz)'
    <3>1. /\ segment.filesz <= segment.memsz /\ count = segment.memsz - segment.filesz
          /\ start + count = segment.paddr + segment.memsz /\ segment.paddr <= start
      BY <1>2, <1>5, <2>6 DEF intact
    <3>2. /\ \A n \in Finished : \A i \in 0..(file.segments[n].memsz - 1) :
               memory'[file.segments[n].paddr + i] = memory[file.segments[n].paddr + i]
          /\ \A i \in 0..(segment.memsz - 1) :
               memory'[segment.paddr + i] =
                 IF segment.paddr + i - start + 1 \in 1..count
                   THEN 0 ELSE memory[segment.paddr + i]
      <4>1. CASE count = 0 /\ memory' = memory
        BY <4>1
      <4>2. CASE memory' = [a \in Addresses |->
                             IF a - start + 1 \in DOMAIN zeros
                               THEN zeros[a - start + 1] ELSE memory[a]]
        <5>1. /\ start \in Nat /\ count \in Nat /\ DOMAIN zeros = 1..count
              /\ segment.paddr <= start /\ start + count <= segment.paddr + segment.memsz
          BY <1>2, <1>6, <3>1
        <5>2. /\ \A n \in Finished : \A i \in 0..(file.segments[n].memsz - 1) :
                   memory'[file.segments[n].paddr + i] = memory[file.segments[n].paddr + i]
              /\ \A i \in 0..(segment.memsz - 1) :
                   memory'[segment.paddr + i] =
                     IF segment.paddr + i - start + 1 \in 1..count
                       THEN zeros[segment.paddr + i - start + 1] ELSE memory[segment.paddr + i]
          BY <1>1, <4>2, <5>1, WrittenBytes
        <5>3. ASSUME NEW i \in 0..(segment.memsz - 1)
              PROVE  memory'[segment.paddr + i] =
                       IF segment.paddr + i - start + 1 \in 1..count
                         THEN 0 ELSE memory[segment.paddr + i]
          <6> DEFINE k == segment.paddr + i - start + 1
          <6>1. memory'[segment.paddr + i] =
                  IF k \in 1..count THEN zeros[k] ELSE memory[segment.paddr + i]
            BY <5>2
          <6>2. k \in 1..count => zeros[k] = 0
            BY <1>6
          <6> HIDE DEF k
          <6>3. memory'[segment.paddr + i] =
                  IF k \in 1..count THEN 0 ELSE memory[segment.paddr + i]
            BY <6>1, <6>2, Zenon
          <6> QED
            BY <6>3 DEF k
        <5> QED
          BY <5>2, <5>3
      <4> QED
        BY <1>7, <4>1, <4>2
    <3>3. /\ \A n \in Finished : Shows(file.segments[n], file.segments[n].memsz)
          /\ Shows(segment, segment.filesz)
      BY <1>1, <2>6 DEF Contents
    <3>4. \A n \in Finished : Shows(file.segments[n], file.segments[n].memsz)'
      BY <1>1, <3>2, <3>3 DEF Shows
    <3>5. ASSUME NEW i \in 0..(segment.memsz - 1)
          PROVE  memory'[segment.paddr + i] =
                   IF i < segment.filesz THEN file.data[segment.offset + i + 1] ELSE 0
      <4>1. CASE i < segment.filesz
        <5>1. i \in 0..(segment.filesz - 1) /\ ~(segment.paddr + i - start + 1 \in 1..count)
          BY <1>2, <1>5, <1>6, <4>1
        <5>2. memory'[segment.paddr + i] = memory[segment.paddr + i]
          BY <3>2, <5>1
        <5>3. memory[segment.paddr + i] = file.data[segment.offset + i + 1]
          BY <3>3, <4>1, <5>1 DEF Shows
        <5> QED
          BY <4>1, <5>2, <5>3
      <4>2. CASE ~(i < segment.filesz)
        <5> DEFINE paddr == segment.paddr
                   filesz == segment.filesz
                   memsz == segment.memsz
        <5>1. /\ paddr \in Nat /\ filesz \in Nat /\ memsz \in Nat /\ i \in 0..(memsz - 1)
              /\ start = paddr + filesz /\ count = memsz - filesz /\ ~(i < filesz)
          BY <1>2, <1>5, <3>1, <4>2
        <5> HIDE DEF paddr, filesz, memsz
        <5>2. paddr + i - start + 1 \in 1..count
          BY <5>1
        <5>3. segment.paddr + i - start + 1 \in 1..count
          BY <5>2 DEF paddr
        <5> QED
          BY <3>2, <4>2, <5>3
      <4> QED
        BY <4>1, <4>2
    <3>6. ASSUME NEW n, n = ph PROVE Shows(file.segments[n], file.segments[n].memsz)'
      <4>1. file.segments[n] = segment
        BY <3>6 DEF segment
      <4>2. \A i \in 0..(file.segments[n].memsz - 1) :
              memory'[file.segments[n].paddr + i] =
                IF i < file.segments[n].filesz THEN file.data[file.segments[n].offset + i + 1] ELSE 0
        BY <3>5, <4>1
      <4> QED
        BY <1>1, <4>2 DEF Shows
    <3> QED
      BY <3>4, <3>6
  <2> QED
    BY <2>1, <2>3, <2>4, <2>5, <2>6 DEF Contents
<1> QED
  BY <1>7, <1>8, <1>9

-----------------------------------------------------------------------------
(* All steps. *)
LEMMA ProgressStep ==
  ASSUME Progress, Placement, Contents, [Next]_vars
  PROVE  Progress' /\ Placement' /\ Contents'
<1>1. CASE UNCHANGED vars
  <2>1. Finished' = Finished /\ loadSegments' = loadSegments /\ Placed' = Placed
    BY <1>1 DEF vars, Finished, loadSegments, Placed
  <2>2. Progress'
    BY <1>1, <2>1 DEF vars, Progress, segment, bytesRead
  <2>3. Placement'
    BY <1>1, <2>1 DEF vars, Placement, pagesOf
  <2>4. intact' <=> intact
    BY <1>1, <2>1 DEF vars, intact, wellFormed, complete
  <2>5. Contents'
    BY <1>1, <2>1, <2>4 DEF vars, Contents, Shows, segment
  <2> QED
    BY <2>2, <2>3, <2>5
<1>2. CASE /\ pc' = "done" /\ UNCHANGED <<file, memory, free, ph, loaded>>
  <2>1. memory \in [Addresses -> Int] /\ ph \in 1..(Len(file.segments) + 1) /\ loaded \in Nat
    BY DEF Progress
  <2> QED
    BY <1>2, <2>1, Stopped
<1>3. CASE ServiceFails \/ Return
  BY <1>2, <1>3 DEF ServiceFails, Return, return, unchangedData
<1>4. CASE OpenFile \/ ReadELFIdentity \/ FreeIdentity \/ ReadELFFile
  <2>1. /\ pc \in {"openFile"} \cup Opening /\ pc' \in Opening
        /\ UNCHANGED <<file, memory, free, allocated, ph, loaded>>
    BY <1>4 DEF OpenFile, ReadELFIdentity, FreeIdentity, ReadELFFile, setPosition, allocatePool,
                readWhole, freePool, goto, unchangedData, Opening
  <2> QED
    BY <2>1, OpeningStep
<1>5. CASE ValidateELFIdentity
  <2>1. CASE goto("identityFree")
    <3>1. /\ pc \in {"openFile"} \cup Opening /\ pc' \in Opening
          /\ UNCHANGED <<file, memory, free, allocated, ph, loaded>>
      BY <1>5, <2>1 DEF ValidateELFIdentity, goto, unchangedData, Opening
    <3> QED
      BY <3>1, OpeningStep
  <2>2. CASE return("error")
    BY <1>2, <1>5, <2>2 DEF ValidateELFIdentity, return, unchangedData
  <2> QED
    BY <1>5, <2>1, <2>2 DEF ValidateELFIdentity
<1>6. CASE LoadSegment
  BY <1>6, SetSegmentPositionStep, AllocateStep, BufferStep, CopyStep, ZeroFillStep DEF LoadSegment
<1>7. CASE CloseFile \/ FreeHeader \/ FreeProgramHeaders
  <2>1. /\ pc \in Behind /\ pc' \in Behind
        /\ UNCHANGED <<file, memory, free, allocated, entry, ph, loaded>>
    BY <1>7 DEF CloseFile, FreeHeader, FreeProgramHeaders, freePool, goto, Behind
  <2> QED
    BY <2>1, ClosingStep
<1> QED
  BY <1>1, <1>3, <1>4, <1>5, <1>6, <1>7, SetEntryStep, LoopStep DEF Next, LoadKernelImage

(* Why an image may be refused without any service having failed.           *)
unusable ==
  \/ ~file.magic \/ file.class \notin {32, 64} \/ ~file.lsb
  \/ loadSegments = {}
  \/ \E n \in loadSegments :
       LET s == file.segments[n]
       IN  \/ s.paddr % PageSize # 0
           \/ ~(pagesOf(s) \subseteq free)
           \/ \E m \in loadSegments \ {n} : pagesOf(s) \cap pagesOf(file.segments[m]) # {}

(* Which calls return, and with what. *)
LEMMA StatusStep ==
  ASSUME Bookkeeping, Next
  PROVE  /\ pc \in Running /\ status = "none" /\ file' = file /\ free' = free
         /\ status' = "success" => Return
         /\ status' = "error" =>
              \/ failed'
              \/ ValidateELFIdentity /\ ~identityValid
              \/ SetEntry /\ file.segments = << >>
              \/ LoadProgramSegments /\ ph > Len(file.segments) /\ loaded = 0
              \/ /\ pc = "allocatePages"
                 /\ ~(segment.paddr % PageSize = 0 /\ pagesOf(segment) \subseteq free \ allocated)
<1>0. pc \in Running => status = "none"
  BY DEF Bookkeeping
<1> USE DEF Running, Opening, Allocated, InSegment, Behind
<1>1. CASE ServiceFails
  BY <1>0, <1>1 DEF ServiceFails, return, unchangedData, FirmwareCalls
<1>2. CASE OpenFile \/ ReadELFIdentity \/ FreeIdentity \/ ReadELFFile
           \/ CloseFile \/ FreeHeader \/ FreeProgramHeaders
  BY <1>0, <1>2 DEF OpenFile, ReadELFIdentity, FreeIdentity, ReadELFFile, CloseFile, FreeHeader,
                    FreeProgramHeaders, setPosition, allocatePool, readWhole, freePool, goto,
                    unchangedData
<1>3. CASE ValidateELFIdentity
  BY <1>0, <1>3 DEF ValidateELFIdentity, return, goto, unchangedData
<1>4. CASE SetEntry
  BY <1>0, <1>4 DEF SetEntry, return, goto
<1>5. CASE LoadProgramSegments
  BY <1>0, <1>5 DEF LoadProgramSegments, return, goto
<1>6. CASE AllocateSegmentPages
  BY <1>0, <1>6 DEF AllocateSegmentPages, return, goto
<1>7. CASE SetSegmentPosition \/ ReadSegment
           \/ allocatePool("segmentAllocate", "segment", "segmentRead")
           \/ freePool("segmentFree", "segment", "zeroFill")
  BY <1>0, <1>7 DEF SetSegmentPosition, setPosition, ReadSegment, allocatePool, freePool, goto
<1>8. CASE CopySegment
  BY <1>0, <1>8 DEF CopySegment, write, return, goto
<1>9. CASE ZeroFill
  BY <1>0, <1>9 DEF ZeroFill, write, return, goto
<1>10. CASE Return
  BY <1>0, <1>10 DEF Return, return, unchangedData
<1> QED
  BY <1>1, <1>2, <1>3, <1>4, <1>5, <1>6, <1>7, <1>8, <1>9, <1>10
  DEF Next, LoadKernelImage, LoadSegment

LEMMA CauseStep ==
  ASSUME Bookkeeping, Progress, Placement, ErrorHasCause, [Next]_vars
  PROVE  ErrorHasCause'
<1>1. CASE UNCHANGED vars
  BY <1>1 DEF vars, ErrorHasCause, loadSegments, pagesOf
<1>2. CASE Next
  <2> SUFFICES ASSUME status' = "error", ~failed' PROVE unusable
    <3>1. file' = file /\ free' = free
      BY <1>2, StatusStep
    <3>2. (unusable' <=> unusable) /\ (ErrorHasCause <=> (status = "error" => failed \/ unusable))
      BY <3>1 DEF unusable, loadSegments, pagesOf, ErrorHasCause
    <3>3. ErrorHasCause' <=> (status' = "error" => failed' \/ unusable')
      BY DEF unusable, ErrorHasCause
    <3> QED
      BY <3>2, <3>3
  <2>1. CASE ~identityValid
    BY <2>1 DEF identityValid, unusable
  <2>2. CASE file.segments = << >>
    <3>1. loadSegments = {}
      BY <2>2 DEF loadSegments
    <3> QED
      BY <3>1 DEF unusable
  <2>3. CASE ph > Len(file.segments) /\ loaded = 0
    <3>1. Finished = {} /\ ph \in Int
      BY <2>3 DEF Progress
    <3>2. loadSegments \subseteq 1..Len(file.segments) /\ Len(file.segments) \in Nat
      BY FileFacts DEF Progress
    <3>3. loadSegments = {}
      BY <2>3, <3>1, <3>2 DEF Finished
    <3> QED
      BY <3>3 DEF unusable
  <2>4. CASE /\ pc = "allocatePages"
             /\ ~(segment.paddr % PageSize = 0 /\ pagesOf(segment) \subseteq free \ allocated)
    <3>1. ph \in loadSegments /\ pc \in Running /\ pc \notin Allocated
      BY <2>4 DEF Progress, InSegment, Running, Allocated
    <3>2. CASE segment.paddr % PageSize # 0 \/ ~(pagesOf(segment) \subseteq free)
      BY <3>1, <3>2 DEF unusable, segment
    <3>3. CASE ~(pagesOf(segment) \cap allocated = {})
      <4>1. PICK page \in allocated : page \in pagesOf(segment)
        BY <3>3
      <4>2. PICK m \in Finished : page \in pagesOf(file.segments[m])
        BY <3>1, <4>1 DEF Placement, Placed
      <4>3. m \in loadSegments \ {ph}
        BY PlacedFacts
      <4> QED
        BY <3>1, <4>1, <4>2, <4>3 DEF unusable, segment
    <3> QED
      BY <2>4, <3>2, <3>3
  <2> QED
    BY <1>2, <2>1, <2>2, <2>3, <2>4, StatusStep
<1> QED
  BY <1>1, <1>2

LEMMA FaithfulStep ==
  ASSUME Bookkeeping, Progress, Contents, LoadedFaithfully, [Next]_vars
  PROVE  LoadedFaithfully'
<1>1. CASE UNCHANGED vars
  BY <1>1 DEF vars, LoadedFaithfully, wellFormed, complete, loadSegments
<1>2. CASE Next /\ status' = "success"
  <2>1. /\ Return /\ pc = "return" /\ pc \in Running
        /\ UNCHANGED <<file, memory, entry, ph>>
    BY <1>2, StatusStep DEF Return, unchangedData
  <2>2. entry = file.entry /\ ph = Len(file.segments) + 1
    BY <2>1 DEF Progress, Behind
  <2>3. loadSegments \subseteq 1..Len(file.segments) /\ Len(file.segments) \in Nat
    BY FileFacts DEF Progress
  <2>4. Finished = loadSegments
    <3>1. \A n \in loadSegments : n < ph
      BY <2>2, <2>3
    <3> QED
      BY <3>1 DEF Finished
  <2>5. loadSegments' = loadSegments /\ (wellFormed' /\ complete' <=> intact)
    BY <2>1 DEF loadSegments, intact, wellFormed, complete
  <2>6. intact => \A n \in loadSegments : Shows(file.segments[n], file.segments[n].memsz)
    BY <2>1, <2>4 DEF Contents
  <2> QED
    BY <2>1, <2>2, <2>5, <2>6 DEF LoadedFaithfully, Shows
<1>3. CASE status' # "success"
  BY <1>3 DEF LoadedFaithfully
<1> QED
  BY <1>1, <1>2, <1>3

LEMMA NextIInv == ASSUME IInv, [Next]_vars PROVE IInv'
<1>1. Bookkeeping'
  BY BookkeepingStep DEF IInv
<1>2. Progress' /\ Placement' /\ Contents'
  BY ProgressStep DEF IInv
<1>3. ErrorHasCause'
  BY CauseStep DEF IInv
<1>4. LoadedFaithfully'
  BY FaithfulStep DEF IInv
<1> QED
  BY <1>1, <1>2, <1>3, <1>4 DEF IInv

(* The invariant holds of every execution of loadKernelImage. *)
THEOREM Invariant == Spec => []IInv
<1>1. Init => IInv
  BY InitIInv
<1>2. IInv /\ [Next]_vars => IInv'
  BY NextIInv
<1> QED
  BY <1>1, <1>2, PTL DEF Spec

(* If loadKernelImage succeeds on an intact file, memory holds the program  *)
(* it describes: every segment's bytes at its address, zeros to its end,    *)
(* and the entry point of the file.                                         *)
THEOREM Faithful == Spec => []LoadedFaithfully
<1>1. IInv => LoadedFaithfully
  BY DEF IInv
<1> QED
  BY <1>1, Invariant, PTL

(* If it succeeds, no service has failed, the file is closed and no buffer  *)
(* is left allocated, however many segments were loaded.                    *)
THEOREM Clean == Spec => []SuccessIsClean
<1>1. IInv => SuccessIsClean
  BY DEF IInv, Bookkeeping
<1> QED
  BY <1>1, Invariant, PTL

(* If it returns an error, a service has failed or the image is unusable:   *)
(* not one it knows, with nothing to load, or with segments that do not fit *)
(* side by side into free pages.                                            *)
THEOREM ErrorCause == Spec => []ErrorHasCause
<1>1. IInv => ErrorHasCause
  BY DEF IInv
<1> QED
  BY <1>1, Invariant, PTL

(* A step that writes: within the pages the loader has allocated.           *)
LEMMA WriteStep ==
  ASSUME Progress, Placement, wellFormed, CopySegment \/ ZeroFill
  PROVE  /\ \A a \in Addresses : memory'[a] # memory[a] => a \div PageSize \in allocated
         /\ pc' # "crashed"
<1>1. pc \in InSegment /\ pc \in Allocated
  BY DEF CopySegment, ZeroFill, Allocated, InSegment
<1>2. /\ segment.paddr \in Nat /\ segment.filesz \in Nat /\ segment.memsz \in Nat
      /\ segment.filesz <= segment.memsz /\ bytesRead(segment) \in [1..segment.filesz -> Int]
      /\ zeroFillCount \in Nat /\ zeroFillCount = segment.memsz - segment.filesz
      /\ memory \in [Addresses -> Int]
  BY <1>1, SegmentFacts, ZeroFillCount DEF Progress
<1>3. ASSUME NEW start \in Nat, NEW bytes, NEW count \in Nat, bytes \in [1..count -> Int],
             count > 0, segment.paddr <= start, start + count <= segment.paddr + segment.memsz,
             NEW next, next # "crashed", write(start, bytes, next)
      PROVE  /\ \A a \in Addresses : memory'[a] # memory[a] => a \div PageSize \in allocated
             /\ pc' # "crashed"
  <2>1. /\ memory' = [a \in Addresses |->
                       IF a - start + 1 \in DOMAIN bytes THEN bytes[a - start + 1] ELSE memory[a]]
        /\ ~(start + count > PageSize * Pages) => goto(next) \/ (return("error") /\ failed' = TRUE)
    BY <1>2, <1>3, WriteFacts
  <2>2. DOMAIN bytes = 1..count
    BY <1>3
  <2>3. /\ \A a \in Addresses : memory'[a] # memory[a] => a \div PageSize \in allocated
        /\ count > 0 => start + count <= PageSize * Pages
    BY <1>1, <1>3, <2>1, <2>2, WrittenBytes
  <2>4. ~(start + count > PageSize * Pages)
    BY <1>3, <2>3, LoaderAssumption
  <2>5. pc' = next \/ pc' = "done"
    BY <2>1, <2>4 DEF goto, return
  <2> QED
    BY <1>3, <2>3, <2>5
<1>4. CASE CopySegment
  <2>1. PICK start, count, bytes :
          start = segment.paddr /\ count = segment.filesz /\ bytes = buffer
    OBVIOUS
  <2>2. /\ start \in Nat /\ count \in Nat /\ count > 0 /\ bytes \in [1..count -> Int]
        /\ segment.paddr <= start /\ start + count <= segment.paddr + segment.memsz
    BY <1>2, <1>4, <2>1 DEF CopySegment, Progress, Allocated
  <2>3. write(start, bytes, "segmentFree")
    BY <1>4, <2>1 DEF CopySegment
  <2> QED
    BY <1>3, <2>2, <2>3
<1>5. CASE ZeroFill /\ zeroFillCount > 0
  <2>1. PICK start, count, bytes :
          /\ start = segment.paddr + segment.filesz /\ count = zeroFillCount
          /\ bytes = [n \in 1..zeroFillCount |-> 0]
    OBVIOUS
  <2>2. start \in Nat /\ count \in Nat /\ count > 0 /\ bytes \in [1..count -> Int]
    BY <1>2, <1>5, <2>1
  <2>3. segment.paddr <= start /\ start + count <= segment.paddr + segment.memsz
    BY <1>2, <2>1
  <2>4. write(start, bytes, "programSegments")
    BY <1>5, <2>1 DEF ZeroFill
  <2> QED
    BY <1>3, <2>2, <2>3, <2>4
<1>6. CASE ZeroFill /\ ~(zeroFillCount > 0)
  BY <1>6 DEF ZeroFill, goto
<1> QED
  BY <1>4, <1>5, <1>6

(* The other steps write nothing. *)
LEMMA QuietStep ==
  ASSUME Next, ~CopySegment, ~ZeroFill
  PROVE  memory' = memory /\ pc' # "crashed"
<1>1. CASE ServiceFails
  BY <1>1 DEF ServiceFails, return, unchangedData
<1>2. CASE OpenFile \/ ReadELFIdentity \/ FreeIdentity \/ ReadELFFile
           \/ CloseFile \/ FreeHeader \/ FreeProgramHeaders
  BY <1>2 DEF OpenFile, ReadELFIdentity, FreeIdentity, ReadELFFile, CloseFile, FreeHeader,
              FreeProgramHeaders, setPosition, allocatePool, readWhole, freePool, goto, unchangedData
<1>3. CASE ValidateELFIdentity \/ SetEntry \/ LoadProgramSegments \/ Return
  BY <1>3 DEF ValidateELFIdentity, SetEntry, LoadProgramSegments, Return, return, goto, unchangedData
<1>4. CASE AllocateSegmentPages
  BY <1>4 DEF AllocateSegmentPages, return, goto
<1>5. CASE SetSegmentPosition \/ ReadSegment
           \/ allocatePool("segmentAllocate", "segment", "segmentRead")
           \/ freePool("segmentFree", "segment", "zeroFill")
  BY <1>5 DEF SetSegmentPosition, setPosition, ReadSegment, allocatePool, freePool, goto
<1> QED
  BY <1>1, <1>2, <1>3, <1>4, <1>5 DEF Next, LoadKernelImage, LoadSegment

(* Unless a segment has more bytes in the file than in memory, the loader   *)
(* writes only to pages it has allocated, and returns from every write.     *)
THEOREM WritesStay == Spec => WritesStayInAllocatedPages
<1> DEFINE Stays ==
      wellFormed =>
        /\ \A a \in Addresses : memory'[a] # memory[a] => a \div PageSize \in allocated
        /\ pc' # "crashed"
<1>1. IInv /\ [Next]_vars => [Stays]_vars
  <2> SUFFICES ASSUME IInv, Next PROVE Stays
    OBVIOUS
  <2>1. CASE CopySegment \/ ZeroFill
    BY <2>1, WriteStep DEF IInv
  <2>2. CASE ~CopySegment /\ ~ZeroFill
    BY <2>2, QuietStep
  <2> QED
    BY <2>1, <2>2
<1> HIDE DEF Stays
<1>2. Spec => [][Stays]_vars
  BY <1>1, Invariant, PTL DEF Spec
<1> QED
  BY <1>2 DEF WritesStayInAllocatedPages, Stays

-----------------------------------------------------------------------------
(* A non-empty set of naturals has a least element. *)
LEMMA LeastNatural ==
  ASSUME NEW S \in SUBSET Nat, S # {}
  PROVE  Min(S) \in S /\ \A y \in S : Min(S) <= y
<1> DEFINE T == {0..x : x \in S}
<1>1. \A x \in Nat : 0..x \in FiniteSubsetsOf(Nat)
  BY FS_Interval DEF FiniteSubsetsOf
<1>2. PICK t \in T : \A u \in T : ~ (<<u, t>> \in StrictSubsetOrdering(Nat))
  <2>1. T \subseteq FiniteSubsetsOf(Nat) /\ T # {}
    BY <1>1
  <2> HIDE DEF T
  <2> QED
    BY <2>1, FS_StrictSubsetOrderingWellFounded, WFMin
<1>3. PICK x \in S : t = 0..x
  OBVIOUS
<1>4. ASSUME NEW y \in S
      PROVE  x <= y
  <2>1. ~ (<<0..y, 0..x>> \in StrictSubsetOrdering(Nat))
    BY <1>2, <1>3
  <2>2. 0..y \in SUBSET Nat /\ 0..x \in SUBSET Nat
    OBVIOUS
  <2>3. SUFFICES ASSUME y < x
                 PROVE  FALSE
    OBVIOUS
  <2>4. 0..y \subseteq 0..x
    BY <2>3
  <2>5. 0..y # 0..x
    BY <2>3
  <2> QED
    BY <2>1, <2>2, <2>4, <2>5 DEF StrictSubsetOrdering
<1> QED
  BY <1>4 DEF Min

(* Induction, for a set instead of a predicate.                             *)
LEMMA SetInduction ==
  ASSUME NEW A, \A n \in Nat : (\A m \in Nat : m < n => m \in A) => n \in A
  PROVE  Nat \subseteq A
<1> DEFINE None == Nat \ A
           least == Min(None)
<1> SUFFICES ASSUME None # {}
             PROVE  FALSE
  OBVIOUS
<1>1. least \in None /\ \A y \in None : least <= y
  BY LeastNatural
<1> HIDE DEF least
<1>2. \A m \in Nat : m < least => m \in A
  <2> SUFFICES ASSUME NEW m \in Nat, m < least, m \notin A
               PROVE  FALSE
    OBVIOUS
  <2> QED
    BY <1>1
<1> QED
  BY <1>1, <1>2

LEMMA StepInduction ==
  ASSUME NEW A, 0 \in A, \A n \in Nat : n \in A => n + 1 \in A
  PROVE  Nat \subseteq A
<1>1. ASSUME NEW n \in Nat, \A m \in Nat : m < n => m \in A
      PROVE  n \in A
  <2>1. CASE n = 0
    BY <2>1
  <2>2. CASE n # 0
    <3>1. n - 1 \in Nat /\ n - 1 < n /\ (n - 1) + 1 = n
      BY <2>2
    <3> QED
      BY <1>1, <3>1
  <2> QED
    BY <2>1, <2>2
<1> QED
  BY <1>1, SetInduction

(* What is computed step by step exists.                                    *)
IsPath(t, S, first, step) ==
  t \in [Nat -> S] /\ t[0] = first /\ \A k \in Nat : t[k + 1] = step[k][t[k]]

LEMMA Iterates ==
  ASSUME NEW S, NEW first \in S, NEW step \in [Nat -> [S -> S]]
  PROVE  \E t : IsPath(t, S, first, step)
<1> DEFINE follows(t, n) == t[0] = first /\ \A k \in 0..(n - 1) : t[k + 1] = step[k][t[k]]
           A == {n \in Nat : \E t \in [0..n -> S] : follows(t, n)}
           B(t, u) == {k \in Nat : k \in DOMAIN t /\ k \in DOMAIN u => t[k] = u[k]}
<1>1. 0 \in A
  <2>1. [k \in 0..0 |-> first] \in [0..0 -> S] /\ follows([k \in 0..0 |-> first], 0)
    OBVIOUS
  <2> QED
    BY <2>1
<1>2. ASSUME NEW n \in Nat, n \in A
      PROVE  n + 1 \in A
  <2>1. PICK t \in [0..n -> S] : follows(t, n)
    BY <1>2
  <2> DEFINE u == [k \in 0..(n + 1) |-> IF k = n + 1 THEN step[n][t[n]] ELSE t[k]]
  <2>2. step[n][t[n]] \in S
    OBVIOUS
  <2>3. u \in [0..(n + 1) -> S]
    BY <2>2
  <2>4. u[0] = first
    BY <2>1
  <2>5. ASSUME NEW k \in 0..n
        PROVE  u[k + 1] = step[k][u[k]]
    <3>1. CASE k = n
      BY <3>1
    <3>2. CASE k # n
      <4>1. k \in 0..(n - 1) /\ k + 1 \in 0..n /\ k # n + 1
        BY <3>2
      <4>2. t[k + 1] = step[k][t[k]]
        BY <2>1, <4>1
      <4>3. u[k + 1] = t[k + 1] /\ u[k] = t[k]
        BY <4>1
      <4> QED
        BY <4>2, <4>3
    <3> QED
      BY <3>1, <3>2
  <2> HIDE DEF u
  <2>6. follows(u, n + 1)
    BY <2>4, <2>5
  <2> QED
    BY <2>3, <2>6
<1>3. Nat \subseteq A
  <2> HIDE DEF A
  <2> QED
    BY <1>1, <1>2, StepInduction
<1>4. ASSUME NEW n \in Nat, NEW m \in Nat, n <= m, NEW t \in [0..n -> S], NEW u \in [0..m -> S],
             follows(t, n), follows(u, m)
      PROVE  \A k \in 0..n : t[k] = u[k]
  <2> DEFINE C == {k \in Nat : k <= n => t[k] = u[k]}
  <2>1. 0 \in C
    BY <1>4
  <2>2. ASSUME NEW k \in Nat, k \in C
        PROVE  k + 1 \in C
    <3> SUFFICES ASSUME k + 1 <= n
                 PROVE  t[k + 1] = u[k + 1]
      OBVIOUS
    <3>1. k \in 0..(n - 1) /\ k \in 0..(m - 1) /\ k <= n
      BY <1>4
    <3>2. t[k] = u[k]
      BY <2>2, <3>1
    <3> QED
      BY <1>4, <3>1, <3>2
  <2>3. Nat \subseteq C
    <3> HIDE DEF C
    <3> QED
      BY <2>1, <2>2, StepInduction
  <2> QED
    BY <2>3
<1> DEFINE path == [n \in Nat |-> CHOOSE t \in [0..n -> S] : follows(t, n)]
           T == [n \in Nat |-> path[n][n]]
<1>5. \A n \in Nat : path[n] \in [0..n -> S] /\ follows(path[n], n)
  BY <1>3
<1> HIDE DEF path
<1>6. T \in [Nat -> S]
  BY <1>5
<1>7. T[0] = first
  BY <1>5
<1>8. ASSUME NEW k \in Nat
      PROVE  T[k + 1] = step[k][T[k]]
  <2>1. path[k + 1] \in [0..(k + 1) -> S] /\ follows(path[k + 1], k + 1)
    BY <1>5
  <2>2. path[k] \in [0..k -> S] /\ follows(path[k], k)
    BY <1>5
  <2>3. path[k][k] = path[k + 1][k]
    <3> HIDE DEF follows
    <3> QED
      BY <1>4, <2>1, <2>2
  <2>4. path[k + 1][k + 1] = step[k][path[k + 1][k]]
    BY <2>1
  <2> QED
    BY <2>3, <2>4
<1> QED
  BY <1>6, <1>7, <1>8 DEF IsPath

(* The powers of a number are naturals, each a multiple of the one before. *)
LEMMA PowerFacts ==
  ASSUME NEW b \in Nat \ {0}
  PROVE  /\ power(b, 0) = 1
         /\ \A k \in Nat : power(b, k) \in Nat \ {0} /\ power(b, k + 1) = b * power(b, k)
<1> DEFINE S == Nat \ {0}
           step == [k \in Nat |-> [x \in S |-> b * x]]
           equation(f, k) == f = [j \in 0..k |-> IF j = 0 THEN 1 ELSE b * f[j - 1]]
           powers(k) == CHOOSE f : equation(f, k)
<1>1. \A x \in S : b * x \in S
  OBVIOUS
<1>2. PICK t \in [Nat -> S] : t[0] = 1 /\ \A k \in Nat : t[k + 1] = step[k][t[k]]
  <2>1. step \in [Nat -> [S -> S]]
    BY <1>1
  <2>2. PICK one \in S : one = 1
    OBVIOUS
  <2> HIDE DEF S, step
  <2>3. \E t : IsPath(t, S, one, step)
    BY <2>1, Iterates
  <2> QED
    BY <2>2, <2>3 DEF IsPath
<1>3. \A k \in Nat : t[k + 1] = b * t[k]
  BY <1>2
<1>4. ASSUME NEW k \in Nat
      PROVE  power(b, k) = t[k]
  <2>1. equation([j \in 0..k |-> t[j]], k)
    <3> DEFINE g == [j \in 0..k |-> t[j]]
    <3>1. ASSUME NEW j \in 0..k
          PROVE  g[j] = IF j = 0 THEN 1 ELSE b * g[j - 1]
      <4>1. CASE j = 0
        BY <1>2, <4>1
      <4>2. CASE j # 0
        <5>1. j - 1 \in Nat /\ j - 1 \in 0..k /\ (j - 1) + 1 = j
          BY <4>2
        <5> QED
          BY <1>3, <4>2, <5>1
      <4> QED
        BY <4>1, <4>2
    <3> QED
      BY <3>1
  <2>2. equation(powers(k), k)
    BY <2>1
  <2>3. power(b, k) = powers(k)[k]
    BY DEF power
  <2> HIDE DEF powers
  <2> DEFINE C == {j \in Nat : j <= k => powers(k)[j] = t[j]}
  <2>4. 0 \in C
    <3>1. powers(k)[0] = 1
      BY <2>2
    <3> QED
      BY <1>2, <3>1
  <2>5. ASSUME NEW j \in Nat, j \in C
        PROVE  j + 1 \in C
    <3> SUFFICES ASSUME j + 1 <= k
                 PROVE  powers(k)[j + 1] = t[j + 1]
      OBVIOUS
    <3>1. j + 1 \in 0..k /\ j + 1 # 0 /\ (j + 1) - 1 = j /\ j <= k
      OBVIOUS
    <3>2. powers(k)[j + 1] = b * powers(k)[j]
      BY <2>2, <3>1
    <3> QED
      BY <1>3, <2>5, <3>1, <3>2
  <2>6. Nat \subseteq C
    <3> HIDE DEF C
    <3> QED
      BY <2>4, <2>5, StepInduction
  <2> QED
    BY <2>3, <2>6
<1> QED
  BY <1>2, <1>3, <1>4

(* Quotient and remainder are determined by what they add up to. *)
LEMMA DivMod ==
  ASSUME NEW a \in Nat, NEW d \in Nat \ {0}
  PROVE  /\ a \div d \in Nat /\ a % d \in 0..(d - 1)
         /\ a = d * (a \div d) + (a % d)
  OBVIOUS

(* A number is its quotient times the divisor, and a remainder below it. *)
LEMMA Quotient ==
  ASSUME NEW d \in Nat \ {0}, NEW q \in Nat, NEW r \in 0..(d - 1), NEW a, a = d * q + r
  PROVE  a \div d = q /\ a % d = r
<1> DEFINE x == a \div d
           y == a % d
<1>1. d * q \in Nat /\ a \in Nat
  OBVIOUS
<1>2. x \in Nat /\ y \in 0..(d - 1) /\ a = d * x + y
  BY <1>1, DivMod
<1> HIDE DEF x, y
<1>3. x = q
  <2>1. CASE x < q
    <3>1. x + 1 <= q
      BY <1>2, <2>1
    <3>2. d * (x + 1) <= d * q
      BY <1>2, <3>1
    <3>3. d * (x + 1) = d * x + d /\ d * x \in Nat
      BY <1>2
    <3> QED
      BY <1>1, <1>2, <3>2, <3>3
  <2>2. CASE q < x
    <3>1. q + 1 <= x
      BY <1>2, <2>2
    <3>2. d * (q + 1) <= d * x
      BY <1>2, <3>1
    <3>3. d * (q + 1) = d * q + d /\ d * x \in Nat
      BY <1>2
    <3> QED
      BY <1>1, <1>2, <3>2, <3>3
  <2> QED
    BY <1>2, <2>1, <2>2
<1>4. y = r
  BY <1>1, <1>2, <1>3
<1> QED
  BY <1>3, <1>4 DEF x, y

(* Dividing twice is dividing by the product. *)
LEMMA DivDiv ==
  ASSUME NEW a \in Nat, NEW b \in Nat \ {0}, NEW c \in Nat \ {0}
  PROVE  (a \div b) \div c = a \div (b * c)
<1> DEFINE q == a \div b
           r == a % b
           u == q \div c
           v == q % c
<1>1. q \in Nat /\ r \in 0..(b - 1) /\ a = b * q + r
  BY DivMod
<1> HIDE DEF q, r
<1>2. u \in Nat /\ v \in 0..(c - 1) /\ q = c * u + v
  BY <1>1, DivMod
<1> HIDE DEF u, v
<1>3. b * c \in Nat \ {0} /\ b * v \in Nat /\ b * v + r \in Nat
  BY <1>1, <1>2
<1>4. a = (b * c) * u + (b * v + r)
  <2>1. b * q = b * (c * u) + b * v
    BY <1>1, <1>2
  <2>2. b * (c * u) = (b * c) * u
    BY <1>2
  <2> QED
    BY <1>1, <1>2, <1>3, <2>1, <2>2
<1>5. b * v + r <= b * c - 1
  <2>1. b * v <= b * (c - 1)
    BY <1>2
  <2>2. b * (c - 1) = b * c - b
    OBVIOUS
  <2> QED
    BY <1>1, <1>3, <2>1, <2>2
<1>6. b * v + r \in 0..((b * c) - 1)
  BY <1>3, <1>5
<1>7. a \div (b * c) = u
  BY <1>2, <1>3, <1>4, <1>6, Quotient
<1> QED
  BY <1>7 DEF u, q

(* The places of a number: those of the number without its last digit.      *)
LEMMA PlacesShift ==
  ASSUME NEW v \in Nat, NEW r \in Nat \ {0}, NEW k \in Nat
  PROVE  v \div power(r, k + 1) = (v \div r) \div power(r, k)
<1>1. power(r, k) \in Nat \ {0} /\ power(r, k + 1) = r * power(r, k)
  BY PowerFacts
<1> QED
  BY <1>1, DivDiv

(* How many digits a number has. *)
Long(v, r, k) ==
  /\ v \div power(r, k - 1) < r
  /\ k > 1 => v \div power(r, k - 1) > 0

(* A number has just one length, one more than without its last digit. *)
LEMMA Lengths ==
  ASSUME NEW r \in Nat \ {0, 1}, NEW v \in Nat
  PROVE  \E k \in Nat \ {0} :
           /\ Long(v, r, k)
           /\ \A j \in Nat \ {0} : Long(v, r, j) => j = k
           /\ \A w \in Nat \ {0} : v < power(2, w) => k <= w
           /\ v < r => k = 1
           /\ v >= r => k > 1 /\ Long(v \div r, r, k - 1)
<1> DEFINE Known(x, k) ==
             /\ Long(x, r, k)
             /\ \A j \in Nat \ {0} : Long(x, r, j) => j = k
             /\ \A w \in Nat \ {0} : x < power(2, w) => k <= w
             /\ x < r => k = 1
             /\ x >= r => k > 1 /\ Long(x \div r, r, k - 1)
           A == {x \in Nat : \E k \in Nat \ {0} : Known(x, k)}
<1>1. power(r, 0) = 1 /\ power(2, 0) = 1
  BY PowerFacts
<1>2. \A x \in Nat : x \div 1 = x
  OBVIOUS
<1>3. ASSUME NEW x \in Nat, NEW j \in Nat \ {0}, j > 1
      PROVE  x \div power(r, j - 1) = (x \div r) \div power(r, j - 2)
  <2>1. j - 2 \in Nat /\ (j - 2) + 1 = j - 1
    BY <1>3
  <2>2. x \div power(r, (j - 2) + 1) = (x \div r) \div power(r, j - 2)
    BY <2>1, PlacesShift
  <2> QED
    BY <2>1, <2>2
<1>4. ASSUME NEW x \in Nat, \A y \in Nat : y < x => y \in A
      PROVE  x \in A
  <2>1. CASE x < r
    <3>1. Long(x, r, 1)
      BY <1>1, <1>2, <2>1 DEF Long
    <3>2. ASSUME NEW j \in Nat \ {0}, Long(x, r, j)
          PROVE  j = 1
      <4> SUFFICES ASSUME j > 1
                   PROVE  FALSE
        OBVIOUS
      <4>1. x \div r = 0
        <5>1. x = r * 0 + x /\ x \in 0..(r - 1)
          BY <2>1
        <5> QED
          BY <5>1, Quotient
      <4>2. j - 2 \in Nat
        OBVIOUS
      <4>3. 0 \div power(r, j - 2) = 0
        <5>1. power(r, j - 2) \in Nat \ {0}
          BY <4>2, PowerFacts
        <5> QED
          BY <5>1
      <4>4. x \div power(r, j - 1) = 0
        BY <1>3, <4>1, <4>3
      <4> QED
        BY <3>2, <4>4 DEF Long
    <3>3. Known(x, 1)
      BY <2>1, <3>1, <3>2
    <3> QED
      BY <3>3
  <2>2. CASE x >= r
    <3> DEFINE y == x \div r
    <3>1. y \in Nat /\ y < x /\ y > 0 /\ x = r * y + (x % r) /\ (x % r) \in 0..(r - 1)
      <4>1. y \in Nat /\ x = r * y + (x % r) /\ (x % r) \in 0..(r - 1)
        BY DivMod
      <4> HIDE DEF y
      <4>2. y > 0
        BY <2>2, <4>1
      <4>3. r * y >= 2 * y
        BY <4>1
      <4> QED
        BY <4>1, <4>2, <4>3
    <3>2. PICK k \in Nat \ {0} : Known(y, k)
      <4>1. y \in A
        BY <1>4, <3>1
      <4> QED
        BY <4>1
    <3>3. \A j \in Nat \ {0} : j > 1 => (Long(x, r, j) <=> Long(y, r, j - 1))
      <4> SUFFICES ASSUME NEW j \in Nat \ {0}, j > 1
                   PROVE  Long(x, r, j) <=> Long(y, r, j - 1)
        OBVIOUS
      <4>1. (j - 1) - 1 = j - 2
        OBVIOUS
      <4>2. x \div power(r, j - 1) = y \div power(r, j - 2)
        BY <1>3
      <4>3. CASE j = 2
        <5>1. y \div power(r, j - 2) = y
          BY <1>1, <1>2, <3>1, <4>3
        <5> QED
          BY <3>1, <4>1, <4>2, <4>3, <5>1 DEF Long
      <4>4. CASE j # 2
        <5>1. j - 1 > 1
          BY <4>4
        <5> QED
          BY <4>1, <4>2, <5>1 DEF Long
      <4> QED
        BY <4>3, <4>4
    <3>4. ~Long(x, r, 1)
      BY <1>1, <1>2, <2>2 DEF Long
    <3>5. k + 1 \in Nat \ {0} /\ k + 1 > 1 /\ (k + 1) - 1 = k
      OBVIOUS
    <3>6. Long(x, r, k + 1)
      BY <3>2, <3>3, <3>5
    <3>7. ASSUME NEW j \in Nat \ {0}, Long(x, r, j)
          PROVE  j = k + 1
      <4>1. j > 1 /\ j - 1 \in Nat \ {0}
        BY <3>4, <3>7
      <4>2. Long(y, r, j - 1)
        BY <3>3, <3>7, <4>1
      <4>3. j - 1 = k
        BY <3>2, <4>1, <4>2
      <4> QED
        BY <4>3
    <3>8. ASSUME NEW w \in Nat \ {0}, x < power(2, w)
          PROVE  k + 1 <= w
      <4>1. w # 1
        <5>1. power(2, 1) = 2
          <6>1. power(2, 0 + 1) = 2 * power(2, 0)
            BY PowerFacts
          <6> QED
            BY <1>1, <6>1
        <5> QED
          BY <2>2, <3>8, <5>1
      <4>2. w - 1 \in Nat \ {0} /\ (w - 1) + 1 = w
        BY <4>1
      <4>3. power(2, w) = 2 * power(2, w - 1) /\ power(2, w - 1) \in Nat
        BY <4>2, PowerFacts
      <4>4. r * y >= 2 * y
        BY <3>1
      <4>5. y < power(2, w - 1)
        <5> HIDE DEF y
        <5> QED
          BY <3>1, <3>8, <4>3, <4>4
      <4>6. k <= w - 1
        BY <3>2, <4>2, <4>5
      <4> QED
        BY <4>6
    <3>9. Long(x \div r, r, k)
      BY <3>2
    <3>10. Known(x, k + 1)
      <4> HIDE DEF y
      <4> QED
        BY <2>2, <3>5, <3>6, <3>7, <3>8, <3>9
    <3> QED
      BY <3>5, <3>10
  <2> QED
    BY <2>1, <2>2
<1>5. Nat \subseteq A
  <2> HIDE DEF A
  <2> QED
    BY <1>4, SetInduction
<1> QED
  BY <1>5

(* Reverse keeps the length and the members. *)
LEMMA ReverseFacts ==
  ASSUME NEW C, NEW s \in Seq(C)
  PROVE  /\ Reverse(s) \in Seq(C) /\ Len(Reverse(s)) = Len(s)
         /\ \A k \in 1..Len(s) : Reverse(s)[k] = s[(Len(s) - k) + 1]
<1>1. \A k \in 1..Len(s) : (Len(s) - k) + 1 \in 1..Len(s)
  OBVIOUS
<1>2. \A k \in 1..Len(s) : s[k] \in C
  OBVIOUS
<1>3. Reverse(s) \in [1..Len(s) -> C]
  BY <1>1, <1>2 DEF Reverse
<1>4. \A k \in 1..Len(s) : Reverse(s)[k] = s[(Len(s) - k) + 1]
  BY DEF Reverse
<1> QED
  BY <1>3, <1>4

(* Reverse exchanges what it is given in two parts. *)
LEMMA ReverseConcat ==
  ASSUME NEW C, NEW s \in Seq(C), NEW t \in Seq(C)
  PROVE  Reverse(s \o t) = Reverse(t) \o Reverse(s)
<1> DEFINE u == s \o t
           rs == Reverse(s)
           rt == Reverse(t)
           a == Reverse(u)
           b == rt \o rs
<1>1. u \in Seq(C) /\ Len(u) = Len(s) + Len(t)
  BY ConcatProperties
<1> HIDE DEF u
<1>2. /\ a \in Seq(C) /\ Len(a) = Len(s) + Len(t)
      /\ \A k \in 1..(Len(s) + Len(t)) : a[k] = u[((Len(s) + Len(t)) - k) + 1]
  <2>1. /\ a \in Seq(C) /\ Len(a) = Len(u)
        /\ \A k \in 1..Len(u) : a[k] = u[(Len(u) - k) + 1]
    BY <1>1, ReverseFacts
  <2> HIDE DEF a
  <2> QED
    BY <1>1, <2>1
<1>3. /\ rs \in Seq(C) /\ Len(rs) = Len(s)
      /\ \A k \in 1..Len(s) : rs[k] = s[(Len(s) - k) + 1]
  BY ReverseFacts
<1>4. /\ rt \in Seq(C) /\ Len(rt) = Len(t)
      /\ \A k \in 1..Len(t) : rt[k] = t[(Len(t) - k) + 1]
  BY ReverseFacts
<1> HIDE DEF rs, rt
<1>5. /\ b \in Seq(C) /\ Len(b) = Len(t) + Len(s)
      /\ \A k \in 1..(Len(t) + Len(s)) :
           b[k] = IF k <= Len(t) THEN rt[k] ELSE rs[k - Len(t)]
  <2>0. rt \in Seq(C) /\ rs \in Seq(C)
    BY <1>3, <1>4
  <2>1. /\ b \in Seq(C) /\ Len(b) = Len(rt) + Len(rs)
        /\ \A k \in 1..(Len(rt) + Len(rs)) : b[k] = IF k <= Len(rt) THEN rt[k] ELSE rs[k - Len(rt)]
    BY <2>0, ConcatProperties
  <2> HIDE DEF b
  <2> QED
    BY <1>3, <1>4, <2>1
<1>6. ASSUME NEW k \in 1..Len(a)
      PROVE  a[k] = b[k]
  <2> DEFINE m == ((Len(s) + Len(t)) - k) + 1
  <2>1. m \in 1..(Len(s) + Len(t)) /\ k \in 1..(Len(s) + Len(t))
    BY <1>2
  <2>2. a[k] = IF m <= Len(s) THEN s[m] ELSE t[m - Len(s)]
    <3>1. a[k] = u[m]
      BY <1>2, <2>1
    <3> QED
      BY <2>1, <3>1, ConcatProperties DEF u
  <2>3. CASE k <= Len(t)
    <3>1. ~(m <= Len(s)) /\ m - Len(s) = (Len(t) - k) + 1 /\ k \in 1..Len(t)
      BY <2>1, <2>3
    <3> QED
      BY <1>4, <1>5, <2>1, <2>2, <3>1
  <2>4. CASE ~(k <= Len(t))
    <3>1. m <= Len(s) /\ m = (Len(s) - (k - Len(t))) + 1 /\ k - Len(t) \in 1..Len(s)
      BY <2>1, <2>4
    <3>2. b[k] = rs[k - Len(t)]
      BY <1>5, <2>1, <2>4
    <3>3. rs[k - Len(t)] = s[m]
      BY <1>3, <3>1
    <3> QED
      BY <2>2, <3>1, <3>2, <3>3
  <2> QED
    BY <2>3, <2>4
<1> HIDE DEF a, b
<1>7. a = b
  BY <1>2, <1>5, <1>6, SeqEqual
<1> QED
  BY <1>7 DEF a, b, u, rs, rt

(* One member reversed is itself. *)
LEMMA ReverseOne ==
  ASSUME NEW c
  PROVE  Reverse(<<c>>) = <<c>>
  BY DEF Reverse

(* The digits of a number from the last one on: the loop of itoa and uitoa, *)
(* and by place value.                                                      *)
LEMMA DigitCharacters ==
  /\ \A d \in Nat : digit(d) \in Characters
  /\ minus \in Characters /\ point \in Characters /\ NUL \notin Characters
  /\ \A r \in {2, 10, 16} : prefix(r) \in Seq(Characters) /\ suffix(r) \in Seq(Characters)
<1>1. \A d \in Nat : digit(d) \in Characters
  BY DEF digit, Characters
<1>2. minus \in Characters /\ point \in Characters /\ NUL \notin Characters
  BY KernelFormatAssumption DEF minus, point, NUL, Characters
<1>3. \A c \in {"b", "x", "B", "H"} : <<c, 0>> \in Characters
  BY DEF Characters
<1>4. ASSUME NEW r \in {2, 10, 16}
      PROVE  prefix(r) \in Seq(Characters) /\ suffix(r) \in Seq(Characters)
  <2>1. CASE r = 2
    BY <1>1, <1>3, <2>1 DEF prefix, suffix
  <2>2. CASE r = 10
    BY <2>2 DEF prefix, suffix
  <2>3. CASE r = 16
    BY <1>1, <1>3, <2>3 DEF prefix, suffix
  <2> QED
    BY <2>1, <2>2, <2>3
<1> QED
  BY <1>1, <1>2, <1>4

(* The last k digits of v by place value, the last one first. *)
digitPlaces(v, r, k) == [j \in 1..k |-> digit((v \div power(r, j - 1)) % r)]

(* Digits are characters. *)
LEMMA PlacesAreCharacters ==
  ASSUME NEW v \in Nat, NEW r \in Nat \ {0}, NEW k \in Nat
  PROVE  digitPlaces(v, r, k) \in Seq(Characters) /\ Len(digitPlaces(v, r, k)) = k
<1>1. ASSUME NEW j \in 1..k
      PROVE  digit((v \div power(r, j - 1)) % r) \in Characters
  <2>1. j - 1 \in Nat
    OBVIOUS
  <2>2. power(r, j - 1) \in Nat \ {0}
    BY <2>1, PowerFacts
  <2>3. v \div power(r, j - 1) \in Nat
    BY <2>2
  <2>4. (v \div power(r, j - 1)) % r \in Nat
    BY <2>3
  <2> QED
    BY <2>4, DigitCharacters
<1>2. digitPlaces(v, r, k) \in [1..k -> Characters]
  BY <1>1 DEF digitPlaces
<1> QED
  BY <1>2

(* The loop of itoa and uitoa stores the digits by place value. *)
LEMMA UpwardsByPlace ==
  ASSUME NEW r \in Nat \ {0, 1}, NEW v \in Nat
  PROVE  \E k \in Nat \ {0} :
           /\ Long(v, r, k)
           /\ \A j \in Nat \ {0} : Long(v, r, j) => j = k
           /\ \A w \in Nat \ {0} : v < power(2, w) => k <= w
           /\ upwards(v, r) = digitPlaces(v, r, k)
<1> DEFINE equation(f) ==
             f = [x \in Nat |-> IF x < r THEN <<digit(x)>>
                                ELSE <<digit(x % r)>> \o f[x \div r]]
           rest == CHOOSE f : equation(f)
           length(x) == CHOOSE k \in Nat \ {0} : Long(x, r, k)
           g == [x \in Nat |-> digitPlaces(x, r, length(x))]
<1>1. ASSUME NEW x \in Nat
      PROVE  /\ length(x) \in Nat \ {0} /\ Long(x, r, length(x))
             /\ \A j \in Nat \ {0} : Long(x, r, j) => j = length(x)
             /\ \A w \in Nat \ {0} : x < power(2, w) => length(x) <= w
             /\ x < r => length(x) = 1
             /\ x >= r => length(x) > 1 /\ length(x \div r) = length(x) - 1
  <2>1. PICK k \in Nat \ {0} :
           /\ Long(x, r, k)
           /\ \A j \in Nat \ {0} : Long(x, r, j) => j = k
           /\ \A w \in Nat \ {0} : x < power(2, w) => k <= w
           /\ x < r => k = 1
           /\ x >= r => k > 1 /\ Long(x \div r, r, k - 1)
    BY Lengths
  <2>2. length(x) = k
    BY <2>1
  <2>3. x >= r => length(x \div r) = k - 1
    <3> SUFFICES ASSUME x >= r
                 PROVE  length(x \div r) = k - 1
      OBVIOUS
    <3>1. x \div r \in Nat
      OBVIOUS
    <3>2. \E i \in Nat \ {0} : \A j \in Nat \ {0} : Long(x \div r, r, j) => j = i
      BY <3>1, Lengths
    <3>3. k - 1 \in Nat \ {0} /\ Long(x \div r, r, k - 1)
      BY <2>1
    <3> QED
      BY <3>2, <3>3
  <2> HIDE DEF length
  <2> QED
    BY <2>1, <2>2, <2>3
<1> HIDE DEF length
<1>2. ASSUME NEW x \in Nat
      PROVE  g[x] = IF x < r THEN <<digit(x)>> ELSE <<digit(x % r)>> \o g[x \div r]
  <2>1. CASE x < r
    <3>1. digitPlaces(x, r, 1) = <<digit((x \div power(r, 1 - 1)) % r)>>
      BY DEF digitPlaces
    <3>2. power(r, 1 - 1) = 1
      BY PowerFacts
    <3>3. (x \div 1) % r = x
      BY <2>1
    <3> QED
      BY <1>1, <2>1, <3>1, <3>2, <3>3
  <2>2. CASE x >= r
    <3> DEFINE y == x \div r
               k == length(x)
               residue == digitPlaces(x, r, k)
               right == <<digit(x % r)>> \o digitPlaces(y, r, k - 1)
    <3>1. y \in Nat /\ x % r \in Nat /\ k \in Nat /\ k > 1 /\ k - 1 \in Nat /\ length(y) = k - 1
      <4>1. y \in Nat /\ x % r \in Nat
        OBVIOUS
      <4> QED
        BY <1>1, <2>2, <4>1
    <3> HIDE DEF y, k
    <3>2. residue \in Seq(Characters) /\ Len(residue) = k
      BY <3>1, PlacesAreCharacters
    <3>3. digitPlaces(y, r, k - 1) \in Seq(Characters) /\ Len(digitPlaces(y, r, k - 1)) = k - 1
      BY <3>1, PlacesAreCharacters
    <3>4. <<digit(x % r)>> \in Seq(Characters) /\ Len(<<digit(x % r)>>) = 1
      BY <3>1, DigitCharacters
    <3>5. /\ right \in Seq(Characters) /\ Len(right) = 1 + (k - 1)
          /\ \A i \in 1..(1 + (k - 1)) :
               right[i] = IF i <= 1 THEN <<digit(x % r)>>[i] ELSE digitPlaces(y, r, k - 1)[i - 1]
      <4> DEFINE one == <<digit(x % r)>>
                 others == digitPlaces(y, r, k - 1)
      <4>1. one \in Seq(Characters) /\ Len(one) = 1 /\ others \in Seq(Characters) /\ Len(others) = k - 1
        BY <3>3, <3>4
      <4> HIDE DEF one, others
      <4> DEFINE both == one \o others
      <4>2. /\ both \in Seq(Characters) /\ Len(both) = Len(one) + Len(others)
            /\ \A i \in 1..(Len(one) + Len(others)) :
                 both[i] = IF i <= Len(one) THEN one[i] ELSE others[i - Len(one)]
        BY <4>1, ConcatProperties
      <4> HIDE DEF both
      <4>3. /\ both \in Seq(Characters) /\ Len(both) = 1 + (k - 1)
            /\ \A i \in 1..(1 + (k - 1)) : both[i] = IF i <= 1 THEN one[i] ELSE others[i - 1]
        BY <4>1, <4>2
      <4> QED
        BY <4>3 DEF both, one, others
    <3>6. ASSUME NEW i \in 1..Len(residue)
          PROVE  residue[i] = right[i]
      <4>1. i \in 1..k /\ i \in 1..(1 + (k - 1)) /\ i \in Nat
        BY <3>1, <3>2
      <4>2. residue[i] = digit((x \div power(r, i - 1)) % r)
        BY <4>1 DEF digitPlaces
      <4>3. CASE i = 1
        <5>1. power(r, i - 1) = 1
          BY <4>3, PowerFacts
        <5>2. residue[i] = digit(x % r)
          BY <4>2, <5>1
        <5> QED
          BY <3>5, <4>1, <4>3, <5>2
      <4>4. CASE i # 1
        <5>1. i - 1 \in 1..(k - 1) /\ i - 2 \in Nat /\ (i - 2) + 1 = i - 1 /\ (i - 1) - 1 = i - 2
          BY <3>1, <4>1, <4>4
        <5>2. x \div power(r, (i - 2) + 1) = y \div power(r, i - 2)
          BY <5>1, PlacesShift DEF y
        <5>3. digitPlaces(y, r, k - 1)[i - 1] = digit((y \div power(r, (i - 1) - 1)) % r)
          BY <5>1 DEF digitPlaces
        <5>4. right[i] = digitPlaces(y, r, k - 1)[i - 1]
          BY <3>5, <4>1, <4>4
        <5> QED
          BY <4>2, <5>1, <5>2, <5>3, <5>4
      <4> QED
        BY <4>3, <4>4
    <3>7. Len(residue) = Len(right)
      BY <3>1, <3>2, <3>5
    <3>8. residue = right
      <4> HIDE DEF residue, right
      <4> QED
        BY <3>2, <3>5, <3>6, <3>7, SeqEqual
    <3>9. g[x] = residue /\ g[y] = digitPlaces(y, r, k - 1)
      BY <3>1 DEF k
    <3>10. g[x] = <<digit(x % r)>> \o g[y]
      BY <3>8, <3>9
    <3> QED
      <4> HIDE DEF g
      <4> QED
        BY <2>2, <3>10 DEF y
  <2> QED
    BY <2>1, <2>2
<1>3. equation(g)
  <2> DEFINE h == [x \in Nat |-> IF x < r THEN <<digit(x)>>
                                 ELSE <<digit(x % r)>> \o g[x \div r]]
  <2>1. \A x \in Nat : g[x] = h[x]
    BY <1>2
  <2>2. DOMAIN g = Nat /\ DOMAIN h = Nat /\ g = [x \in Nat |-> g[x]] /\ h = [x \in Nat |-> h[x]]
    OBVIOUS
  <2>3. g = h
    <3> HIDE DEF g, h
    <3> QED
      BY <2>1, <2>2
  <2> QED
    BY <2>3
<1>4. equation(rest)
  <2> HIDE DEF g
  <2> QED
    BY <1>3
<1>5. upwards(v, r) = rest[v]
  BY DEF upwards
<1> DEFINE A == {x \in Nat : rest[x] = g[x]}
<1>6. ASSUME NEW x \in Nat, \A y \in Nat : y < x => y \in A
      PROVE  x \in A
  <2>1. rest[x] = IF x < r THEN <<digit(x)>> ELSE <<digit(x % r)>> \o rest[x \div r]
    <3> HIDE DEF rest
    <3> QED
      BY <1>4
  <2> HIDE DEF g, rest
  <2>2. CASE x < r
    BY <1>2, <2>1, <2>2
  <2>3. CASE x >= r
    <3>1. x \div r \in Nat /\ x \div r < x
      <4> DEFINE y == x \div r
      <4>1. y \in Nat /\ x = r * y + (x % r) /\ (x % r) \in 0..(r - 1)
        BY DivMod
      <4> HIDE DEF y
      <4>2. r * y >= 2 * y
        BY <4>1
      <4>3. y < x
        BY <2>3, <4>1, <4>2
      <4> QED
        BY <4>1, <4>3 DEF y
    <3>2. rest[x \div r] = g[x \div r]
      BY <1>6, <3>1
    <3> QED
      BY <1>2, <2>1, <2>3, <3>2
  <2> QED
    BY <2>2, <2>3
<1>7. Nat \subseteq A
  <2> HIDE DEF A
  <2> QED
    BY <1>6, SetInduction
<1>8. upwards(v, r) = digitPlaces(v, r, length(v))
  <2> HIDE DEF rest
  <2> QED
    BY <1>5, <1>7
<1> QED
  BY <1>1, <1>8

(* The sizes are numbers. *)
LEMMA FormatSizes ==
  /\ W \in Nat \ {0, 1} /\ ReverseSize \in Nat /\ ReverseSize >= W + 3
  /\ BufferSize \in Nat \ {0} /\ Parts \in Nat \ {0}
  /\ Strings \in Seq(Seq(Characters))
  /\ \A m \in Messages : m \in Seq(Range(m)) /\ \A i \in Range(m) : passed(i)
  /\ power(2, W - 1) \in Nat \ {0} /\ power(2, W) = 2 * power(2, W - 1)
  /\ INT_MIN = -power(2, W - 1)
<1>1. W - 1 \in Nat /\ (W - 1) + 1 = W
  BY KernelFormatAssumption
<1>2. power(2, W - 1) \in Nat \ {0} /\ power(2, W) = 2 * power(2, W - 1)
  BY <1>1, PowerFacts
<1> QED
  BY <1>2, KernelFormatAssumption DEF INT_MIN

(* va_arg yields an int, whatever the argument. *)
LEMMA IntRange ==
  ASSUME NEW v \in Int
  PROVE  /\ asUnsigned(v) \in Nat /\ asUnsigned(v) < power(2, W)
         /\ asInt(v) \in INT_MIN..(-INT_MIN - 1)
<1>1. power(2, W) \in Nat \ {0}
  BY FormatSizes
<1>2. v % power(2, W) \in 0..(power(2, W) - 1)
  BY <1>1
<1>3. asUnsigned(v) \in Nat /\ asUnsigned(v) < power(2, W)
  BY <1>1, <1>2 DEF asUnsigned
<1> QED
  BY <1>1, <1>3, FormatSizes DEF asInt

(* A number as it is meant is what the loop stores, reversed. *)
LEMMA NumeralFacts ==
  ASSUME NEW r \in Nat \ {0, 1}, NEW v \in Nat, v < power(2, W)
  PROVE  /\ upwards(v, r) \in Seq(Characters) /\ Len(upwards(v, r)) <= W
         /\ numeral(v, r) \in Seq(Characters)
         /\ Reverse(upwards(v, r)) = numeral(v, r)
<1>1. PICK k \in Nat \ {0} :
        /\ Long(v, r, k)
        /\ \A j \in Nat \ {0} : Long(v, r, j) => j = k
        /\ \A w \in Nat \ {0} : v < power(2, w) => k <= w
        /\ upwards(v, r) = digitPlaces(v, r, k)
  BY UpwardsByPlace
<1>2. k <= W
  BY <1>1, FormatSizes
<1> DEFINE length == CHOOSE j \in 1..W : /\ v \div power(r, j - 1) < r
                                         /\ j > 1 => v \div power(r, j - 1) > 0
           s == digitPlaces(v, r, k)
<1>3. length = k
  <2>1. length = CHOOSE j \in 1..W : Long(v, r, j)
    BY DEF Long
  <2>2. k \in 1..W /\ \A j \in 1..W : j \in Nat \ {0}
    BY <1>2, FormatSizes
  <2> QED
    BY <1>1, <2>1, <2>2
<1>4. numeral(v, r) = [j \in 1..length |-> digit((v \div power(r, length - j)) % r)]
  BY DEF numeral
<1> HIDE DEF length
<1>5. s \in Seq(Characters) /\ Len(s) = k
  BY PlacesAreCharacters
<1>6. \A j \in 1..k : s[j] = digit((v \div power(r, j - 1)) % r)
  BY DEF digitPlaces
<1> HIDE DEF s
<1>7. Reverse(s) = [j \in 1..k |-> s[(k - j) + 1]]
  BY <1>5 DEF Reverse
<1>8. ASSUME NEW j \in 1..k
      PROVE  s[(k - j) + 1] = digit((v \div power(r, k - j)) % r)
  <2>1. (k - j) + 1 \in 1..k /\ ((k - j) + 1) - 1 = k - j
    OBVIOUS
  <2> QED
    BY <1>6, <2>1
<1>9. Reverse(s) = numeral(v, r)
  BY <1>3, <1>4, <1>7, <1>8
<1>10. Reverse(s) \in Seq(Characters)
  BY <1>5, ReverseFacts
<1> QED
  BY <1>1, <1>2, <1>5, <1>9, <1>10 DEF s

(* Nothing reversed is nothing. *)
LEMMA ReverseEmpty == Reverse(<< >>) = << >>
  BY DEF Reverse

(* Concatenation, as something the provers do not look into. *)
join(x, y) == x \o y

(* What a concatenation has at its places. *)
LEMMA JoinFacts ==
  ASSUME NEW D
  PROVE  /\ \A x, y \in Seq(D) : join(x, y) \in Seq(D) /\ Len(join(x, y)) = Len(x) + Len(y)
         /\ \A x, y, z \in Seq(D) : join(join(x, y), z) = join(x, join(y, z))
         /\ \A x, y \in Seq(D) : Reverse(join(x, y)) = join(Reverse(y), Reverse(x))
<1>1. \A x, y \in Seq(D) : join(x, y) \in Seq(D) /\ Len(join(x, y)) = Len(x) + Len(y)
  <2> TAKE x, y \in Seq(D)
  <2> QED
    BY ConcatProperties DEF join
<1>2. \A x, y, z \in Seq(D) : join(join(x, y), z) = join(x, join(y, z))
  <2> TAKE x, y, z \in Seq(D)
  <2> QED
    BY ConcatAssociative DEF join
<1>3. \A x, y \in Seq(D) : Reverse(join(x, y)) = join(Reverse(y), Reverse(x))
  <2> TAKE x, y \in Seq(D)
  <2> QED
    BY ReverseConcat DEF join
<1> QED
  BY <1>1, <1>2, <1>3

(* Five parts in a row, however they are grouped. *)
LEMMA Regroup ==
  ASSUME NEW D, NEW a \in Seq(D), NEW b \in Seq(D), NEW c \in Seq(D), NEW d \in Seq(D), NEW e \in Seq(D)
  PROVE  join(a, join(b, join(c, join(d, e)))) = join(join(join(join(a, b), c), d), e)
<1>1. /\ \A x, y \in Seq(D) : join(x, y) \in Seq(D)
      /\ \A x, y, z \in Seq(D) : join(join(x, y), z) = join(x, join(y, z))
  <2>1. \A x, y \in Seq(D) : join(x, y) \in Seq(D)
    BY JoinFacts
  <2>2. \A x, y, z \in Seq(D) : join(join(x, y), z) = join(x, join(y, z))
    BY JoinFacts, Z3
  <2> QED
    BY <2>1, <2>2
<1>2. join(d, e) \in Seq(D) /\ join(c, join(d, e)) \in Seq(D) /\ join(a, b) \in Seq(D) /\ join(join(a, b), c) \in Seq(D)
  BY <1>1
<1> QED
  BY <1>1, <1>2

(* Four parts in a row, reversed. *)
LEMMA ReverseFour ==
  ASSUME NEW D, NEW a \in Seq(D), NEW b \in Seq(D), NEW c \in Seq(D), NEW d \in Seq(D)
  PROVE  /\ Reverse(join(join(join(a, b), c), d)) =
              join(Reverse(d), join(Reverse(c), join(Reverse(b), Reverse(a))))
         /\ Len(join(join(join(a, b), c), d)) = Len(a) + Len(b) + Len(c) + Len(d)
<1>1. /\ \A x, y \in Seq(D) : join(x, y) \in Seq(D) /\ Len(join(x, y)) = Len(x) + Len(y)
      /\ \A x, y \in Seq(D) : Reverse(join(x, y)) = join(Reverse(y), Reverse(x))
  BY JoinFacts
<1>2. join(a, b) \in Seq(D) /\ join(join(a, b), c) \in Seq(D)
  BY <1>1
<1>3. Len(join(join(join(a, b), c), d)) = ((Len(a) + Len(b)) + Len(c)) + Len(d)
  <2>1. Len(join(a, b)) = Len(a) + Len(b)
    BY <1>1
  <2>2. Len(join(join(a, b), c)) = Len(join(a, b)) + Len(c)
    BY <1>1, <1>2
  <2>3. Len(join(join(join(a, b), c), d)) = Len(join(join(a, b), c)) + Len(d)
    BY <1>1, <1>2
  <2> QED
    BY <2>1, <2>2, <2>3
<1>4. Reverse(join(join(join(a, b), c), d)) = join(Reverse(d), Reverse(join(join(a, b), c)))
  BY <1>1, <1>2
<1>5. Reverse(join(join(a, b), c)) = join(Reverse(c), Reverse(join(a, b)))
  BY <1>1, <1>2
<1>6. Reverse(join(a, b)) = join(Reverse(b), Reverse(a))
  BY <1>1
<1> QED
  BY <1>3, <1>4, <1>5, <1>6

(* What is stored in the buffer: characters and terminators. *)
Written == Characters \cup {NUL}

(* The minus in front of a number. *)
sign(value) == IF value < 0 THEN <<minus>> ELSE << >>

(* Parts that are written are written in a row. *)
LEMMA WrittenSequences ==
  /\ \A s \in Seq(Characters) : s \in Seq(Written)
  /\ <<NUL>> \in Seq(Written) /\ Len(<<NUL>>) = 1
<1>1. Characters \subseteq Written
  BY DEF Written
<1>2. \A s \in Seq(Characters) : s \in Seq(Written)
  BY <1>1, SeqMonotonic
<1>3. NUL \in Written
  BY DEF Written
<1> QED
  BY <1>2, <1>3

(* A sign is none or one character. *)
LEMMA SignFacts ==
  ASSUME NEW value \in Int
  PROVE  sign(value) \in Seq(Characters) /\ Len(sign(value)) <= 1 /\ Reverse(sign(value)) = sign(value)
<1>1. CASE value < 0
  BY <1>1, DigitCharacters, ReverseOne DEF sign
<1>2. CASE ~(value < 0)
  BY <1>2, ReverseEmpty DEF sign
<1> QED
  BY <1>1, <1>2

(* Prefix and suffix are characters, at most two and one. *)
LEMMA SuffixFacts ==
  ASSUME NEW r \in {2, 10, 16}
  PROVE  /\ prefix(r) \in Seq(Characters)
         /\ suffix(r) \in Seq(Characters) /\ Len(suffix(r)) <= 1 /\ Reverse(suffix(r)) = suffix(r)
<1>1. prefix(r) \in Seq(Characters) /\ suffix(r) \in Seq(Characters)
  BY DigitCharacters
<1>2. Len(suffix(r)) <= 1 /\ Reverse(suffix(r)) = suffix(r)
  <2>1. CASE r = 2
    BY <2>1, ReverseOne DEF suffix
  <2>2. CASE r = 10
    BY <2>2, ReverseEmpty DEF suffix
  <2>3. CASE r = 16
    BY <2>3, ReverseOne DEF suffix
  <2> QED
    BY <2>1, <2>2, <2>3
<1> QED
  BY <1>1, <1>2

(* What the negation of the least int may amount to. *)
Luck == {"none", "digits", "garbage"}

(* The digits that signed means for an int. *)
digitsShown(value, r) ==
  IF value = INT_MIN THEN Reverse(magnitude(value, r))
  ELSE numeral(IF value < 0 THEN -value ELSE value, r)

(* The digits itoa stores are those, reversed, and at most W. *)
LEMMA MagnitudeFacts ==
  ASSUME luck \in Luck, NEW r \in Nat \ {0, 1}, NEW value \in INT_MIN..(-INT_MIN - 1)
  PROVE  /\ magnitude(value, r) \in Seq(Characters) /\ Len(magnitude(value, r)) <= W
         /\ Reverse(magnitude(value, r)) = digitsShown(value, r)
         /\ digitsShown(value, r) \in Seq(Characters)
<1>1. CASE value # INT_MIN
  <2> DEFINE v == IF value < 0 THEN -value ELSE value
  <2>1. v \in Nat /\ v < power(2, W)
    BY <1>1, FormatSizes
  <2>2. magnitude(value, r) = upwards(v, r) /\ digitsShown(value, r) = numeral(v, r)
    BY <1>1 DEF magnitude, digitsShown
  <2> HIDE DEF v
  <2> QED
    BY <2>1, <2>2, NumeralFacts
<1>2. CASE value = INT_MIN
  <2> DEFINE up == upwards(-INT_MIN, r)
  <2>1. -INT_MIN \in Nat /\ -INT_MIN < power(2, W)
    BY FormatSizes
  <2>2. up \in Seq(Characters) /\ Len(up) <= W
    BY <2>1, NumeralFacts
  <2> HIDE DEF up
  <2>3. magnitude(value, r) \in Seq(Characters) /\ Len(magnitude(value, r)) <= W
    <3>1. CASE luck = "none"
      <4>1. magnitude(value, r) = << >>
        BY <1>2, <3>1 DEF magnitude
      <4> QED
        BY <4>1, FormatSizes
    <3>2. CASE luck = "digits"
      <4>1. magnitude(value, r) = up
        BY <1>2, <3>2 DEF magnitude, up
      <4> QED
        BY <2>2, <4>1
    <3>3. CASE luck = "garbage"
      <4>1. magnitude(value, r) = [k \in DOMAIN up |-> <<"garbage", k>>]
        BY <1>2, <3>3 DEF magnitude, up
      <4>2. \A k \in 1..Len(up) : <<"garbage", k>> \in Characters
        BY DEF Characters
      <4>3. DOMAIN up = 1..Len(up) /\ Len(up) \in Nat
        BY <2>2
      <4>4. magnitude(value, r) \in [1..Len(up) -> Characters]
        BY <4>1, <4>2, <4>3
      <4> QED
        BY <2>2, <4>3, <4>4
    <3> QED
      BY <3>1, <3>2, <3>3 DEF Luck
  <2>4. digitsShown(value, r) = Reverse(magnitude(value, r))
    BY <1>2 DEF digitsShown
  <2> QED
    BY <2>3, <2>4, ReverseFacts
<1> QED
  BY <1>1, <1>2

(* itoa stores what signed means and a terminator, and reverse can hold *)
(* it.                                                                  *)
LEMMA ItoaFacts ==
  ASSUME luck \in Luck, NEW r \in {2, 10, 16}, NEW value \in INT_MIN..(-INT_MIN - 1)
  PROVE  /\ itoa(value, r) = signed(value, r) \o <<NUL>>
         /\ signed(value, r) \in Seq(Characters)
         /\ Len(itoaReverse(value, r)) \in 0..(W + 3)
<1> DEFINE n == <<NUL>>
           pre == prefix(r)
           sfx == suffix(r)
           mag == magnitude(value, r)
           middle == digitsShown(value, r)
           sgn == sign(value)
<1>1. value \in Int /\ r \in Nat \ {0, 1}
  BY FormatSizes
<1>2. signed(value, r) = join(join(join(pre, sgn), middle), sfx)
  BY DEF signed, digitsShown, sign, join
<1>3. itoaReverse(value, r) = join(join(join(n, sfx), mag), sgn)
  BY DEF itoaReverse, sign, join
<1>4. pre \in Seq(Characters) /\ sfx \in Seq(Characters) /\ Len(sfx) <= 1 /\ Reverse(sfx) = sfx
  BY SuffixFacts
<1>5. mag \in Seq(Characters) /\ Len(mag) <= W /\ Reverse(mag) = middle /\ middle \in Seq(Characters)
  BY <1>1, MagnitudeFacts
<1>6. sgn \in Seq(Characters) /\ Len(sgn) <= 1 /\ Reverse(sgn) = sgn
  BY <1>1, SignFacts
<1>7. n \in Seq(Written) /\ Len(n) = 1 /\ Reverse(n) = n
  BY WrittenSequences, ReverseOne
<1>8. itoa(value, r) = join(pre, Reverse(itoaReverse(value, r)))
  BY DEF itoa, join
<1> HIDE DEF n, pre, sfx, mag, middle, sgn
<1>9. pre \in Seq(Written) /\ sfx \in Seq(Written) /\ mag \in Seq(Written) /\ middle \in Seq(Written) /\ sgn \in Seq(Written)
  BY <1>4, <1>5, <1>6, WrittenSequences
<1>10. /\ Reverse(itoaReverse(value, r)) = join(sgn, join(middle, join(sfx, n)))
       /\ Len(itoaReverse(value, r)) = Len(n) + Len(sfx) + Len(mag) + Len(sgn)
  <2>0. n \in Seq(Written) /\ sfx \in Seq(Written) /\ mag \in Seq(Written) /\ sgn \in Seq(Written)
    BY <1>7, <1>9
  <2>1. /\ Reverse(join(join(join(n, sfx), mag), sgn)) =
             join(Reverse(sgn), join(Reverse(mag), join(Reverse(sfx), Reverse(n))))
        /\ Len(join(join(join(n, sfx), mag), sgn)) = Len(n) + Len(sfx) + Len(mag) + Len(sgn)
    BY <2>0, ReverseFour
  <2> QED
    BY <1>3, <1>4, <1>5, <1>6, <1>7, <2>1
<1>11. join(pre, join(sgn, join(middle, join(sfx, n)))) = join(join(join(join(pre, sgn), middle), sfx), n)
  BY <1>7, <1>9, Regroup
<1>12. itoa(value, r) = join(signed(value, r), n)
  BY <1>2, <1>8, <1>10, <1>11
<1>13. signed(value, r) \in Seq(Characters)
  <2>1. join(pre, sgn) \in Seq(Characters)
    BY <1>4, <1>6, JoinFacts
  <2>2. join(join(pre, sgn), middle) \in Seq(Characters)
    BY <1>5, <2>1, JoinFacts
  <2>3. join(join(join(pre, sgn), middle), sfx) \in Seq(Characters)
    BY <1>4, <2>2, JoinFacts
  <2> QED
    BY <1>2, <2>3
<1>14. Len(itoaReverse(value, r)) \in 0..(W + 3)
  <2>1. Len(sfx) \in Nat /\ Len(mag) \in Nat /\ Len(sgn) \in Nat
    BY <1>9
  <2> QED
    BY <1>4, <1>5, <1>6, <1>7, <1>10, <2>1, FormatSizes
<1> QED
  BY <1>12, <1>13, <1>14 DEF n, join

(* uitoa stores the numeral and a terminator, and nothing for 0. *)
LEMMA UitoaFacts ==
  ASSUME NEW v \in Nat, v < power(2, W)
  PROVE  LET text == IF v = 0 THEN << >> ELSE numeral(v, 16)
         IN  uitoa(v, 16) = text \o <<NUL>> /\ text \in Seq(Characters)
<1> DEFINE text == IF v = 0 THEN << >> ELSE numeral(v, 16)
           body == IF v = 0 THEN << >> ELSE upwards(v, 16)
<1>1. body \in Seq(Characters) /\ text \in Seq(Characters) /\ Reverse(body) = text
  <2>1. CASE v = 0
    BY <2>1, ReverseEmpty
  <2>2. CASE v # 0
    BY <2>2, NumeralFacts
  <2> QED
    BY <2>1, <2>2
<1>2. uitoa(v, 16) = Reverse(<<NUL>> \o body)
  BY DEF uitoa
<1> HIDE DEF text, body
<1>3. Reverse(<<NUL>> \o body) = Reverse(body) \o Reverse(<<NUL>>)
  BY <1>1, WrittenSequences, ReverseConcat
<1> QED
  BY <1>1, <1>2, <1>3, ReverseOne DEF text

(* Front takes the terminator off. *)
LEMMA FrontFacts ==
  ASSUME NEW D, NEW s \in Seq(D), NEW c \in D
  PROVE  Front(s \o <<c>>) = s
<1> DEFINE one == <<c>>
           t == s \o one
<1>1. one \in Seq(D) /\ Len(one) = 1
  OBVIOUS
<1> HIDE DEF one
<1>2. /\ t \in Seq(D) /\ Len(t) = Len(s) + Len(one)
      /\ \A i \in 1..(Len(s) + Len(one)) : t[i] = IF i <= Len(s) THEN s[i] ELSE one[i - Len(s)]
  BY <1>1, ConcatProperties
<1> HIDE DEF t
<1>3. Len(t) = Len(s) + 1 /\ \A i \in 1..Len(s) : t[i] = s[i]
  BY <1>1, <1>2
<1>4. SubSeq(t, 1, Len(s)) = s
  <2> DEFINE u == SubSeq(t, 1, Len(s))
  <2>1. u \in Seq(D) /\ Len(u) = Len(s) /\ \A i \in 1..Len(s) : u[i] = t[i]
    BY <1>2, <1>3
  <2> HIDE DEF u
  <2>2. u = s
    BY <1>3, <2>1, SeqEqual
  <2> QED
    BY <2>2 DEF u
<1>5. Front(t) = SubSeq(t, 1, Len(s))
  BY <1>3 DEF Front
<1> QED
  BY <1>4, <1>5 DEF t, one

(* The powers of ten that decimals uses. *)
LEMMA PowersOfTen ==
  /\ power(10, 0) = 1
  /\ \A k \in Nat : power(10, k) \in Nat \ {0} /\ power(10, k + 1) = 10 * power(10, k)
<1>1. PICK ten \in Nat \ {0} : ten = 10
  OBVIOUS
<1>2. /\ power(ten, 0) = 1
      /\ \A k \in Nat : power(ten, k) \in Nat \ {0} /\ power(ten, k + 1) = ten * power(ten, k)
  BY PowerFacts
<1> QED
  BY <1>1, <1>2

(* The next place of a fraction, and what is left of it. *)
LEMMA NextPlace ==
  ASSUME NEW x \in Nat, NEW b \in Nat \ {0}
  PROVE  /\ (10 * x) % b = ((x % b) * 10) % b
         /\ ((10 * x) \div b) % 10 = ((x % b) * 10) \div b
         /\ ((x % b) * 10) \div b \in Nat
<1> DEFINE q == x \div b
           r == x % b
           u == (r * 10) \div b
           v == (r * 10) % b
<1>1. q \in Nat /\ r \in 0..(b - 1) /\ x = b * q + r
  BY DivMod
<1> HIDE DEF q, r
<1>2. u \in Nat /\ v \in 0..(b - 1) /\ r * 10 = b * u + v
  <2>1. r * 10 \in Nat
    BY <1>1
  <2> QED
    BY <2>1, DivMod
<1> HIDE DEF u, v
<1>3. 10 * x = b * (10 * q + u) + v
  <2>1. 10 * x = 10 * (b * q) + r * 10
    BY <1>1
  <2>2. 10 * (b * q) = b * (10 * q)
    BY <1>1
  <2>3. b * (10 * q + u) = b * (10 * q) + b * u
    BY <1>1, <1>2
  <2>4. b * (10 * q) \in Nat /\ b * u \in Nat
    BY <1>1, <1>2
  <2> QED
    BY <1>1, <1>2, <2>1, <2>2, <2>3, <2>4
<1>4. 10 * q + u \in Nat /\ 10 * x \in Nat
  BY <1>1, <1>2
<1>5. (10 * x) \div b = 10 * q + u /\ (10 * x) % b = v
  <2> DEFINE n == 10 * x
             m == 10 * q + u
  <2>1. n \in Nat /\ m \in Nat /\ n = b * m + v
    BY <1>3, <1>4
  <2> HIDE DEF n, m
  <2>2. n \div b = m /\ n % b = v
    BY <1>2, <2>1, Quotient
  <2> QED
    BY <2>2 DEF n, m
<1>6. u \in 0..9
  <2>1. b * u <= r * 10
    BY <1>1, <1>2
  <2>2. r * 10 < b * 10
    BY <1>1
  <2>3. SUFFICES ASSUME u >= 10
                 PROVE  FALSE
    BY <1>2
  <2>4. b * u >= b * 10
    BY <1>2, <2>3
  <2>5. b * u \in Nat /\ r * 10 \in Nat /\ b * 10 \in Nat
    BY <1>1, <1>2
  <2> QED
    BY <2>1, <2>2, <2>4, <2>5
<1>7. (10 * q + u) % 10 = u
  BY <1>1, <1>6
<1> QED
  BY <1>2, <1>5, <1>7 DEF u, v, r

(* The loop of gcvt stores the decimals. *)
LEMMA FractionFacts ==
  ASSUME NEW part \in 0..(Parts - 1)
  PROVE  fraction(part, 6) = decimals(part) /\ decimals(part) \in Seq(Characters)
<1> DEFINE equation(f) == f = [k \in 0..6 |-> IF k = 0 THEN part ELSE (f[k - 1] * 10) % Parts]
           rest == CHOOSE f : equation(f)
           residue(k) == (part * power(10, k)) % Parts
           g == [k \in 0..6 |-> residue(k)]
           rounds == Min({k \in 0..6 : k = 6 \/ rest[k] = 0})
           rounded == Min({k \in 0..6 : k = 6 \/ residue(k) = 0})
<1>0. part \in Nat /\ Parts \in Nat \ {0} /\ power(10, 0) = 1
  BY FormatSizes, PowersOfTen
<1>1. \A k \in Nat : part * power(10, k) \in Nat
  BY <1>0, PowersOfTen
<1>2. ASSUME NEW k \in Nat
      PROVE  part * power(10, k + 1) = 10 * (part * power(10, k))
  <2>1. power(10, k + 1) = 10 * power(10, k) /\ power(10, k) \in Nat
    BY PowersOfTen
  <2> QED
    BY <1>0, <2>1
<1>3. residue(0) = part
  BY <1>0
<1>4. ASSUME NEW k \in Nat
      PROVE  /\ residue(k + 1) = (residue(k) * 10) % Parts
             /\ ((part * power(10, k + 1)) \div Parts) % 10 = (residue(k) * 10) \div Parts
             /\ (residue(k) * 10) \div Parts \in Nat
  <2> DEFINE x == part * power(10, k)
  <2>1. x \in Nat
    BY <1>1
  <2>2. part * power(10, k + 1) = 10 * x
    BY <1>2
  <2> HIDE DEF x
  <2>3. /\ (10 * x) % Parts = ((x % Parts) * 10) % Parts
        /\ ((10 * x) \div Parts) % 10 = ((x % Parts) * 10) \div Parts
        /\ ((x % Parts) * 10) \div Parts \in Nat
    BY <1>0, <2>1, NextPlace
  <2> QED
    BY <2>2, <2>3 DEF x
<1> HIDE DEF residue
<1>5. equation(g)
  <2>1. ASSUME NEW k \in 0..6
        PROVE  g[k] = IF k = 0 THEN part ELSE (g[k - 1] * 10) % Parts
    <3>1. CASE k = 0
      BY <1>3, <3>1
    <3>2. CASE k # 0
      <4>1. k - 1 \in Nat /\ k - 1 \in 0..6 /\ (k - 1) + 1 = k
        BY <3>2
      <4>2. residue((k - 1) + 1) = (residue(k - 1) * 10) % Parts
        BY <1>4, <4>1
      <4> QED
        BY <3>2, <4>1, <4>2
    <3> QED
      BY <3>1, <3>2
  <2> QED
    BY <2>1
<1>6. equation(rest)
  <2> HIDE DEF g
  <2> QED
    BY <1>5
<1>7. /\ fraction(part, 6) = [k \in 1..rounds |-> digit((rest[k - 1] * 10) \div Parts)]
      /\ decimals(part) = [k \in 1..rounded |-> digit(((part * power(10, k)) \div Parts) % 10)]
  BY DEF fraction, decimals, residue
<1> HIDE DEF rest
<1>8. \A k \in 0..6 : rest[k] = residue(k)
  <2> DEFINE A == {k \in Nat : k <= 6 => rest[k] = residue(k)}
  <2>1. 0 \in A
    <3>1. rest[0] = part
      BY <1>6
    <3> QED
      BY <1>3, <3>1
  <2>2. ASSUME NEW k \in Nat, k \in A
        PROVE  k + 1 \in A
    <3> SUFFICES ASSUME k + 1 <= 6
                 PROVE  rest[k + 1] = residue(k + 1)
      OBVIOUS
    <3>1. k + 1 \in 0..6 /\ k + 1 # 0 /\ (k + 1) - 1 = k /\ k <= 6
      OBVIOUS
    <3>2. rest[k + 1] = (rest[k] * 10) % Parts
      BY <1>6, <3>1
    <3> QED
      BY <1>4, <2>2, <3>1, <3>2
  <2>3. Nat \subseteq A
    <3> HIDE DEF A
    <3> QED
      BY <2>1, <2>2, StepInduction
  <2> QED
    BY <2>3
<1>9. rounds = rounded
  <2>1. {k \in 0..6 : k = 6 \/ rest[k] = 0} = {k \in 0..6 : k = 6 \/ residue(k) = 0}
    BY <1>8
  <2> QED
    BY <2>1
<1>10. rounded \in 0..6
  <2> DEFINE T == {k \in 0..6 : k = 6 \/ residue(k) = 0}
  <2>1. T \in SUBSET Nat /\ T # {}
    <3>1. 6 \in T
      OBVIOUS
    <3> QED
      BY <3>1
  <2>2. Min(T) \in T
    <3> HIDE DEF T
    <3> QED
      BY <2>1, LeastNatural
  <2> QED
    BY <2>2
<1> HIDE DEF rounds, rounded
<1>11. ASSUME NEW k \in 1..rounded
       PROVE  /\ (rest[k - 1] * 10) \div Parts = ((part * power(10, k)) \div Parts) % 10
              /\ (rest[k - 1] * 10) \div Parts \in Nat
  <2>1. k - 1 \in Nat /\ k - 1 \in 0..6 /\ (k - 1) + 1 = k
    BY <1>10
  <2>2. /\ ((part * power(10, (k - 1) + 1)) \div Parts) % 10 = (residue(k - 1) * 10) \div Parts
        /\ (residue(k - 1) * 10) \div Parts \in Nat
    BY <1>4, <2>1
  <2> QED
    BY <1>8, <2>1, <2>2
<1>12. fraction(part, 6) = decimals(part)
  BY <1>7, <1>9, <1>11
<1>13. fraction(part, 6) \in [1..rounded -> Characters]
  BY <1>7, <1>9, <1>11, DigitCharacters
<1>14. rounded \in Nat
  BY <1>10
<1> QED
  BY <1>12, <1>13, <1>14

(* gcvt stores the number, a point, the decimals and a terminator. *)
LEMMA GcvtFacts ==
  ASSUME luck \in Luck, NEW double, double.whole \in INT_MIN..(-INT_MIN - 1), double.part \in 0..(Parts - 1)
  PROVE  LET text == signed(double.whole, 10) \o <<point>> \o decimals(double.part)
         IN  gcvt(double, 6) = text \o <<NUL>> /\ text \in Seq(Characters)
<1> DEFINE whole == signed(double.whole, 10)
           part == decimals(double.part)
<1>1. itoa(double.whole, 10) = whole \o <<NUL>> /\ whole \in Seq(Characters)
  BY ItoaFacts
<1>2. fraction(double.part, 6) = part /\ part \in Seq(Characters)
  BY FractionFacts
<1> HIDE DEF whole, part
<1>3. Front(itoa(double.whole, 10)) = whole
  <2>1. whole \in Seq(Written) /\ NUL \in Written
    BY <1>1, WrittenSequences DEF Written
  <2> QED
    BY <1>1, <2>1, FrontFacts
<1>4. gcvt(double, 6) = ((whole \o <<point>>) \o part) \o <<NUL>>
  BY <1>2, <1>3 DEF gcvt
<1>5. <<point>> \in Seq(Characters)
  BY DigitCharacters
<1>6. whole \o <<point>> \in Seq(Characters)
  BY <1>1, <1>5, ConcatProperties
<1>7. (whole \o <<point>>) \o part \in Seq(Characters)
  BY <1>2, <1>6, ConcatProperties
<1> QED
  BY <1>4, <1>7 DEF whole, part

(* FlattenSeq, of the first members of a sequence of sequences. *)
FlatteningOf(t, D, n, s) ==
  /\ t \in [Nat -> Seq(D)]
  /\ t[0] = << >>
  /\ \A k \in 0..(n - 1) : t[k + 1] = join(t[k], s[k + 1])
  /\ \A k \in 0..n : FlattenSeq([j \in 1..k |-> s[j]]) = t[k]

(* A flattening has a text for every number of members, each longer by *)
(* one.                                                                *)
LEMMA FlattenFacts ==
  ASSUME NEW D, NEW n \in Nat, NEW s, \A k \in 1..n : s[k] \in Seq(D)
  PROVE  \E t : FlatteningOf(t, D, n, s)
<1> DEFINE step == [k \in Nat |-> [x \in Seq(D) |-> IF k < n THEN join(x, s[k + 1]) ELSE x]]
<1>1. step \in [Nat -> [Seq(D) -> Seq(D)]]
  <2>1. ASSUME NEW k \in Nat, NEW x \in Seq(D)
        PROVE  (IF k < n THEN join(x, s[k + 1]) ELSE x) \in Seq(D)
    <3>1. CASE k < n
      <4>1. s[k + 1] \in Seq(D)
        BY <3>1
      <4>2. join(x, s[k + 1]) \in Seq(D)
        BY <4>1, JoinFacts
      <4> QED
        BY <3>1, <4>2
    <3> QED
      BY <3>1
  <2> QED
    BY <2>1
<1>2. PICK nothing \in Seq(D) : nothing = << >>
  BY EmptySeq
<1>3. PICK t \in [Nat -> Seq(D)] : t[0] = nothing /\ \A k \in Nat : t[k + 1] = step[k][t[k]]
  <2> DEFINE S == Seq(D)
  <2>1. nothing \in S /\ step \in [Nat -> [S -> S]]
    BY <1>1
  <2> HIDE DEF S, step
  <2>2. \E t : IsPath(t, S, nothing, step)
    BY <2>1, Iterates
  <2> QED
    BY <2>2 DEF S, IsPath
<1>4. \A k \in 0..(n - 1) : t[k + 1] = join(t[k], s[k + 1])
  <2> TAKE k \in 0..(n - 1)
  <2>1. k \in Nat /\ k < n /\ t[k] \in Seq(D)
    BY <1>3
  <2> QED
    BY <1>3, <2>1
<1> HIDE DEF step
<1>5. ASSUME NEW k \in 0..n
      PROVE  FlattenSeq([j \in 1..k |-> s[j]]) = t[k]
  <2> DEFINE q == [j \in 1..k |-> s[j]]
             equation(f) == f = [i \in 1..k |-> IF i = 1 THEN q[i] ELSE join(f[i - 1], q[i])]
             flatten == CHOOSE f : equation(f)
             g == [i \in 1..k |-> t[i]]
  <2>1. Len(q) = k
    OBVIOUS
  <2>2. CASE k = 0
    <3>1. q = << >>
      BY <2>2
    <3>2. FlattenSeq(q) = q
      BY <2>1, <2>2 DEF FlattenSeq
    <3> QED
      BY <1>2, <1>3, <2>2, <3>1, <3>2
  <2>3. CASE k # 0
    <3>1. FlattenSeq(q) = flatten[k]
      BY <2>1, <2>3 DEF FlattenSeq, join
    <3>2. t[1] = s[1]
      <4>1. 0 \in 0..(n - 1) /\ 0 + 1 = 1 /\ 1 \in 1..n
        BY <2>3
      <4>2. t[0 + 1] = join(t[0], s[0 + 1])
        BY <1>4, <4>1
      <4>3. join(<< >>, s[1]) = s[1]
        BY <4>1, ConcatEmptySeq DEF join
      <4> QED
        BY <1>2, <1>3, <4>1, <4>2, <4>3
    <3>3. equation(g)
      <4>1. ASSUME NEW i \in 1..k
            PROVE  g[i] = IF i = 1 THEN q[i] ELSE join(g[i - 1], q[i])
        <5>1. CASE i = 1
          BY <3>2, <5>1
        <5>2. CASE i # 1
          <6>1. i - 1 \in 0..(n - 1) /\ i - 1 \in 1..k /\ (i - 1) + 1 = i
            BY <5>2
          <6>2. t[(i - 1) + 1] = join(t[i - 1], s[(i - 1) + 1])
            BY <1>4, <6>1
          <6> QED
            BY <5>2, <6>1, <6>2
        <5> QED
          BY <5>1, <5>2
      <4> QED
        BY <4>1
    <3>4. equation(flatten)
      <4> HIDE DEF g, q
      <4> QED
        BY <3>3
    <3> HIDE DEF flatten
    <3> DEFINE A == {i \in Nat : i \in 1..k => flatten[i] = t[i]}
    <3>5. 0 \in A
      OBVIOUS
    <3>6. ASSUME NEW i \in Nat, i \in A
          PROVE  i + 1 \in A
      <4> SUFFICES ASSUME i + 1 \in 1..k
                   PROVE  flatten[i + 1] = t[i + 1]
        OBVIOUS
      <4>1. CASE i = 0
        <5>1. flatten[1] = q[1]
          BY <3>4, <4>1
        <5> QED
          BY <3>2, <4>1, <5>1
      <4>2. CASE i # 0
        <5>1. i \in 1..k /\ i \in 0..(n - 1) /\ i + 1 # 1 /\ (i + 1) - 1 = i
          BY <4>2
        <5>2. flatten[i + 1] = join(flatten[i], s[i + 1])
          BY <3>4, <5>1
        <5> QED
          BY <1>4, <3>6, <5>1, <5>2
      <4> QED
        BY <4>1, <4>2
    <3>7. Nat \subseteq A
      <4> HIDE DEF A
      <4> QED
        BY <3>5, <3>6, StepInduction
    <3>8. flatten[k] = t[k]
      BY <2>3, <3>7
    <3> QED
      BY <3>1, <3>8
  <2> QED
    BY <2>2, <2>3
<1> QED
  BY <1>2, <1>3, <1>4, <1>5 DEF FlatteningOf

(* What the passed directives show. *)
LEMMA ShowsFacts ==
  ASSUME luck \in Luck, NEW i, passed(i)
  PROVE  shows(i) \in Seq(Characters)
<1>1. CASE i.kind = "text"
  BY <1>1 DEF passed, shows
<1>2. CASE i.kind = "c"
  BY <1>2 DEF passed, shows
<1>3. CASE i.kind = "other"
  BY <1>3 DEF shows
<1>4. CASE i.kind = "x"
  <2>1. i.arg \in Int
    BY <1>4 DEF passed
  <2> DEFINE v == asUnsigned(i.arg)
  <2>2. v \in Nat /\ v < power(2, W)
    BY <2>1, IntRange
  <2>3. shows(i) = IF v = 0 THEN << >> ELSE numeral(v, 16)
    BY <1>4 DEF shows
  <2> HIDE DEF v
  <2> QED
    BY <2>2, <2>3, UitoaFacts
<1>5. CASE i.kind = "f"
  <2>1. i.arg.whole \in INT_MIN..(-INT_MIN - 1) /\ i.arg.part \in 0..(Parts - 1)
    BY <1>5 DEF passed
  <2>2. shows(i) = signed(i.arg.whole, 10) \o <<point>> \o decimals(i.arg.part)
    BY <1>5 DEF shows
  <2> QED
    BY <2>1, <2>2, GcvtFacts
<1>6. CASE i.kind = "s"
  BY <1>6, FormatSizes DEF passed, shows
<1>7. CASE i.kind \in {"d", "b", "h"}
  <2>1. i.arg \in Int
    BY <1>7 DEF passed
  <2>2. shows(i) = signed(asInt(i.arg), radixOf[i.kind])
    BY <1>7 DEF shows
  <2>3. radixOf[i.kind] \in {2, 10, 16}
    BY <1>7 DEF radixOf
  <2> QED
    BY <2>1, <2>2, <2>3, IntRange, ItoaFacts
<1> QED
  BY <1>1, <1>2, <1>3, <1>4, <1>5, <1>6, <1>7 DEF passed

(* What is meant grows by what the next directive shows. *)
LEMMA MeantFacts ==
  ASSUME luck \in Luck, message \in Messages
  PROVE  /\ meant(0) = << >>
         /\ \A k \in 0..Len(message) : meant(k) \in Seq(Characters)
         /\ \A k \in 1..Len(message) : meant(k) = meant(k - 1) \o shows(message[k])
<1> DEFINE s == [k \in 1..Len(message) |-> shows(message[k])]
<1>1. message \in Seq(Range(message)) /\ \A i \in Range(message) : passed(i)
  BY FormatSizes
<1>2. Len(message) \in Nat
  BY <1>1
<1>3. ASSUME NEW k \in 1..Len(message)
      PROVE  shows(message[k]) \in Seq(Characters)
  <2>1. passed(message[k])
    BY <1>1
  <2> QED
    BY <2>1, ShowsFacts
<1>4. \A k \in 1..Len(message) : s[k] \in Seq(Characters) /\ s[k] = shows(message[k])
  BY <1>3
<1> HIDE DEF s
<1> DEFINE n == Len(message)
<1> HIDE DEF n
<1>5. PICK t : FlatteningOf(t, Characters, n, s)
  <2>1. n \in Nat /\ \A k \in 1..n : s[k] \in Seq(Characters)
    BY <1>2, <1>4 DEF n
  <2> QED
    BY <2>1, FlattenFacts
<1> USE DEF n, FlatteningOf
<1>6. ASSUME NEW k \in 0..Len(message)
      PROVE  meant(k) = t[k]
  <2>1. [j \in 1..k |-> s[j]] = [j \in 1..k |-> shows(message[j])]
    BY <1>2, <1>4
  <2> QED
    BY <1>5, <2>1 DEF meant
<1>7. meant(0) = << >>
  BY <1>2, <1>5, <1>6
<1>8. \A k \in 0..Len(message) : meant(k) \in Seq(Characters)
  BY <1>2, <1>5, <1>6
<1>9. ASSUME NEW k \in 1..Len(message)
      PROVE  meant(k) = meant(k - 1) \o shows(message[k])
  <2>1. k - 1 \in 0..(Len(message) - 1) /\ k - 1 \in 0..Len(message) /\ k \in 0..Len(message) /\ (k - 1) + 1 = k
    BY <1>2
  <2>2. t[(k - 1) + 1] = join(t[k - 1], s[(k - 1) + 1])
    BY <1>5, <2>1
  <2>3. meant(k) = join(meant(k - 1), shows(message[k]))
    BY <1>4, <1>6, <2>1, <2>2
  <2> QED
    BY <2>3 DEF join
<1> QED
  BY <1>7, <1>8, <1>9

(* How many directives are formatted. *)
formatted == IF fmt > Len(message) THEN Len(message) ELSE fmt - 1

(* The text stands in front of p, and what follows is still zero. *)
Stands(text) ==
  /\ p = Len(text) /\ p <= BufferSize
  /\ \A c \in 0..(p - 1) : outputMessage[c] = text[c + 1]
  /\ \A c \in p..(BufferSize - 1) : outputMessage[c] = NUL

(* Either nothing is spilled, and the text formatted so far stands in      *)
(* front of p with zeros behind it, or the message does not fit.  With an  *)
(* empty string for %s nothing is claimed.  That p is at the first zero is *)
(* what strlen needs: the next conversion finds the end of its text        *)
(* although strcat stores none.                                            *)
FormatInv ==
  /\ message \in Messages /\ luck \in Luck
  /\ fmt \in 1..(Len(message) + 2)
  /\ DOMAIN outputMessage = 0..(BufferSize - 1)
  /\ ~emptyString =>
       IF spilled THEN \E k \in DOMAIN message : Len(meant(k)) >= BufferSize
       ELSE Stands(meant(formatted))

(* A message has a length. *)
LEMMA LengthOfMessage ==
  ASSUME message \in Messages
  PROVE  Len(message) \in Nat /\ DOMAIN message = 1..Len(message)
  BY FormatSizes

(* In particular the text is what is meant. *)
LEMMA FormatInvFaithful == FormatInv => FormatsFaithfully
  BY DEF FormatInv, FormatsFaithfully, Stands, formatted

(* The text is stored behind p, and ends where strlen says.                 *)
Stored(text, chars, all) ==
  /\ strlen(store(chars)) = Len(text)
  /\ p + Len(text) = Len(all) /\ p + Len(text) <= BufferSize
  /\ \A c \in 0..(p + Len(text) - 1) : store(chars)[c] = all[c + 1]
  /\ \A c \in (p + Len(text))..(BufferSize - 1) : store(chars)[c] = NUL

(* What is stored, with a terminator or without, ends where the text ends.  *)
LEMMA StoredText ==
  ASSUME NEW text \in Seq(Characters), NEW chars, chars = text \/ chars = text \o <<NUL>>,
         NEW earlier \in Seq(Characters), Stands(earlier),
         DOMAIN outputMessage = 0..(BufferSize - 1),
         p + Len(chars) <= BufferSize
  PROVE  Stored(text, chars, earlier \o text)
<1> DEFINE both == earlier \o text
           n == Len(text)
           cells == store(chars)
<1>1. p \in Nat /\ n \in Nat /\ BufferSize \in Nat /\ p = Len(earlier)
  BY FormatSizes DEF Stands
<1>2. /\ both \in Seq(Characters) /\ Len(both) = p + n
      /\ \A i \in 1..(p + n) : both[i] = IF i <= p THEN earlier[i] ELSE text[i - p]
  BY <1>1, ConcatProperties
<1> HIDE DEF both
<1>3. /\ DOMAIN chars = 1..Len(chars) /\ (Len(chars) = n \/ Len(chars) = n + 1)
      /\ \A i \in 1..n : chars[i] = text[i]
      /\ \A i \in DOMAIN chars : i > n => chars[i] = NUL
  <2>1. CASE chars = text
    BY <2>1
  <2>2. CASE chars = text \o <<NUL>>
    <3> DEFINE finish == <<NUL>>
               t == text \o finish
    <3>1. text \in Seq(Written) /\ finish \in Seq(Written) /\ Len(finish) = 1 /\ finish[1] = NUL
      BY WrittenSequences
    <3> HIDE DEF finish
    <3>2. /\ t \in Seq(Written) /\ Len(t) = n + 1
          /\ \A i \in 1..(n + 1) : t[i] = IF i <= n THEN text[i] ELSE finish[i - n]
      <4>1. /\ t \in Seq(Written) /\ Len(t) = Len(text) + Len(finish)
            /\ \A i \in 1..(Len(text) + Len(finish)) : t[i] = IF i <= Len(text) THEN text[i] ELSE finish[i - Len(text)]
        BY <3>1, ConcatProperties
      <4> HIDE DEF t
      <4> QED
        BY <3>1, <4>1
    <3>3. chars = t
      BY <2>2 DEF finish
    <3> HIDE DEF t
    <3>4. DOMAIN t = 1..(n + 1)
      BY <1>1, <3>2
    <3>5. \A i \in 1..n : t[i] = text[i]
      BY <1>1, <3>2
    <3>6. \A i \in 1..(n + 1) : i > n => t[i] = NUL
      <4> SUFFICES ASSUME NEW i \in 1..(n + 1), i > n
                   PROVE  t[i] = NUL
        OBVIOUS
      <4>1. i = n + 1 /\ i - n = 1 /\ ~(i <= n)
        BY <1>1
      <4> QED
        BY <3>1, <3>2, <4>1
    <3> QED
      BY <3>2, <3>3, <3>4, <3>5, <3>6
  <2> QED
    BY <2>1, <2>2
<1> DEFINE width == Len(chars)
<1>w. /\ DOMAIN chars = 1..width /\ (width = n \/ width = n + 1) /\ p + width <= BufferSize
  BY <1>3
<1> HIDE DEF width, n
<1>4. n <= width /\ p + n <= BufferSize
  BY <1>1, <1>w
<1>5. cells = [c \in 0..(BufferSize - 1) |->
                 IF c - p + 1 \in DOMAIN chars THEN chars[c - p + 1] ELSE outputMessage[c]]
  BY DEF store
<1> HIDE DEF cells
<1>6. ASSUME NEW c \in 0..(p + n - 1)
      PROVE  cells[c] = both[c + 1]
  <2>1. c \in 0..(BufferSize - 1) /\ c + 1 \in 1..(p + n)
    BY <1>1, <1>4
  <2>2. CASE c < p
    <3>1. ~(c - p + 1 \in DOMAIN chars) /\ c \in 0..(p - 1) /\ c + 1 <= p
      BY <1>1, <1>w, <2>2
    <3>2. cells[c] = outputMessage[c]
      BY <1>5, <2>1, <3>1
    <3>3. outputMessage[c] = earlier[c + 1]
      BY <3>1 DEF Stands
    <3> QED
      BY <1>2, <2>1, <3>1, <3>2, <3>3
  <2>3. CASE c >= p
    <3>1. c - p + 1 \in DOMAIN chars /\ c - p + 1 \in 1..n /\ ~(c + 1 <= p) /\ (c + 1) - p = c - p + 1
      BY <1>1, <1>4, <1>w, <2>3
    <3>2. cells[c] = text[c - p + 1]
      BY <1>3, <1>5, <2>1, <3>1
    <3>3. both[c + 1] = text[(c + 1) - p]
      BY <1>2, <2>1, <3>1
    <3> QED
      BY <3>1, <3>2, <3>3
  <2> QED
    BY <1>1, <2>2, <2>3
<1>7. ASSUME NEW c \in (p + n)..(BufferSize - 1)
      PROVE  cells[c] = NUL
  <2>1. c \in 0..(BufferSize - 1) /\ c \in p..(BufferSize - 1) /\ c - p + 1 > n
    BY <1>1
  <2>2. CASE c - p + 1 \in DOMAIN chars
    BY <1>3, <1>5, <2>1, <2>2
  <2>3. CASE ~(c - p + 1 \in DOMAIN chars)
    <3>1. outputMessage[c] = NUL
      BY <2>1 DEF Stands
    <3> QED
      BY <1>5, <2>1, <2>3, <3>1
  <2> QED
    BY <2>2, <2>3
<1>8. ASSUME NEW c \in p..(p + n - 1)
      PROVE  cells[c] # NUL
  <2>1. c \in 0..(p + n - 1) /\ c + 1 \in 1..(p + n)
    BY <1>1
  <2>2. both[c + 1] \in Characters
    BY <1>2, <2>1
  <2> QED
    BY <1>6, <2>1, <2>2, DigitCharacters
<1>9. strlen(cells) = n
  <2> DEFINE stops == {c \in p..BufferSize : c = BufferSize \/ cells[c] = NUL}
             finish == CHOOSE c \in stops : \A d \in stops : c <= d
  <2>1. p + n \in stops
    <3>1. p + n \in p..BufferSize
      BY <1>1, <1>4
    <3>2. p + n # BufferSize => p + n \in (p + n)..(BufferSize - 1)
      BY <1>1, <1>4
    <3> QED
      BY <1>7, <3>1, <3>2
  <2>2. ASSUME NEW c \in stops
        PROVE  p + n <= c
    <3>1. c \in p..BufferSize
      OBVIOUS
    <3>2. SUFFICES ASSUME c < p + n
                   PROVE  FALSE
      BY <1>1, <3>1
    <3>3. c \in p..(p + n - 1) /\ c # BufferSize
      BY <1>1, <1>4, <3>1, <3>2
    <3> QED
      BY <1>8, <3>3
  <2>3. \A c \in stops : c \in Int
    BY <1>1
  <2>4. finish \in stops /\ \A d \in stops : finish <= d
    <3> HIDE DEF stops
    <3> QED
      BY <2>1, <2>2
  <2>5. strlen(cells) = finish - p
    BY DEF strlen
  <2> HIDE DEF stops, finish
  <2>6. finish = p + n
    <3>1. finish <= p + n /\ p + n <= finish /\ finish \in Int
      BY <2>1, <2>2, <2>3, <2>4
    <3> QED
      BY <1>1, <3>1
  <2> QED
    BY <1>1, <2>5, <2>6
<1>10. Stored(text, chars, both)
  BY <1>2, <1>4, <1>6, <1>7, <1>9 DEF Stored, cells, n
<1> QED
  BY <1>10 DEF both

(* What the message means does not depend on how far it is formatted.       *)
LEMMA MeaningKept ==
  ASSUME UNCHANGED <<message, luck>>, NEW k
  PROVE  meant(k)' = meant(k)
  BY DEF meant, shows, signed, magnitude

(* Nor does whether it has an empty string. *)
LEMMA EmptyStringKept ==
  ASSUME UNCHANGED <<message, luck>>
  PROVE  emptyString' = emptyString
  BY DEF emptyString

(* An empty text stands in a buffer of zeros. *)
LEMMA FormatInvInit == FormatInit => FormatInv
<1> SUFFICES ASSUME NEW called \in Messages, NEW negated \in Luck, FormatStart(called, negated)
             PROVE  FormatInv
  BY DEF FormatInit, Luck
<1>1. message \in Messages /\ luck \in Luck /\ fmt = 1 /\ p = 0 /\ spilled = FALSE /\ outputMessage = emptyBuffer
  BY DEF FormatStart
<1>2. Len(message) \in Nat /\ BufferSize \in Nat
  BY <1>1, FormatSizes, LengthOfMessage
<1>3. formatted = 0
  BY <1>1, <1>2 DEF formatted
<1>4. meant(0) = << >>
  BY <1>1, MeantFacts
<1>5. /\ DOMAIN outputMessage = 0..(BufferSize - 1)
      /\ \A c \in 0..(BufferSize - 1) : outputMessage[c] = NUL
  BY <1>1 DEF emptyBuffer
<1>6. Stands(<< >>)
  BY <1>1, <1>2, <1>5 DEF Stands
<1> QED
  BY <1>1, <1>2, <1>3, <1>4, <1>5, <1>6 DEF FormatInv

(* The directive's text is stored, with a terminator or without. *)
Renders(chars, length) ==
  /\ chars = shows(directive) \/ chars = shows(directive) \o <<NUL>>
  /\ length = strlen(store(chars)) \/ (length = Len(chars) /\ chars = shows(directive))

(* A directive that stores its text keeps the invariant. *)
LEMMA AppendKeeps ==
  ASSUME FormatInv, ~spilled, fmt <= Len(message),
         NEW chars, NEW length, append(chars, length),
         ~emptyString => Renders(chars, length)
  PROVE  FormatInv'
<1> PICK i : i = fmt
  OBVIOUS
<1> DEFINE text == shows(directive)
           earlier == meant(i - 1)
<1>1. message \in Messages /\ luck \in Luck /\ Len(message) \in Nat /\ DOMAIN message = 1..Len(message)
  BY LengthOfMessage DEF FormatInv
<1>2. i \in 1..Len(message) /\ fmt = i
  BY <1>1 DEF FormatInv
<1>3. /\ outputMessage' = store(chars) /\ p' = p + length /\ fmt' = i + 1
      /\ spilled' = (p + Len(chars) > BufferSize) /\ message' = message /\ luck' = luck
  BY DEF append
<1>4. /\ message' \in Messages /\ luck' \in Luck /\ fmt' \in 1..(Len(message') + 2)
      /\ DOMAIN outputMessage' = 0..(BufferSize - 1)
  <2>1. DOMAIN store(chars) = DOMAIN outputMessage
    BY DEF store
  <2> QED
    BY <1>1, <1>2, <1>3, <2>1 DEF FormatInv
<1>5. ASSUME ~emptyString
      PROVE  IF spilled' THEN \E k \in DOMAIN message' : Len(meant(k)') >= BufferSize
             ELSE Stands(meant(i))'
  <2>1. /\ meant(i) = earlier \o text /\ earlier \in Seq(Characters) /\ meant(i) \in Seq(Characters)
    <3>1. i - 1 \in 0..Len(message) /\ i \in 0..Len(message)
      BY <1>1, <1>2
    <3> QED
      BY <1>1, <1>2, <3>1, MeantFacts DEF directive
  <2>2. text \in Seq(Characters)
    <3>1. passed(directive)
      BY <1>1, <1>2, FormatSizes DEF directive
    <3> QED
      BY <1>1, <3>1, ShowsFacts
  <2>3. formatted = i - 1 /\ Stands(earlier)
    <3>1. formatted = i - 1
      BY <1>1, <1>2 DEF formatted
    <3> QED
      BY <1>5, <3>1 DEF FormatInv
  <2>4. meant(i)' = meant(i)
    BY <1>3, MeaningKept
  <2> HIDE DEF text, earlier
  <2>5. p \in Nat /\ BufferSize \in Nat /\ p = Len(earlier) /\ Len(text) \in Nat /\ Len(meant(i)) = p + Len(text)
    <3>1. Len(earlier \o text) = Len(earlier) + Len(text)
      BY <2>1, <2>2, ConcatProperties
    <3> QED
      BY <2>1, <2>2, <2>3, <3>1, FormatSizes DEF Stands
  <2>6. chars = text \/ chars = text \o <<NUL>>
    BY <1>5 DEF text, Renders
  <2>7. Len(chars) = Len(text) \/ Len(chars) = Len(text) + 1
    <3>1. Len(text \o <<NUL>>) = Len(text) + 1
      <4>1. text \in Seq(Written) /\ <<NUL>> \in Seq(Written) /\ Len(<<NUL>>) = 1
        BY <2>2, WrittenSequences
      <4> QED
        BY <4>1, ConcatProperties
    <3> QED
      BY <2>6, <3>1
  <2>8. CASE p + Len(chars) > BufferSize
    <3>1. Len(meant(i)) >= BufferSize
      BY <2>5, <2>7, <2>8
    <3>2. spilled' /\ i \in DOMAIN message'
      BY <1>1, <1>2, <1>3, <2>8
    <3> QED
      BY <2>4, <3>1, <3>2
  <2>9. CASE ~(p + Len(chars) > BufferSize)
    <3>1. p + Len(chars) <= BufferSize
      BY <2>5, <2>7, <2>9
    <3>2. Stored(text, chars, meant(i))
      <4>1. DOMAIN outputMessage = 0..(BufferSize - 1)
        BY DEF FormatInv
      <4>2. earlier \in Seq(Characters) /\ Stands(earlier)
        BY <2>1, <2>3
      <4>3. Stored(text, chars, earlier \o text)
        BY <2>2, <2>6, <3>1, <4>1, <4>2, StoredText
      <4> QED
        BY <2>1, <4>3
    <3>3. length = Len(text)
      <4>1. length = strlen(store(chars)) \/ (length = Len(chars) /\ chars = text)
        BY <1>5 DEF text, Renders
      <4> QED
        BY <3>2, <4>1 DEF Stored
    <3>4. ~spilled' /\ p' = p + Len(text) /\ outputMessage' = store(chars)
      BY <1>3, <2>9, <3>3
    <3>5. Stands(meant(i))'
      <4> PICK goal : goal = meant(i)
        OBVIOUS
      <4> PICK cells : cells = store(chars)
        OBVIOUS
      <4>1. /\ p + Len(text) = Len(goal) /\ p + Len(text) <= BufferSize
            /\ \A c \in 0..(p + Len(text) - 1) : cells[c] = goal[c + 1]
            /\ \A c \in (p + Len(text))..(BufferSize - 1) : cells[c] = NUL
        BY <3>2 DEF Stored
      <4>2. p' = p + Len(text) /\ outputMessage' = cells
        BY <3>4
      <4>3. Stands(goal)'
        BY <2>5, <4>1, <4>2 DEF Stands
      <4>4. goal = meant(i)'
        BY <2>4
      <4> QED
        BY <4>3, <4>4 DEF Stands
    <3> QED
      BY <3>4, <3>5
  <2> QED
    BY <2>8, <2>9
<1>6. emptyString' = emptyString
  BY <1>3, EmptyStringKept
<1>7. formatted' = i
  <2>1. i + 1 > Len(message) => Len(message) = i
    BY <1>1, <1>2
  <2> QED
    BY <1>1, <1>2, <1>3, <2>1 DEF formatted
<1>8. (~emptyString =>
       IF spilled THEN \E k \in DOMAIN message : Len(meant(k)) >= BufferSize
       ELSE Stands(meant(formatted)))'
  BY <1>5, <1>6, <1>7
<1> QED
  BY <1>4, <1>8 DEF FormatInv

(* At a directive, something is formatted that was passed. *)
LEMMA AtDirective ==
  ASSUME FormatInv, NEW kinds, isAt(kinds)
  PROVE  /\ ~spilled /\ fmt <= Len(message) /\ directive.kind \in kinds
         /\ passed(directive) /\ luck \in Luck
         /\ directive.kind = "s" /\ ~emptyString => Strings[directive.arg] # << >>
<1>1. message \in Messages /\ Len(message) \in Nat /\ DOMAIN message = 1..Len(message)
  BY LengthOfMessage DEF FormatInv
<1>2. fmt \in DOMAIN message
  BY <1>1 DEF FormatInv, isAt
<1>3. passed(directive)
  BY <1>1, <1>2, FormatSizes DEF directive
<1> QED
  BY <1>2, <1>3 DEF isAt, FormatInv, directive, emptyString

(* So does a conversion, which looks for the end of what it stored. *)
LEMMA ConvertKeeps ==
  ASSUME FormatInv, ~spilled, fmt <= Len(message), NEW chars, convert(chars),
         ~emptyString => chars = shows(directive) \/ chars = shows(directive) \o <<NUL>>
  PROVE  FormatInv'
<1> PICK length : length = strlen(store(chars))
  OBVIOUS
<1>1. append(chars, length)
  BY DEF convert
<1>2. ~emptyString => Renders(chars, length)
  BY DEF Renders
<1> QED
  BY <1>1, <1>2, AppendKeeps

(* Literal text is stored as it is, without a terminator. *)
LEMMA LiteralKeeps == FormatInv /\ Literal => FormatInv'
<1> SUFFICES ASSUME FormatInv, Literal PROVE FormatInv'
  OBVIOUS
<1> PICK chars : chars = directive.arg
  OBVIOUS
<1>1. ~spilled /\ fmt <= Len(message) /\ directive.kind = "text"
  BY AtDirective DEF Literal
<1>2. Renders(chars, Len(chars))
  BY <1>1 DEF Renders, shows
<1>3. append(chars, Len(chars))
  BY DEF Literal
<1> QED
  BY <1>1, <1>2, <1>3, AppendKeeps

(* So is a character. *)
LEMMA CharacterKeeps == FormatInv /\ Character => FormatInv'
<1> SUFFICES ASSUME FormatInv, Character PROVE FormatInv'
  OBVIOUS
<1> PICK chars : chars = <<directive.arg>>
  OBVIOUS
<1>1. ~spilled /\ fmt <= Len(message) /\ directive.kind = "c"
  BY AtDirective DEF Character
<1>2. Len(chars) = 1
  OBVIOUS
<1>3. Renders(chars, Len(chars))
  BY <1>1 DEF Renders, shows
<1>4. append(chars, Len(chars))
  BY <1>2 DEF Character
<1> QED
  BY <1>1, <1>3, <1>4, AppendKeeps

(* An unknown directive shows nothing. *)
LEMMA UnknownKeeps == FormatInv /\ Unknown => FormatInv'
<1> SUFFICES ASSUME FormatInv, Unknown PROVE FormatInv'
  OBVIOUS
<1> PICK chars : chars = << >>
  OBVIOUS
<1>1. ~spilled /\ fmt <= Len(message) /\ directive.kind = "other"
  BY AtDirective DEF Unknown
<1>2. Len(chars) = 0
  OBVIOUS
<1>3. Renders(chars, Len(chars))
  BY <1>1 DEF Renders, shows
<1>4. append(chars, Len(chars))
  BY <1>2 DEF Unknown
<1> QED
  BY <1>1, <1>3, <1>4, AppendKeeps

(* %x stores what uitoa makes of an unsigned int. *)
LEMMA UnsignedKeeps == FormatInv /\ Unsigned => FormatInv'
<1> SUFFICES ASSUME FormatInv, Unsigned PROVE FormatInv'
  OBVIOUS
<1> PICK v : v = asUnsigned(directive.arg)
  OBVIOUS
<1> PICK chars : chars = uitoa(v, 16)
  OBVIOUS
<1>1. ~spilled /\ fmt <= Len(message) /\ directive.kind = "x" /\ passed(directive)
  BY AtDirective DEF Unsigned
<1>2. v \in Nat /\ v < power(2, W)
  <2>1. directive.arg \in Int
    BY <1>1 DEF passed
  <2> QED
    BY <2>1, IntRange
<1>3. shows(directive) = IF v = 0 THEN << >> ELSE numeral(v, 16)
  BY <1>1 DEF shows
<1>4. chars = shows(directive) \o <<NUL>>
  BY <1>2, <1>3, UitoaFacts
<1>5. convert(chars)
  BY DEF Unsigned
<1> QED
  BY <1>1, <1>4, <1>5, ConvertKeeps

(* %f stores what gcvt makes of a double. *)
LEMMA FloatKeeps == FormatInv /\ Float => FormatInv'
<1> SUFFICES ASSUME FormatInv, Float PROVE FormatInv'
  OBVIOUS
<1> PICK double : double = directive.arg
  OBVIOUS
<1> PICK chars : chars = gcvt(double, 6)
  OBVIOUS
<1>1. ~spilled /\ fmt <= Len(message) /\ directive.kind = "f" /\ passed(directive) /\ luck \in Luck
  BY AtDirective DEF Float
<1>2. double.whole \in INT_MIN..(-INT_MIN - 1) /\ double.part \in 0..(Parts - 1)
  BY <1>1 DEF passed
<1>3. shows(directive) = signed(double.whole, 10) \o <<point>> \o decimals(double.part)
  BY <1>1 DEF shows
<1>4. chars = shows(directive) \o <<NUL>>
  BY <1>1, <1>2, <1>3, GcvtFacts
<1>5. convert(chars)
  BY DEF Float
<1> QED
  BY <1>1, <1>4, <1>5, ConvertKeeps

(* %s stores a string, which is not empty. *)
LEMMA StringKeeps == FormatInv /\ String => FormatInv'
<1> SUFFICES ASSUME FormatInv, String PROVE FormatInv'
  OBVIOUS
<1> PICK chars : chars = strcat(directive.arg)
  OBVIOUS
<1>1. /\ ~spilled /\ fmt <= Len(message) /\ directive.kind = "s"
      /\ ~emptyString => Strings[directive.arg] # << >>
  BY AtDirective DEF String
<1>2. ~emptyString => chars = shows(directive)
  BY <1>1 DEF strcat, shows
<1>3. convert(chars)
  BY DEF String
<1> QED
  BY <1>1, <1>2, <1>3, ConvertKeeps

(* %d, %b and %h store what itoa makes of an int; reverse can hold it. *)
LEMMA SignedKeeps == FormatInv /\ Signed => FormatInv'
<1> SUFFICES ASSUME FormatInv, Signed PROVE FormatInv'
  OBVIOUS
<1> PICK value : value = asInt(directive.arg)
  OBVIOUS
<1> PICK radix : radix = radixOf[directive.kind]
  OBVIOUS
<1> PICK chars : chars = itoa(value, radix)
  OBVIOUS
<1>1. /\ ~spilled /\ fmt <= Len(message) /\ directive.kind \in {"d", "b", "h"}
      /\ passed(directive) /\ luck \in Luck
  BY AtDirective DEF Signed
<1>2. value \in INT_MIN..(-INT_MIN - 1)
  <2>1. directive.arg \in Int
    BY <1>1 DEF passed
  <2> QED
    BY <2>1, IntRange
<1>3. radix \in {2, 10, 16}
  BY <1>1 DEF radixOf
<1>4. shows(directive) = signed(value, radix)
  BY <1>1 DEF shows
<1>5. chars = shows(directive) \o <<NUL>> /\ Len(itoaReverse(value, radix)) \in 0..(W + 3)
  BY <1>1, <1>2, <1>3, <1>4, ItoaFacts
<1>6. ~(Len(itoaReverse(value, radix)) > ReverseSize)
  BY <1>5, FormatSizes
<1>7. convert(chars)
  BY <1>6 DEF Signed
<1> QED
  BY <1>1, <1>5, <1>7, ConvertKeeps

(* The terminator at the end does not change the text. *)
LEMMA EndKeeps == FormatInv /\ End => FormatInv'
<1> SUFFICES ASSUME FormatInv, End PROVE FormatInv'
  OBVIOUS
<1> PICK n : n = Len(message)
  OBVIOUS
<1> PICK chars : chars = <<NUL>>
  OBVIOUS
<1>1. message \in Messages /\ luck \in Luck /\ n \in Nat /\ DOMAIN message = 1..n
  BY LengthOfMessage DEF FormatInv
<1>2. /\ ~spilled /\ fmt = n + 1 /\ fmt' = n + 2 /\ outputMessage' = store(chars)
      /\ spilled' = (p >= BufferSize) /\ message' = message /\ p' = p /\ luck' = luck
  BY <1>1 DEF End
<1>3. DOMAIN chars = {1} /\ chars[1] = NUL
  OBVIOUS
<1>4. /\ message' \in Messages /\ luck' \in Luck /\ fmt' \in 1..(Len(message') + 2)
      /\ DOMAIN outputMessage' = 0..(BufferSize - 1)
  <2>1. DOMAIN store(chars) = DOMAIN outputMessage
    BY DEF store
  <2> QED
    BY <1>1, <1>2, <2>1 DEF FormatInv
<1>5. ASSUME ~emptyString
      PROVE  IF spilled' THEN \E k \in DOMAIN message' : Len(meant(k)') >= BufferSize
             ELSE Stands(meant(n))'
  <2> PICK text : text = meant(n)
    OBVIOUS
  <2>1. formatted = n
    BY <1>1, <1>2 DEF formatted
  <2>2. Stands(text)
    BY <1>2, <1>5, <2>1 DEF FormatInv
  <2>3. meant(n)' = text
    BY <1>2, MeaningKept
  <2>4. text \in Seq(Characters) /\ meant(0) = << >>
    <3>1. n \in 0..Len(message)
      BY <1>1
    <3> QED
      BY <1>1, <3>1, MeantFacts
  <2>5. p = Len(text) /\ p \in Nat /\ BufferSize \in Nat \ {0}
    BY <2>2, <2>4, FormatSizes DEF Stands
  <2>6. CASE p >= BufferSize
    <3>1. n # 0
      <4> SUFFICES ASSUME n = 0
                   PROVE  FALSE
        OBVIOUS
      <4>0. meant(n) = meant(0)
        BY Zenon
      <4>1. text = << >>
        BY <2>4, <4>0, Zenon
      <4>2. Len(<< >>) = 0
        OBVIOUS
      <4>3. p = 0
        BY <2>5, <4>1, <4>2
      <4> QED
        BY <2>5, <2>6, <4>3
    <3>2. n \in DOMAIN message'
      BY <1>1, <1>2, <3>1
    <3>3. Len(meant(n)') >= BufferSize
      BY <2>3, <2>5, <2>6
    <3> QED
      BY <1>2, <2>6, <3>2, <3>3
  <2>7. CASE ~(p >= BufferSize)
    <3> PICK cells : cells = store(chars)
      OBVIOUS
    <3>1. cells = [c \in 0..(BufferSize - 1) |->
                     IF c - p + 1 \in {1} THEN chars[c - p + 1] ELSE outputMessage[c]]
      BY <1>3 DEF store, FormatInv
    <3>2. ASSUME NEW c \in 0..(BufferSize - 1)
          PROVE  cells[c] = IF c = p THEN NUL ELSE outputMessage[c]
      <4>1. CASE c = p
        <5>1. c - p + 1 = 1
          BY <2>5, <4>1
        <5> QED
          BY <1>3, <3>1, <4>1, <5>1
      <4>2. CASE c # p
        <5>1. c - p + 1 # 1
          BY <2>5, <4>2
        <5> QED
          BY <3>1, <4>2, <5>1
      <4> QED
        BY <4>1, <4>2
    <3>3. ASSUME NEW c \in 0..(p - 1)
          PROVE  cells[c] = text[c + 1]
      <4>1. c \in 0..(BufferSize - 1) /\ c # p
        BY <2>5, <2>7
      <4>2. outputMessage[c] = text[c + 1]
        BY <2>2 DEF Stands
      <4> QED
        BY <3>2, <4>1, <4>2
    <3>4. ASSUME NEW c \in p..(BufferSize - 1)
          PROVE  cells[c] = NUL
      <4>1. c \in 0..(BufferSize - 1)
        BY <2>5
      <4>2. outputMessage[c] = NUL
        BY <2>2 DEF Stands
      <4> QED
        BY <3>2, <4>1, <4>2
    <3>5. p <= BufferSize
      BY <2>5, <2>7
    <3>6. Stands(text)'
      BY <1>2, <2>5, <3>3, <3>4, <3>5 DEF Stands
    <3>7. ~spilled'
      BY <1>2, <2>7
    <3> QED
      BY <2>3, <3>6, <3>7 DEF Stands
  <2> QED
    BY <2>6, <2>7
<1>6. emptyString' = emptyString
  BY <1>2, EmptyStringKept
<1>7. formatted' = n
  BY <1>1, <1>2 DEF formatted
<1>8. (~emptyString =>
       IF spilled THEN \E k \in DOMAIN message : Len(meant(k)) >= BufferSize
       ELSE Stands(meant(formatted)))'
  BY <1>5, <1>6, <1>7
<1> QED
  BY <1>4, <1>8 DEF FormatInv

(* Nor does a step that changes nothing. *)
LEMMA FormatRestsKeep == FormatInv /\ UNCHANGED formatVars => FormatInv'
<1> SUFFICES ASSUME FormatInv, UNCHANGED formatVars PROVE FormatInv'
  OBVIOUS
<1>1. UNCHANGED <<message, fmt, p, outputMessage, spilled, luck>>
  BY DEF formatVars
<1>2. emptyString' = emptyString
  BY <1>1, EmptyStringKept
<1>3. formatted' = formatted
  BY <1>1 DEF formatted
<1>4. \A k : meant(k)' = meant(k)
  BY <1>1, MeaningKept
<1> PICK n : n = formatted
  OBVIOUS
<1>5. Stands(meant(n)) => Stands(meant(n))'
  <2>1. meant(n)' = meant(n)
    BY <1>4
  <2> QED
    BY <1>1, <2>1 DEF Stands
<1>6. /\ message' \in Messages /\ luck' \in Luck /\ fmt' \in 1..(Len(message') + 2)
      /\ DOMAIN outputMessage' = 0..(BufferSize - 1)
  BY <1>1 DEF FormatInv
<1>7. ~emptyString =>
       IF spilled THEN \E k \in DOMAIN message : Len(meant(k)) >= BufferSize
       ELSE Stands(meant(n))
  BY DEF FormatInv
<1>8. (~emptyString =>
       IF spilled THEN \E k \in DOMAIN message : Len(meant(k)) >= BufferSize
       ELSE Stands(meant(formatted)))'
  BY <1>1, <1>2, <1>3, <1>4, <1>5, <1>7
<1> QED
  BY <1>6, <1>8 DEF FormatInv

(* For every width of an int, every size of the buffer and all formats and  *)
(* arguments, the text formatted so far stands in front of p and zeros      *)
(* behind it (vsprint, itoa, uitoa, gcvt, strcat and strlen of string.c).   *)
THEOREM FormatInvariant == FormatSpec => []FormatInv
<1>1. FormatInv /\ [FormatNext]_formatVars => FormatInv'
  BY LiteralKeeps, CharacterKeeps, UnknownKeeps, SignedKeeps, UnsignedKeeps, FloatKeeps,
     StringKeeps, EndKeeps, FormatRestsKeep DEF FormatNext
<1> QED
  BY <1>1, FormatInvInit, PTL DEF FormatSpec

(* So whatever debugPrint is given, what it has written is what is meant,   *)
(* and nothing is written outside its buffer unless the text does not fit.  *)
THEOREM FormatIsFaithful == FormatSpec => []FormatsFaithfully
  BY FormatInvariant, FormatInvFaithful, PTL

-----------------------------------------------------------------------------
(* What is a character.                                                     *)
LEMMA AlphabetFacts ==
  /\ \A m \in 0..15 : Digits[m + 1] \in Alphabet
  /\ {"%", "?", "(", ")"} \subseteq Alphabet
  /\ Modifiers \subseteq Alphabet /\ Attributes \subseteq Alphabet /\ Taking \subseteq Alphabet
  /\ {Blank, LineFeed, CarriageReturn} \subseteq Alphabet
<1>1. \A m \in 0..15 : Digits[m + 1] \in Alphabet
  BY DEF Alphabet
<1> QED
  BY <1>1 DEF Alphabet

(* The decimal digits are ten different characters.                         *)
LEMMA DigitChars ==
  /\ DecimalDigits = {"0", "1", "2", "3", "4", "5", "6", "7", "8", "9"}
  /\ \A d \in 0..9 : Digits[d + 1] \in DecimalDigits /\ digitOf(Digits[d + 1]) = d
<1>1. DecimalDigits = {"0", "1", "2", "3", "4", "5", "6", "7", "8", "9"}
  BY DEF DecimalDigits, Digits
<1>2. \A d \in 0..9 : Digits[d + 1] \in DecimalDigits
  BY DEF DecimalDigits
<1>3. \A d, j \in 0..9 : Digits[d + 1] = Digits[j + 1] => d = j
  BY DEF Digits
<1>4. ASSUME NEW d \in 0..9
      PROVE  digitOf(Digits[d + 1]) = d
  BY <1>3 DEF digitOf
<1> QED
  BY <1>1, <1>2, <1>4

(* The short texts that are used everywhere.                                *)
LEMMA AlphabetTexts ==
  <<",">> \in Seq(Alphabet) /\ <<"-">> \in Seq(Alphabet) /\ << >> \in Seq(Alphabet)
<1>1. "," \in Alphabet /\ "-" \in Alphabet
  BY AlphabetFacts DEF Modifiers
<1>2. \A c \in Alphabet : <<c>> \in Seq(Alphabet)
  OBVIOUS
<1>3. << >> \in Seq(Alphabet)
  OBVIOUS
<1> QED
  BY <1>1, <1>2, <1>3

(* orNull shows a null string as a text.                                    *)
LEMMA NullText == <<"(", "n", "u", "l", "l", ")">> \in Seq(Alphabet)
  BY DEF Alphabet, Modifiers, Taking

(* A sequence of texts, from the one behind the first m on, in a row. *)
behind(s, m) == FlattenSeq([j \in 1..(Len(s) - m) |-> s[m + j]])

(* A flattening can also be taken apart from the left. *)
Peeled(D, n, s, r) ==
  /\ FlattenSeq([j \in 1..n |-> r[j]]) \in Seq(D)
  /\ FlattenSeq([j \in 1..(n + 1) |-> s[j]]) = join(s[1], FlattenSeq([j \in 1..n |-> r[j]]))

(* ... on texts of which one is the other without its first.                *)
LEMMA FlattenFromTheLeft ==
  ASSUME NEW D, NEW n \in Nat, NEW s, NEW r,
         \A k \in 1..(n + 1) : s[k] \in Seq(D),
         \A k \in 1..n : r[k] = s[k + 1]
  PROVE  Peeled(D, n, s, r)
<1>1. PICK t : FlatteningOf(t, D, n + 1, s)
  <2>1. n + 1 \in Nat
    OBVIOUS
  <2> QED
    BY <2>1, FlattenFacts
<1>2. PICK u : FlatteningOf(u, D, n, r)
  <2>1. \A k \in 1..n : r[k] \in Seq(D)
    OBVIOUS
  <2> QED
    BY <2>1, FlattenFacts
<1>3. /\ t \in [Nat -> Seq(D)] /\ t[0] = << >>
      /\ \A k \in 0..n : t[k + 1] = join(t[k], s[k + 1])
      /\ FlattenSeq([j \in 1..(n + 1) |-> s[j]]) = t[n + 1]
  <2>1. /\ t \in [Nat -> Seq(D)] /\ t[0] = << >>
        /\ \A k \in 0..((n + 1) - 1) : t[k + 1] = join(t[k], s[k + 1])
        /\ \A k \in 0..(n + 1) : FlattenSeq([j \in 1..k |-> s[j]]) = t[k]
    BY <1>1 DEF FlatteningOf
  <2>2. (n + 1) - 1 = n /\ n + 1 \in 0..(n + 1)
    OBVIOUS
  <2>3. FlattenSeq([j \in 1..(n + 1) |-> s[j]]) = t[n + 1]
    BY <2>1, <2>2
  <2> QED
    BY <2>1, <2>2, <2>3
<1>4. /\ u \in [Nat -> Seq(D)] /\ u[0] = << >>
      /\ \A k \in 0..(n - 1) : u[k + 1] = join(u[k], r[k + 1])
      /\ FlattenSeq([j \in 1..n |-> r[j]]) = u[n]
  BY <1>2 DEF FlatteningOf
<1>5. s[1] \in Seq(D) /\ join(<< >>, s[1]) = s[1] /\ join(s[1], << >>) = s[1]
  BY ConcatEmptySeq DEF join
<1> DEFINE A == {k \in Nat : k <= n => t[k + 1] = join(s[1], u[k])}
<1>6. 0 \in A
  <2>1. t[0 + 1] = join(t[0], s[0 + 1])
    BY <1>3
  <2> QED
    BY <1>3, <1>4, <1>5, <2>1
<1>7. ASSUME NEW k \in Nat, k \in A
      PROVE  k + 1 \in A
  <2> SUFFICES ASSUME k + 1 <= n
               PROVE  t[(k + 1) + 1] = join(s[1], u[k + 1])
    OBVIOUS
  <2>0. k + 1 \in 0..n /\ k \in 0..(n - 1) /\ k + 1 \in 1..n /\ k \in Nat
    OBVIOUS
  <2>1. t[(k + 1) + 1] = join(t[k + 1], s[(k + 1) + 1])
    BY <1>3, <2>0
  <2>2. t[k + 1] = join(s[1], u[k])
    BY <1>7
  <2>3. u[k + 1] = join(u[k], r[k + 1]) /\ r[k + 1] = s[(k + 1) + 1] /\ r[k + 1] \in Seq(D) /\ u[k] \in Seq(D)
    <3>1. r[k + 1] = s[(k + 1) + 1] /\ (k + 1) + 1 \in 1..(n + 1)
      BY <2>0
    <3>2. s[(k + 1) + 1] \in Seq(D)
      BY <3>1
    <3> QED
      BY <1>4, <2>0, <3>1, <3>2
  <2>4. join(join(s[1], u[k]), r[k + 1]) = join(s[1], join(u[k], r[k + 1]))
    <3>1. \A x, y, z \in Seq(D) : join(join(x, y), z) = join(x, join(y, z))
      BY JoinFacts, Z3
    <3> QED
      BY <1>5, <2>3, <3>1
  <2> QED
    BY <2>1, <2>2, <2>3, <2>4
<1>8. Nat \subseteq A
  <2> HIDE DEF A
  <2> QED
    BY <1>6, <1>7, StepInduction
<1>9. t[n + 1] = join(s[1], u[n]) /\ u[n] \in Seq(D)
  BY <1>4, <1>8
<1> QED
  BY <1>3, <1>4, <1>9 DEF Peeled

(* What is behind m texts is the next one and what is behind it.            *)
LEMMA BehindFacts ==
  ASSUME NEW D, NEW s \in Seq(Seq(D))
  PROVE  /\ behind(s, Len(s)) = << >>
         /\ \A m \in 0..Len(s) : behind(s, m) \in Seq(D)
         /\ \A m \in 0..(Len(s) - 1) : behind(s, m) = join(s[m + 1], behind(s, m + 1))
<1>1. Len(s) \in Nat /\ \A k \in 1..Len(s) : s[k] \in Seq(D)
  OBVIOUS
<1>2. behind(s, Len(s)) = << >>
  <2>1. [j \in 1..(Len(s) - Len(s)) |-> s[Len(s) + j]] = << >>
    BY <1>1
  <2>2. FlattenSeq(<< >>) = << >>
    BY DEF FlattenSeq
  <2> QED
    BY <2>1, <2>2 DEF behind
<1>3. << >> \in Seq(D)
  OBVIOUS
<1>4. ASSUME NEW m \in 0..(Len(s) - 1)
      PROVE  /\ behind(s, m + 1) \in Seq(D)
             /\ behind(s, m) = join(s[m + 1], behind(s, m + 1))
  <2> DEFINE n == Len(s) - (m + 1)
             a == [j \in 1..(n + 1) |-> s[m + j]]
             b == [j \in 1..n |-> s[(m + 1) + j]]
  <2>1. n \in Nat /\ n + 1 = Len(s) - m
    BY <1>1
  <2>2. \A k \in 1..(n + 1) : a[k] \in Seq(D)
    BY <1>1, <2>1
  <2>3. \A k \in 1..n : b[k] = a[k + 1]
    BY <1>1, <2>1
  <2>4. [j \in 1..n |-> b[j]] = b /\ [j \in 1..(n + 1) |-> a[j]] = a
    OBVIOUS
  <2>5. a[1] = s[m + 1]
    BY <2>1
  <2>6. behind(s, m) = FlattenSeq(a)
    BY <2>1 DEF behind
  <2>7. behind(s, m + 1) = FlattenSeq(b)
    BY DEF behind
  <2> HIDE DEF n, a, b
  <2>8. Peeled(D, n, a, b)
    BY <2>1, <2>2, <2>3, FlattenFromTheLeft
  <2> QED
    BY <2>4, <2>5, <2>6, <2>7, <2>8 DEF Peeled
<1>5. ASSUME NEW m \in 0..Len(s)
      PROVE  behind(s, m) \in Seq(D)
  <2>1. CASE m = Len(s)
    BY <1>2, <1>3, <2>1
  <2>2. CASE m # Len(s)
    <3>1. m \in 0..(Len(s) - 1)
      BY <1>1, <2>2
    <3>2. s[m + 1] \in Seq(D)
      BY <1>1, <3>1
    <3> QED
      BY <1>4, <3>1, <3>2, JoinFacts
  <2> QED
    BY <2>1, <2>2
<1> QED
  BY <1>2, <1>4, <1>5

(* What stands in front of a text's end is followed by something. *)
Continued(t, D, n) == \A k \in 0..n : \E r \in Seq(D) : t[n] = join(t[k], r)

(* The texts before k are in front of all of them.                          *)
LEMMA FlattenedPrefix ==
  ASSUME NEW D, NEW n \in Nat, NEW s, \A k \in 1..n : s[k] \in Seq(D), NEW t, FlatteningOf(t, D, n, s)
  PROVE  Continued(t, D, n)
<1> DEFINE A == {d \in Nat : d <= n => \E r \in Seq(D) : t[n] = join(t[n - d], r)}
<1>1. t \in [Nat -> Seq(D)] /\ \A k \in 0..(n - 1) : t[k + 1] = join(t[k], s[k + 1])
  BY DEF FlatteningOf
<1>2. 0 \in A
  <2>1. t[n] \in Seq(D) /\ n - 0 = n
    BY <1>1
  <2>2. t[n] = join(t[n], << >>) /\ << >> \in Seq(D)
    BY <2>1, ConcatEmptySeq DEF join
  <2> QED
    BY <2>1, <2>2
<1>3. ASSUME NEW d \in Nat, d \in A
      PROVE  d + 1 \in A
  <2> SUFFICES ASSUME d + 1 <= n
               PROVE  \E r \in Seq(D) : t[n] = join(t[n - (d + 1)], r)
    OBVIOUS
  <2> DEFINE k == n - (d + 1)
  <2>1. k \in 0..(n - 1) /\ k + 1 = n - d /\ k + 1 \in 1..n /\ k \in Nat /\ d <= n
    OBVIOUS
  <2> HIDE DEF k
  <2>2. PICK r \in Seq(D) : t[n] = join(t[n - d], r)
    BY <1>3, <2>1
  <2>3. t[n - d] = join(t[k], s[k + 1])
    BY <1>1, <2>1
  <2>4. t[k] \in Seq(D) /\ s[k + 1] \in Seq(D)
    BY <1>1, <2>1
  <2>5. join(join(t[k], s[k + 1]), r) = join(t[k], join(s[k + 1], r))
    <3>1. \A x, y, z \in Seq(D) : join(join(x, y), z) = join(x, join(y, z))
      BY JoinFacts, Z3
    <3> QED
      BY <2>4, <3>1
  <2>6. join(s[k + 1], r) \in Seq(D)
    BY <2>4, JoinFacts
  <2>7. t[n] = join(t[k], join(s[k + 1], r))
    BY <2>2, <2>3, <2>5
  <2> QED
    BY <2>6, <2>7 DEF k
<1>4. Nat \subseteq A
  <2> HIDE DEF A
  <2> QED
    BY <1>2, <1>3, StepInduction
<1>5. ASSUME NEW k \in 0..n
      PROVE  \E r \in Seq(D) : t[n] = join(t[k], r)
  <2>1. n - k \in Nat /\ n - k <= n /\ n - (n - k) = k
    OBVIOUS
  <2> QED
    BY <1>4, <2>1
<1> QED
  BY <1>5 DEF Continued

(* Where the members of two texts come to stand. *)
Joining(D) ==
  \A x, y \in Seq(D) :
    /\ join(x, y) \in Seq(D) /\ Len(join(x, y)) = Len(x) + Len(y)
    /\ \A k \in 1..Len(x) : join(x, y)[k] = x[k]
    /\ \A k \in 1..Len(y) : join(x, y)[Len(x) + k] = y[k]

(* Both texts are found again in their joining.                             *)
LEMMA JoinPlaces ==
  ASSUME NEW D
  PROVE  Joining(D)
<1> USE DEF Joining
<1> TAKE x, y \in Seq(D)
<1>1. join(x, y) \in Seq(D) /\ Len(join(x, y)) = Len(x) + Len(y)
  BY JoinFacts
<1>2. \A k \in 1..Len(x) : (x \o y)[k] = x[k]
  OBVIOUS
<1>3. \A k \in 1..Len(y) : (x \o y)[Len(x) + k] = y[k]
  OBVIOUS
<1> QED
  BY <1>1, <1>2, <1>3 DEF join

(* A text without its first j members. *)
from(s, j) == [i \in 1..(Len(s) - j) |-> s[j + i]]

(* It is the next member and what is behind it.                             *)
LEMMA FromFacts ==
  ASSUME NEW D, NEW s \in Seq(D)
  PROVE  /\ from(s, 0) = s /\ from(s, Len(s)) = << >>
         /\ \A j \in 0..Len(s) : from(s, j) \in Seq(D)
         /\ \A j \in 0..(Len(s) - 1) : from(s, j) = join(<<s[j + 1]>>, from(s, j + 1))
<1>0. \A x, y \in Seq(D) : \A k \in 1..Len(y) : join(x, y)[Len(x) + k] = y[k]
  <2>1. Joining(D)
    BY JoinPlaces
  <2> QED
    BY <2>1, Zenon DEF Joining
<1>1. Len(s) \in Nat /\ \A k \in 1..Len(s) : s[k] \in D
  OBVIOUS
<1>2. from(s, 0) = s
  BY <1>1 DEF from
<1>3. from(s, Len(s)) = << >>
  BY <1>1 DEF from
<1>4. \A j \in 0..Len(s) : from(s, j) \in Seq(D)
  <2> TAKE j \in 0..Len(s)
  <2>1. Len(s) - j \in Nat
    BY <1>1
  <2> QED
    BY <1>1, <2>1 DEF from
<1>5. ASSUME NEW j \in 0..(Len(s) - 1)
      PROVE  from(s, j) = join(<<s[j + 1]>>, from(s, j + 1))
  <2> DEFINE n == Len(s) - (j + 1)
             a == <<s[j + 1]>>
             b == from(s, j + 1)
  <2>1. n \in Nat /\ Len(s) - j = n + 1 /\ b \in Seq(D) /\ j + 1 \in 1..Len(s)
    BY <1>1, <1>4
  <2>2. b = [i \in 1..n |-> s[(j + 1) + i]] /\ Len(b) = n
    BY <2>1 DEF from
  <2>3. from(s, j) = [i \in 1..(n + 1) |-> s[j + i]]
    BY <2>1 DEF from
  <2>4. Len(a) = 1 /\ a[1] = s[j + 1] /\ a \in Seq(D)
    BY <1>1, <2>1
  <2>5. join(a, b) \in Seq(D) /\ Len(join(a, b)) = n + 1
    <3> HIDE DEF a, b, n
    <3>0. \A x, y \in Seq(D) : join(x, y) \in Seq(D) /\ Len(join(x, y)) = Len(x) + Len(y)
      BY JoinFacts
    <3>1. join(a, b) \in Seq(D) /\ Len(join(a, b)) = Len(a) + Len(b)
      BY <2>1, <2>4, <3>0
    <3> QED
      BY <2>1, <2>2, <2>4, <3>1
  <2>6. ASSUME NEW i \in 1..(n + 1)
        PROVE  join(a, b)[i] = s[j + i]
    <3>1. CASE i = 1
      BY <2>1, <2>2, <2>4, <3>1 DEF join
    <3>2. CASE i # 1
      <4>1. i - 1 \in 1..n /\ (j + 1) + (i - 1) = j + i
        BY <2>1, <3>2
      <4>2. join(a, b)[i] = b[i - 1]
        <5> HIDE DEF a, b, n
        <5>1. \A k \in 1..Len(b) : join(a, b)[Len(a) + k] = b[k]
          BY <2>1, <2>4, <1>0
        <5>2. Len(a) + (i - 1) = i /\ i - 1 \in 1..Len(b)
          BY <2>1, <2>2, <2>4, <4>1
        <5> QED
          BY <5>1, <5>2
      <4> QED
        BY <2>2, <4>1, <4>2
    <3> QED
      BY <3>1, <3>2
  <2>7. join(a, b) = [i \in 1..(n + 1) |-> s[j + i]]
    <3> HIDE DEF a, b, n
    <3> QED
      BY <2>1, <2>5, <2>6
  <2> QED
    BY <2>3, <2>7
<1> QED
  BY <1>2, <1>3, <1>4, <1>5

(* What is in front is in front of both. *)
LEMMA HeadOfJoin ==
  ASSUME NEW D, NEW c \in D, NEW x \in Seq(D), NEW y \in Seq(D)
  PROVE  /\ join(join(<<c>>, x), y) # << >>
         /\ Head(join(join(<<c>>, x), y)) = c
         /\ Tail(join(join(<<c>>, x), y)) = join(x, y)
<1>1. join(join(<<c>>, x), y) = join(<<c>>, join(x, y)) /\ join(x, y) \in Seq(D)
  <2>1. \A u, v, w \in Seq(D) : join(join(u, v), w) = join(u, join(v, w))
    BY JoinFacts, Z3
  <2>2. <<c>> \in Seq(D)
    OBVIOUS
  <2> QED
    BY <2>1, <2>2, JoinFacts
<1> DEFINE z == join(x, y)
<1> HIDE DEF z
<1>2. z \in Seq(D)
  BY <1>1 DEF z
<1>3. <<c>> \o z # << >> /\ Head(<<c>> \o z) = c /\ Tail(<<c>> \o z) = z
  BY <1>2
<1> QED
  BY <1>1, <1>3 DEF z, join

-----------------------------------------------------------------------------
(* The library cuts what it adds to a text where it would cut the whole.    *)
LEMMA AtMostFacts ==
  ASSUME NEW D, NEW n \in Nat, NEW x \in Seq(D), NEW y \in Seq(D)
  PROVE  /\ atMost(n, x) \in Seq(D)
         /\ atMost(n, join(atMost(n, x), y)) = atMost(n, join(x, y))
         /\ IsPrefix(atMost(n, x), atMost(n, join(x, y)))
<1> DEFINE z == join(x, y)
           a == atMost(n, x)
           b == atMost(n, z)
<1>0. Len(x) \in Nat /\ Len(y) \in Nat
  OBVIOUS
<1>1. z \in Seq(D) /\ Len(z) = Len(x) + Len(y) /\ \A k \in 1..Len(x) : z[k] = x[k]
  <2>1. z \in Seq(D) /\ Len(z) = Len(x) + Len(y)
    BY JoinFacts
  <2>2. \A k \in 1..Len(x) : z[k] = x[k]
    BY DEF join
  <2> QED
    BY <2>1, <2>2
<1> HIDE DEF z
<1>2. CASE Len(x) <= n
  <2>1. a = x
    BY <1>2 DEF atMost
  <2>2. IsPrefix(x, b)
    <3>1. CASE Len(z) <= n
      <4>1. b = z
        BY <3>1 DEF atMost
      <4>2. SubSeq(z, 1, Len(x)) = x /\ SubSeq(x, 1, Len(x)) = x
        BY <1>0, <1>1
      <4> QED
        BY <1>0, <1>1, <4>1, <4>2 DEF IsPrefix
    <3>2. CASE ~(Len(z) <= n)
      <4>1. b = SubSeq(z, 1, n)
        BY <3>2 DEF atMost
      <4>2. Len(b) = n /\ \A k \in 1..n : b[k] = z[k]
        BY <1>0, <1>1, <3>2, <4>1
      <4>3. b \in Seq(D)
        BY <1>0, <1>1, <3>2, <4>1
      <4> HIDE DEF b
      <4>4. SubSeq(b, 1, Len(x)) = SubSeq(x, 1, Len(x))
        BY <1>0, <1>1, <1>2, <4>2, <4>3
      <4> QED
        BY <1>2, <4>2, <4>4 DEF IsPrefix
    <3> QED
      BY <3>1, <3>2
  <2> QED
    BY <2>1, <2>2 DEF z
<1>3. CASE ~(Len(x) <= n)
  <2>1. a = SubSeq(x, 1, n)
    BY <1>3 DEF atMost
  <2>2. a \in Seq(D) /\ Len(a) = n /\ \A k \in 1..n : a[k] = x[k]
    BY <1>0, <1>3, <2>1
  <2>3. b = SubSeq(z, 1, n)
    BY <1>0, <1>1, <1>3 DEF atMost
  <2>4. b = a
    BY <1>0, <1>1, <1>3, <2>1, <2>3
  <2> HIDE DEF a, b
  <2>5. atMost(n, join(a, y)) = a
    <3> DEFINE w == join(a, y)
    <3>1. w \in Seq(D) /\ Len(w) = n + Len(y) /\ \A k \in 1..n : w[k] = a[k]
      <4>1. w \in Seq(D) /\ Len(w) = n + Len(y)
        BY <2>2, JoinFacts
      <4>2. \A k \in 1..n : w[k] = a[k]
        BY <2>2 DEF join
      <4> QED
        BY <4>1, <4>2
    <3> HIDE DEF w
    <3>2. CASE Len(w) <= n
      <4>1. Len(w) = Len(a) /\ \A k \in 1..Len(w) : w[k] = a[k]
        BY <1>0, <2>2, <3>1, <3>2
      <4>2. w = a
        BY <2>2, <3>1, <4>1
      <4> QED
        BY <3>2, <4>2 DEF atMost, w
    <3>3. CASE ~(Len(w) <= n)
      <4>1. SubSeq(w, 1, n) = a
        BY <1>0, <2>2, <3>1, <3>3
      <4> QED
        BY <3>3, <4>1 DEF atMost, w
    <3> QED
      BY <3>2, <3>3
  <2>6. IsPrefix(a, a)
    BY <2>2 DEF IsPrefix
  <2> QED
    BY <2>2, <2>4, <2>5, <2>6 DEF a, b, z
<1> QED
  BY <1>2, <1>3

(* The room a call's text has, as an operator on the call. *)
roomIn(r, text) == IF r.console THEN text ELSE atMost((r.size \div 2) - 1, text)

(* What a string has no room for is lost once, whenever it is flushed.      *)
LEMMA RoomFacts ==
  ASSUME NEW r \in Requests, NEW D, NEW x \in Seq(D), NEW y \in Seq(D)
  PROVE  /\ roomIn(r, x) \in Seq(D)
         /\ roomIn(r, join(roomIn(r, x), y)) = roomIn(r, join(x, y))
         /\ IsPrefix(roomIn(r, x), roomIn(r, join(x, y)))
<1>1. CASE r.console
  <2> DEFINE z == join(x, y)
  <2>1. z \in Seq(D) /\ Len(z) = Len(x) + Len(y) /\ \A k \in 1..Len(x) : z[k] = x[k]
    BY JoinPlaces DEF Joining
  <2> HIDE DEF z
  <2>2. Len(x) \in Nat /\ Len(y) \in Nat
    OBVIOUS
  <2>3. Len(x) <= Len(z) /\ SubSeq(z, 1, Len(x)) = SubSeq(x, 1, Len(x))
    BY <2>1, <2>2
  <2>4. IsPrefix(x, z)
    BY <2>3 DEF IsPrefix
  <2> QED
    BY <1>1, <2>4 DEF roomIn, z
<1>2. CASE ~r.console
  <2> DEFINE n == (r.size \div 2) - 1
  <2>1. r.size \in Nat /\ r.size >= 2
    BY <1>2, FirmwareTextAssumption
  <2>2. n \in Nat
    BY <2>1
  <2> HIDE DEF n
  <2>3. \A text : roomIn(r, text) = atMost(n, text)
    BY <1>2 DEF roomIn, n
  <2>4. /\ atMost(n, x) \in Seq(D)
        /\ atMost(n, join(atMost(n, x), y)) = atMost(n, join(x, y))
        /\ IsPrefix(atMost(n, x), atMost(n, join(x, y)))
    BY <2>2, AtMostFacts
  <2> QED
    BY <2>3, <2>4
<1> QED
  BY <1>1, <1>2

(* The two are the same.                                                    *)
LEMMA SameRoom == \A text : room(text) = roomIn(request, text)
  BY DEF room, roomIn, maxlen

-----------------------------------------------------------------------------
(* Characters of the output, each in its attribute. *)
Colours == {NoAttribute, "initial", "normal", "highlight", "error"}

(* A cell of the output, and the buffer with what is known of it.           *)
Cells == Alphabet \X Colours
Outs == [buffer : Seq(Alphabet), attr : Colours, len : Nat, flushed : Seq(Cells)]

(* The attribute goes to every character of a text.                         *)
LEMMA ColouredFacts ==
  ASSUME NEW a \in Colours
  PROVE  /\ inAttribute(<< >>, a) = << >>
         /\ \A x \in Seq(Alphabet) : inAttribute(x, a) \in Seq(Cells) /\ Len(inAttribute(x, a)) = Len(x)
         /\ \A x, y \in Seq(Alphabet) :
              inAttribute(join(x, y), a) = join(inAttribute(x, a), inAttribute(y, a))
<1>1. inAttribute(<< >>, a) = << >>
  BY DEF inAttribute
<1>2. ASSUME NEW x \in Seq(Alphabet)
      PROVE  /\ inAttribute(x, a) \in Seq(Cells) /\ Len(inAttribute(x, a)) = Len(x)
             /\ \A k \in 1..Len(x) : inAttribute(x, a)[k] = <<x[k], a>>
  <2>1. Len(x) \in Nat /\ \A k \in 1..Len(x) : <<x[k], a>> \in Cells
    BY DEF Cells
  <2> QED
    BY <2>1 DEF inAttribute
<1>3. ASSUME NEW x \in Seq(Alphabet), NEW y \in Seq(Alphabet)
      PROVE  inAttribute(join(x, y), a) = join(inAttribute(x, a), inAttribute(y, a))
  <2> DEFINE z == join(x, y)
             u == inAttribute(x, a)
             v == inAttribute(y, a)
             w == inAttribute(z, a)
  <2> HIDE DEF u, v, w
  <2>0. Joining(Alphabet)
    BY JoinPlaces
  <2>1. /\ z \in Seq(Alphabet) /\ Len(z) = Len(x) + Len(y)
        /\ \A k \in 1..Len(x) : z[k] = x[k]
        /\ \A k \in 1..Len(y) : z[Len(x) + k] = y[k]
    BY <2>0 DEF Joining
  <2> HIDE DEF z
  <2>2. /\ u \in Seq(Cells) /\ Len(u) = Len(x) /\ \A k \in 1..Len(x) : u[k] = <<x[k], a>>
        /\ v \in Seq(Cells) /\ Len(v) = Len(y) /\ \A k \in 1..Len(y) : v[k] = <<y[k], a>>
        /\ w \in Seq(Cells) /\ Len(w) = Len(z) /\ \A k \in 1..Len(z) : w[k] = <<z[k], a>>
    BY <1>2, <2>1 DEF u, v, w
  <2>10. Joining(Cells)
    BY JoinPlaces
  <2>3. /\ join(u, v) \in Seq(Cells) /\ Len(join(u, v)) = Len(u) + Len(v)
        /\ \A k \in 1..Len(u) : join(u, v)[k] = u[k]
        /\ \A k \in 1..Len(v) : join(u, v)[Len(u) + k] = v[k]
    BY <2>2, <2>10 DEF Joining
  <2>4. Len(x) \in Nat /\ Len(y) \in Nat
    OBVIOUS
  <2>5. ASSUME NEW k \in 1..Len(z)
        PROVE  w[k] = join(u, v)[k]
    <3>1. CASE k <= Len(x)
      <4>1. k \in 1..Len(x)
        BY <2>4, <3>1
      <4> QED
        BY <2>1, <2>2, <2>3, <4>1
    <3>2. CASE ~(k <= Len(x))
      <4>1. PICK j \in 1..Len(y) : k = Len(x) + j
        <5>1. k - Len(x) \in 1..Len(y) /\ k = Len(x) + (k - Len(x))
          BY <2>1, <2>4, <3>2
        <5> QED
          BY <5>1
      <4> QED
        BY <2>1, <2>2, <2>3, <4>1
    <3> QED
      BY <3>1, <3>2
  <2>6. Len(w) = Len(join(u, v))
    BY <2>1, <2>2, <2>3
  <2>7. w = join(u, v)
    <3> DEFINE uv == join(u, v)
    <3>1. uv \in Seq(Cells) /\ w \in Seq(Cells) /\ Len(w) = Len(uv) /\ \A k \in 1..Len(w) : w[k] = uv[k]
      BY <2>2, <2>3, <2>5, <2>6
    <3> HIDE DEF uv
    <3>2. w = uv
      BY <3>1, SeqEqual
    <3> QED
      BY <3>2 DEF uv
  <2> QED
    BY <2>7 DEF u, v, w, z
<1> QED
  BY <1>1, <1>2, <1>3

(* A text has been put out: some has been flushed, the rest is in the       *)
(* buffer, all of it in the attribute that is in force.                     *)
Emitted(r, o, text) ==
  /\ o \in Outs /\ text \in Seq(Cells) /\ o.len = Len(text)
  /\ \E h \in Seq(Cells) :
       text = join(h, inAttribute(o.buffer, o.attr)) /\ o.flushed = roomIn(r, h)

(* A flush moves the text on and loses nothing of it (PFLUSH).              *)
LEMMA FlushKeeps ==
  ASSUME request \in Requests, NEW o, NEW text, Emitted(request, o, text)
  PROVE  /\ Emitted(request, PFLUSH(o), text)
         /\ PFLUSH(o).attr = o.attr /\ PFLUSH(o).buffer = << >>
         /\ PFLUSH(o).flushed = roomIn(request, text)
<1> DEFINE f == PFLUSH(o)
           m == inAttribute(o.buffer, o.attr)
<1>1. o \in Outs /\ text \in Seq(Cells) /\ o.len = Len(text) /\ o.attr \in Colours
  BY DEF Emitted, Outs
<1>2. m \in Seq(Cells)
  BY <1>1, ColouredFacts DEF Outs
<1>3. PICK h \in Seq(Cells) : text = join(h, m) /\ o.flushed = roomIn(request, h)
  BY DEF Emitted
<1>4. f = [o EXCEPT !.flushed = roomIn(request, join(o.flushed, m)), !.buffer = << >>]
  BY SameRoom DEF PFLUSH, join
<1> HIDE DEF f, m
<1>5. roomIn(request, join(o.flushed, m)) = roomIn(request, text)
  BY <1>2, <1>3, RoomFacts
<1>6. roomIn(request, text) \in Seq(Cells)
  BY <1>1, RoomFacts
<1>7. << >> \in Seq(Alphabet) /\ << >> \in Seq(Cells)
  OBVIOUS
<1>8. f \in Outs /\ f.attr = o.attr /\ f.buffer = << >> /\ f.flushed = roomIn(request, text) /\ f.len = o.len
  BY <1>1, <1>4, <1>5, <1>6, <1>7 DEF Outs
<1>9. text = join(text, inAttribute(f.buffer, f.attr))
  <2>1. inAttribute(f.buffer, f.attr) = << >>
    BY <1>1, <1>8, ColouredFacts
  <2> QED
    BY <1>1, <2>1, ConcatEmptySeq DEF join
<1>10. Emitted(request, f, text)
  BY <1>1, <1>8, <1>9 DEF Emitted
<1> QED
  BY <1>8, <1>10 DEF f

(* A new attribute does not reach what was put out before (PSETATTR).       *)
LEMMA SettingKeeps ==
  ASSUME request \in Requests, NEW o, NEW text, Emitted(request, o, text), NEW a \in Colours
  PROVE  Emitted(request, PSETATTR(o, a), text) /\ PSETATTR(o, a).attr = a
<1> DEFINE f == PFLUSH(o)
           g == [f EXCEPT !.attr = a]
<1>1. /\ Emitted(request, f, text) /\ f.buffer = << >> /\ f.flushed = roomIn(request, text)
  BY FlushKeeps
<1>2. PSETATTR(o, a) = g
  BY DEF PSETATTR
<1> HIDE DEF f
<1>3. f \in Outs /\ text \in Seq(Cells) /\ f.len = Len(text)
  BY <1>1 DEF Emitted
<1>4. g \in Outs /\ g.attr = a /\ g.buffer = << >> /\ g.flushed = roomIn(request, text) /\ g.len = f.len
  BY <1>1, <1>3 DEF Outs
<1> HIDE DEF g
<1>5. text = join(text, inAttribute(g.buffer, g.attr))
  <2>1. inAttribute(g.buffer, g.attr) = << >>
    BY <1>4, ColouredFacts
  <2> QED
    BY <1>3, <2>1, ConcatEmptySeq DEF join
<1>6. Emitted(request, g, text)
  BY <1>3, <1>4, <1>5 DEF Emitted
<1> QED
  BY <1>2, <1>4, <1>6

(* One more character is put out, whether it fills up the buffer or not.    *)
LEMMA OneMore ==
  ASSUME request \in Requests, NEW o, NEW text, Emitted(request, o, text), NEW c \in Alphabet
  PROVE  /\ Emitted(request, putOne(o, c), join(text, inAttribute(<<c>>, o.attr)))
         /\ putOne(o, c).attr = o.attr
<1> DEFINE more == [o EXCEPT !.buffer = Append(o.buffer, c), !.len = o.len + 1]
           s == inAttribute(<<c>>, o.attr)
           m == inAttribute(o.buffer, o.attr)
<1>1. o \in Outs /\ text \in Seq(Cells) /\ o.len = Len(text) /\ o.attr \in Colours /\ o.buffer \in Seq(Alphabet)
  BY DEF Emitted, Outs
<1>2. PICK h \in Seq(Cells) : text = join(h, m) /\ o.flushed = roomIn(request, h)
  BY DEF Emitted
<1>3. <<c>> \in Seq(Alphabet) /\ Len(<<c>>) = 1
  OBVIOUS
<1>4. m \in Seq(Cells) /\ s \in Seq(Cells) /\ Len(s) = 1
  BY <1>1, <1>3, ColouredFacts
<1>5. Append(o.buffer, c) = join(o.buffer, <<c>>) /\ Append(o.buffer, c) \in Seq(Alphabet)
  BY <1>1, <1>3 DEF join
<1>6. inAttribute(Append(o.buffer, c), o.attr) = join(m, s)
  <2> DEFINE a == o.attr
             x == o.buffer
             y == <<c>>
  <2>1. a \in Colours /\ x \in Seq(Alphabet) /\ y \in Seq(Alphabet)
    BY <1>1, <1>3
  <2> HIDE DEF a, x, y
  <2>2. inAttribute(join(x, y), a) = join(inAttribute(x, a), inAttribute(y, a))
    BY <2>1, ColouredFacts
  <2> QED
    BY <1>5, <2>2 DEF a, x, y
<1>7. more \in Outs /\ more.attr = o.attr /\ more.buffer = Append(o.buffer, c) /\ more.len = o.len + 1 /\ more.flushed = o.flushed
  <2> DEFINE b == Append(o.buffer, c)
  <2>1. b \in Seq(Alphabet) /\ o.len + 1 \in Nat
    BY <1>1, <1>5 DEF Outs
  <2> HIDE DEF b
  <2>2. more = [o EXCEPT !.buffer = b, !.len = o.len + 1]
    BY DEF b
  <2> HIDE DEF more
  <2>3. more \in Outs /\ more.attr = o.attr /\ more.buffer = b /\ more.len = o.len + 1 /\ more.flushed = o.flushed
    BY <1>1, <2>1, <2>2 DEF Outs
  <2> QED
    BY <2>3 DEF b
<1>8. putOne(o, c) = IF Len(more.buffer) >= BufferLength - 1 THEN PFLUSH(more) ELSE more
  BY DEF putOne
<1> HIDE DEF more, s, m
<1>9. join(text, s) \in Seq(Cells) /\ Len(join(text, s)) = Len(text) + 1
  <2>1. join(text, s) \in Seq(Cells) /\ Len(join(text, s)) = Len(text) + Len(s)
    BY <1>1, <1>4, JoinFacts
  <2> QED
    BY <1>1, <1>4, <2>1
<1>10. join(text, s) = join(h, join(m, s))
  <2>1. \A x, y, z \in Seq(Cells) : join(join(x, y), z) = join(x, join(y, z))
    BY JoinFacts, Z3
  <2> QED
    BY <1>2, <1>4, <2>1
<1>11. Emitted(request, more, join(text, s))
  BY <1>1, <1>2, <1>6, <1>7, <1>9, <1>10 DEF Emitted
<1>12. Emitted(request, PFLUSH(more), join(text, s)) /\ PFLUSH(more).attr = more.attr
  BY <1>11, FlushKeeps
<1> QED
  BY <1>7, <1>8, <1>11, <1>12 DEF s

(* A line's end is two characters. *)
LEMMA LineFacts ==
  ASSUME NEW c \in Alphabet
  PROVE  /\ lineOf(c) \in Seq(Alphabet)
         /\ c = LineFeed => lineOf(c) = join(<<CarriageReturn>>, <<LineFeed>>)
         /\ c # LineFeed => lineOf(c) = <<c>>
<1>1. <<CarriageReturn, LineFeed>> = join(<<CarriageReturn>>, <<LineFeed>>)
  BY DEF join
<1>2. CarriageReturn \in Alphabet /\ LineFeed \in Alphabet
  BY AlphabetFacts
<1> QED
  BY <1>1, <1>2 DEF lineOf

(* A character puts out its line (PPUTC).                                   *)
LEMMA PutFacts ==
  ASSUME request \in Requests, NEW o, NEW text, Emitted(request, o, text), NEW c \in Alphabet
  PROVE  /\ Emitted(request, PPUTC(o, c), join(text, inAttribute(lineOf(c), o.attr)))
         /\ PPUTC(o, c).attr = o.attr
<1>1. CASE c # LineFeed
  BY <1>1, LineFacts, OneMore DEF PPUTC
<1>2. CASE c = LineFeed
  <2>1. CarriageReturn \in Alphabet /\ LineFeed \in Alphabet
    BY AlphabetFacts
  <2> DEFINE a == o.attr
             one == <<CarriageReturn>>
             two == <<LineFeed>>
             o1 == putOne(o, CarriageReturn)
             o2 == putOne(o1, LineFeed)
             t1 == join(text, inAttribute(one, a))
             t2 == join(t1, inAttribute(two, a))
  <2>2. Emitted(request, o1, t1) /\ o1.attr = a
    BY <2>1, OneMore
  <2>3. Emitted(request, o2, join(t1, inAttribute(two, o1.attr))) /\ o2.attr = o1.attr
    <3> HIDE DEF o1, t1
    <3> QED
      BY <2>1, <2>2, OneMore
  <2>4. PPUTC(o, c) = o2
    BY <1>2 DEF PPUTC
  <2>5. lineOf(c) = join(one, two)
    BY <1>2, LineFacts
  <2>6. one \in Seq(Alphabet) /\ two \in Seq(Alphabet) /\ a \in Colours /\ text \in Seq(Cells)
    BY <2>1 DEF Emitted, Outs
  <2> HIDE DEF one, two, a, o1, o2
  <2>7. inAttribute(lineOf(c), a) = join(inAttribute(one, a), inAttribute(two, a))
    BY <2>5, <2>6, ColouredFacts
  <2>8. inAttribute(one, a) \in Seq(Cells) /\ inAttribute(two, a) \in Seq(Cells)
    BY <2>6, ColouredFacts
  <2>9. t2 = join(text, inAttribute(lineOf(c), a))
    <3>1. \A x, y, z \in Seq(Cells) : join(join(x, y), z) = join(x, join(y, z))
      BY JoinFacts, Z3
    <3> QED
      BY <2>6, <2>7, <2>8, <3>1
  <2>10. Emitted(request, o2, t2) /\ o2.attr = a
    BY <2>2, <2>3
  <2> QED
    BY <2>4, <2>9, <2>10 DEF a
<1> QED
  BY <1>1, <1>2

(* The lines of a text, with those of its beginnings. *)
LinesOf(t, chars) ==
  /\ FlatteningOf(t, Alphabet, Len(chars), [k \in 1..Len(chars) |-> lineOf(chars[k])])
  /\ lines(chars) = t[Len(chars)]
  /\ t \in [Nat -> Seq(Alphabet)] /\ t[0] = << >>
  /\ \A k \in 0..(Len(chars) - 1) : t[k + 1] = join(t[k], lineOf(chars[k + 1]))

(* Every text has its lines.                                                *)
LEMMA LinesFacts ==
  ASSUME NEW chars \in Seq(Alphabet)
  PROVE  \E t : LinesOf(t, chars)
<1> DEFINE n == Len(chars)
           s == [k \in 1..n |-> lineOf(chars[k])]
<1>1. n \in Nat /\ \A k \in 1..n : s[k] \in Seq(Alphabet) /\ s[k] = lineOf(chars[k])
  <2>1. \A k \in 1..Len(chars) : lineOf(chars[k]) \in Seq(Alphabet)
    BY LineFacts
  <2> QED
    BY <2>1
<1>2. lines(chars) = FlattenSeq(s)
  BY DEF lines, each
<1>3. [j \in 1..n |-> s[j]] = s
  OBVIOUS
<1> HIDE DEF s, n
<1>4. PICK t : FlatteningOf(t, Alphabet, n, s)
  BY <1>1, FlattenFacts
<1>5. /\ t \in [Nat -> Seq(Alphabet)] /\ t[0] = << >>
      /\ \A k \in 0..(n - 1) : t[k + 1] = join(t[k], s[k + 1])
      /\ \A k \in 0..n : FlattenSeq([j \in 1..k |-> s[j]]) = t[k]
  BY <1>4 DEF FlatteningOf
<1>6. lines(chars) = t[n]
  <2>1. n \in 0..n
    BY <1>1
  <2> QED
    BY <1>2, <1>3, <1>5, <2>1
<1>7. \A k \in 0..(n - 1) : t[k + 1] = join(t[k], lineOf(chars[k + 1]))
  <2> TAKE k \in 0..(n - 1)
  <2>1. k + 1 \in 1..n
    BY <1>1
  <2> QED
    BY <1>1, <1>5, <2>1
<1>8. FlatteningOf(t, Alphabet, n, s) /\ t \in [Nat -> Seq(Alphabet)] /\ t[0] = << >>
  BY <1>4, <1>5
<1> QED
  BY <1>6, <1>7, <1>8 DEF LinesOf, n, s

(* A text puts out its lines, one character after the other.                *)
LEMMA PutsFacts ==
  ASSUME request \in Requests, NEW o, NEW text, Emitted(request, o, text), NEW chars \in Seq(Alphabet)
  PROVE  /\ Emitted(request, puts(o, chars), join(text, inAttribute(lines(chars), o.attr)))
         /\ puts(o, chars).attr = o.attr
<1> DEFINE n == Len(chars)
           S == {x \in Outs : \E y : Emitted(request, x, y)}
           step == [k \in Nat |-> [x \in S |-> IF k < n THEN PPUTC(x, chars[k + 1]) ELSE x]]
           equation(f) == f = [k \in 0..n |-> IF k = 0 THEN o ELSE PPUTC(f[k - 1], chars[k])]
           after == CHOOSE f : equation(f)
<1>1. n \in Nat /\ \A k \in 1..n : chars[k] \in Alphabet
  OBVIOUS
<1>2. o \in S /\ text \in Seq(Cells) /\ o.attr \in Colours
  BY DEF Emitted, Outs
<1>3. ASSUME NEW x \in S, NEW c \in Alphabet
      PROVE  PPUTC(x, c) \in S
  <2>1. PICK y : Emitted(request, x, y)
    OBVIOUS
  <2>2. Emitted(request, PPUTC(x, c), join(y, inAttribute(lineOf(c), x.attr)))
    BY <2>1, PutFacts
  <2>3. PPUTC(x, c) \in Outs
    BY <2>2 DEF Emitted
  <2> QED
    BY <2>2, <2>3
<1>4. step \in [Nat -> [S -> S]]
  <2>1. ASSUME NEW k \in Nat, NEW x \in S
        PROVE  (IF k < n THEN PPUTC(x, chars[k + 1]) ELSE x) \in S
    <3>1. CASE k < n
      <4>1. k + 1 \in 1..n
        BY <1>1, <3>1
      <4>2. chars[k + 1] \in Alphabet
        BY <1>1, <4>1
      <4> HIDE DEF S
      <4> QED
        BY <1>3, <3>1, <4>2
    <3> QED
      BY <3>1
  <2> HIDE DEF S
  <2> QED
    BY <2>1
<1>5. PICK t : /\ t \in [Nat -> S] /\ t[0] = o
               /\ \A k \in Nat : k < n => t[k + 1] = PPUTC(t[k], chars[k + 1])
  <2>1. \E t : IsPath(t, S, o, step)
    <3> HIDE DEF S, step
    <3> QED
      BY <1>2, <1>4, Iterates
  <2>2. PICK t : IsPath(t, S, o, step)
    BY <2>1
  <2>3. t \in [Nat -> S] /\ t[0] = o /\ \A k \in Nat : t[k + 1] = step[k][t[k]]
    BY <2>2 DEF IsPath
  <2>4. \A k \in Nat : k < n => t[k + 1] = PPUTC(t[k], chars[k + 1])
    <3> TAKE k \in Nat
    <3>1. t[k] \in S
      BY <2>3
    <3> HIDE DEF S
    <3> QED
      BY <2>3, <3>1
  <2> QED
    BY <2>3, <2>4
<1>6. equation([k \in 0..n |-> t[k]])
  <2> DEFINE g == [k \in 0..n |-> t[k]]
  <2>1. ASSUME NEW k \in 0..n
        PROVE  g[k] = IF k = 0 THEN o ELSE PPUTC(g[k - 1], chars[k])
    <3>1. CASE k = 0
      BY <1>5, <3>1
    <3>2. CASE k # 0
      <4>1. k - 1 \in Nat /\ k - 1 \in 0..n /\ (k - 1) + 1 = k /\ k - 1 < n
        BY <1>1, <3>2
      <4>2. t[(k - 1) + 1] = PPUTC(t[k - 1], chars[(k - 1) + 1])
        BY <1>5, <4>1
      <4> QED
        BY <3>2, <4>1, <4>2
    <3> QED
      BY <3>1, <3>2
  <2> QED
    BY <2>1
<1>7. equation(after)
  <2> DEFINE g == [k \in 0..n |-> t[k]]
  <2>1. equation(g)
    BY <1>6
  <2> HIDE DEF g
  <2> QED
    BY <2>1
<1>8. puts(o, chars) = after[n]
  BY DEF puts
<1> HIDE DEF after, S, step
<1>9. after[0] = o /\ \A k \in 0..(n - 1) : after[k + 1] = PPUTC(after[k], chars[k + 1])
  <2>1. after[0] = o
    <3>1. 0 \in 0..n
      BY <1>1
    <3> QED
      BY <1>7, <3>1
  <2>2. ASSUME NEW k \in 0..(n - 1)
        PROVE  after[k + 1] = PPUTC(after[k], chars[k + 1])
    <3>1. k + 1 \in 0..n /\ k + 1 # 0 /\ (k + 1) - 1 = k
      BY <1>1
    <3>2. after[k + 1] = PPUTC(after[(k + 1) - 1], chars[k + 1])
      BY <1>7, <3>1
    <3> QED
      BY <3>1, <3>2
  <2> QED
    BY <2>1, <2>2
<1>10. PICK l : LinesOf(l, chars)
  BY LinesFacts
<1>11. /\ lines(chars) = l[n]
       /\ l \in [Nat -> Seq(Alphabet)] /\ l[0] = << >>
       /\ \A k \in 0..(n - 1) : l[k + 1] = join(l[k], lineOf(chars[k + 1]))
  BY <1>10 DEF LinesOf
<1> HIDE DEF n
<1> DEFINE a == o.attr
           A == {k \in Nat : k <= n => /\ Emitted(request, after[k], join(text, inAttribute(l[k], a)))
                                       /\ after[k].attr = a}
<1>12. a \in Colours
  BY <1>2
<1>13. 0 \in A
  <2>1. join(text, inAttribute(l[0], a)) = text
    <3>1. inAttribute(<< >>, a) = << >>
      BY <1>12, ColouredFacts
    <3>2. text \o << >> = text
      BY <1>2, ConcatEmptySeq
    <3> QED
      BY <1>11, <3>1, <3>2 DEF join
  <2> QED
    BY <1>9, <2>1
<1>14. ASSUME NEW k \in Nat, k \in A
       PROVE  k + 1 \in A
  <2> SUFFICES ASSUME k + 1 <= n
               PROVE  /\ Emitted(request, after[k + 1], join(text, inAttribute(l[k + 1], a)))
                      /\ after[k + 1].attr = a
    OBVIOUS
  <2>1. k \in 0..(n - 1) /\ k + 1 \in 1..n /\ k <= n
    BY <1>1
  <2> DEFINE c == chars[k + 1]
             x == after[k]
             y == join(text, inAttribute(l[k], a))
  <2>2. c \in Alphabet /\ Emitted(request, x, y) /\ x.attr = a
    BY <1>1, <1>14, <2>1
  <2>3. after[k + 1] = PPUTC(x, c) /\ l[k + 1] = join(l[k], lineOf(c))
    BY <1>9, <1>11, <2>1
  <2>4. l[k] \in Seq(Alphabet) /\ lineOf(c) \in Seq(Alphabet)
    BY <1>11, <2>2, LineFacts
  <2> HIDE DEF c, x, a
  <2>5. join(y, inAttribute(lineOf(c), a)) = join(text, inAttribute(l[k + 1], a))
    <3>1. inAttribute(l[k + 1], a) = join(inAttribute(l[k], a), inAttribute(lineOf(c), a))
      BY <1>12, <2>3, <2>4, ColouredFacts
    <3>2. inAttribute(l[k], a) \in Seq(Cells) /\ inAttribute(lineOf(c), a) \in Seq(Cells)
      BY <1>12, <2>4, ColouredFacts
    <3>3. \A u, v, w \in Seq(Cells) : join(join(u, v), w) = join(u, join(v, w))
      BY JoinFacts, Z3
    <3> QED
      BY <1>2, <3>1, <3>2, <3>3
  <2> HIDE DEF y
  <2>6. Emitted(request, PPUTC(x, c), join(y, inAttribute(lineOf(c), x.attr))) /\ PPUTC(x, c).attr = x.attr
    BY <2>2, PutFacts
  <2> QED
    BY <2>2, <2>3, <2>5, <2>6
<1>15. Nat \subseteq A
  <2> HIDE DEF A
  <2> QED
    BY <1>13, <1>14, StepInduction
<1>16. n \in A /\ n <= n
  BY <1>1, <1>15
<1> QED
  BY <1>8, <1>11, <1>16 DEF n

(* The digits of a number in k places, the most significant first. *)
inPlaces(x, b, k) == [j \in 1..k |-> Digits[((x \div power(b, k - j)) % b) + 1]]

(* They are a text of k characters.                                         *)
LEMMA InPlacesFacts ==
  ASSUME NEW x \in Nat, NEW b \in 2..16, NEW k \in Nat
  PROVE  inPlaces(x, b, k) \in Seq(Alphabet) /\ Len(inPlaces(x, b, k)) = k
<1>1. ASSUME NEW j \in 1..k
      PROVE  Digits[((x \div power(b, k - j)) % b) + 1] \in Alphabet
  <2>1. k - j \in Nat
    OBVIOUS
  <2>2. power(b, k - j) \in Nat \ {0}
    BY <2>1, PowerFacts
  <2>3. x \div power(b, k - j) \in Nat
    BY <2>2
  <2>4. (x \div power(b, k - j)) % b \in 0..15
    BY <2>3
  <2> QED
    BY <2>4, AlphabetFacts
<1>2. inPlaces(x, b, k) \in [1..k -> Alphabet]
  BY <1>1 DEF inPlaces
<1> QED
  BY <1>2

(* A number has one more place than its quotient. *)
LEMMA LastPlace ==
  ASSUME NEW x \in Nat, NEW b \in 2..16, NEW k \in Nat, k > 1
  PROVE  inPlaces(x, b, k) = Append(inPlaces(x \div b, b, k - 1), Digits[(x % b) + 1])
<1> DEFINE y == x \div b
           u == inPlaces(x, b, k)
           v == inPlaces(y, b, k - 1)
           d == Digits[(x % b) + 1]
<1>1. y \in Nat /\ x % b \in 0..15 /\ k - 1 \in Nat
  OBVIOUS
<1>2. d \in Alphabet
  BY <1>1, AlphabetFacts
<1>3. u \in Seq(Alphabet) /\ Len(u) = k
  BY InPlacesFacts
<1>4. v \in Seq(Alphabet) /\ Len(v) = k - 1
  <2> HIDE DEF y
  <2> QED
    BY <1>1, InPlacesFacts
<1>5. \A j \in 1..k : u[j] = Digits[((x \div power(b, k - j)) % b) + 1]
  BY DEF inPlaces
<1>6. \A j \in 1..(k - 1) : v[j] = Digits[((y \div power(b, (k - 1) - j)) % b) + 1]
  BY DEF inPlaces
<1>7. \A j \in 1..(k - 1) : u[j] = v[j]
  <2> TAKE j \in 1..(k - 1)
  <2>1. j \in 1..k /\ (k - 1) - j \in Nat /\ ((k - 1) - j) + 1 = k - j
    OBVIOUS
  <2>2. x \div power(b, ((k - 1) - j) + 1) = y \div power(b, (k - 1) - j)
    BY <2>1, PlacesShift
  <2> HIDE DEF u, v, y
  <2> QED
    BY <1>5, <1>6, <2>1, <2>2
<1>8. u[k] = d
  <2>1. k - k = 0 /\ k \in 1..k
    OBVIOUS
  <2>2. power(b, 0) = 1
    <3>1. b \in Nat \ {0}
      OBVIOUS
    <3> QED
      BY <3>1, PowerFacts
  <2>3. (x \div 1) % b = (x % b)
    OBVIOUS
  <2> HIDE DEF u
  <2> QED
    BY <1>5, <2>1, <2>2, <2>3
<1> HIDE DEF u, v, d, y
<1>9. u = Append(v, d)
  <2> DEFINE w == Append(v, d)
  <2>1. w \in Seq(Alphabet) /\ Len(w) = k /\ \A j \in 1..k : w[j] = IF j = k THEN d ELSE v[j]
    BY <1>1, <1>2, <1>4
  <2>2. \A j \in 1..k : u[j] = w[j]
    <3> TAKE j \in 1..k
    <3>1. CASE j = k
      BY <1>8, <2>1, <3>1
    <3>2. CASE j # k
      <4>1. j \in 1..(k - 1)
        BY <3>2
      <4> HIDE DEF w
      <4> QED
        BY <1>7, <2>1, <3>2, <4>1
    <3> QED
      BY <3>1, <3>2
  <2> HIDE DEF w
  <2>3. u = w
    BY <1>3, <2>1, <2>2, SeqEqual
  <2> QED
    BY <2>3 DEF w
<1> QED
  BY <1>9 DEF u, v, d, y

(* The library's digits of a number are those by place value. *)
LEMMA DigitsByPlace ==
  ASSUME NEW b \in 2..16, NEW v \in Nat, v < power(2, LongBits)
  PROVE  /\ digitsOf(v, b) = byPlace(v, b) /\ digitsOf(v, b) \in Seq(Alphabet)
         /\ Len(digitsOf(v, b)) \in 1..LongBits
         /\ v = 0 => digitsOf(v, b) = <<"0">>
<1> DEFINE equation(f) ==
             f = [m \in Nat |-> IF m < b THEN <<Digits[m + 1]>>
                                ELSE Append(f[m \div b], Digits[(m % b) + 1])]
           digits == CHOOSE f : equation(f)
           length(x) == CHOOSE k \in Nat \ {0} : Long(x, b, k)
           g == [x \in Nat |-> inPlaces(x, b, length(x))]
<1>0. b \in Nat \ {0, 1} /\ b \in Nat \ {0} /\ LongBits \in Nat \ {0}
  <2>1. IntBits \in Nat \ {0} /\ LongBits \in IntBits..998
    BY FirmwareTextAssumption
  <2> QED
    BY <2>1
<1>1. ASSUME NEW x \in Nat
      PROVE  /\ length(x) \in Nat \ {0} /\ Long(x, b, length(x))
             /\ \A j \in Nat \ {0} : Long(x, b, j) => j = length(x)
             /\ \A w \in Nat \ {0} : x < power(2, w) => length(x) <= w
             /\ x < b => length(x) = 1
             /\ x >= b => length(x) > 1 /\ length(x \div b) = length(x) - 1
  <2>1. PICK k \in Nat \ {0} :
           /\ Long(x, b, k)
           /\ \A j \in Nat \ {0} : Long(x, b, j) => j = k
           /\ \A w \in Nat \ {0} : x < power(2, w) => k <= w
           /\ x < b => k = 1
           /\ x >= b => k > 1 /\ Long(x \div b, b, k - 1)
    BY <1>0, Lengths
  <2>2. length(x) = k
    BY <2>1
  <2>3. x >= b => length(x \div b) = k - 1
    <3> SUFFICES ASSUME x >= b
                 PROVE  length(x \div b) = k - 1
      OBVIOUS
    <3>1. x \div b \in Nat
      BY <1>0
    <3>2. \E i \in Nat \ {0} : \A j \in Nat \ {0} : Long(x \div b, b, j) => j = i
      BY <1>0, <3>1, Lengths
    <3>3. k - 1 \in Nat \ {0} /\ Long(x \div b, b, k - 1)
      BY <2>1
    <3> QED
      BY <3>2, <3>3
  <2> HIDE DEF length
  <2> QED
    BY <2>1, <2>2, <2>3
<1> HIDE DEF length
<1>2. ASSUME NEW x \in Nat
      PROVE  g[x] = IF x < b THEN <<Digits[x + 1]>> ELSE Append(g[x \div b], Digits[(x % b) + 1])
  <2>1. CASE x < b
    <3>1. inPlaces(x, b, 1) = <<Digits[((x \div power(b, 1 - 1)) % b) + 1]>>
      BY DEF inPlaces
    <3>2. power(b, 1 - 1) = 1
      BY <1>0, PowerFacts
    <3>3. (x \div 1) % b = x
      BY <1>0, <2>1
    <3> QED
      BY <1>1, <2>1, <3>1, <3>2, <3>3
  <2>2. CASE x >= b
    <3> DEFINE y == x \div b
    <3>1. y \in Nat
      BY <1>0
    <3>2. length(x) > 1 /\ length(x) \in Nat /\ length(y) = length(x) - 1
      BY <1>1, <2>2
    <3>3. inPlaces(x, b, length(x)) = Append(inPlaces(y, b, length(x) - 1), Digits[(x % b) + 1])
      BY <3>2, LastPlace
    <3>4. g[x] = inPlaces(x, b, length(x)) /\ g[y] = inPlaces(y, b, length(x) - 1)
      BY <3>1, <3>2
    <3> HIDE DEF g
    <3> QED
      BY <2>2, <3>3, <3>4
  <2> HIDE DEF g
  <2> QED
    BY <1>0, <2>1, <2>2
<1>3. equation(g)
  <2> DEFINE h == [m \in Nat |-> IF m < b THEN <<Digits[m + 1]>>
                                 ELSE Append(g[m \div b], Digits[(m % b) + 1])]
  <2>1. \A x \in Nat : g[x] = h[x]
    BY <1>2
  <2>2. DOMAIN g = Nat /\ DOMAIN h = Nat /\ g = [x \in Nat |-> g[x]] /\ h = [x \in Nat |-> h[x]]
    OBVIOUS
  <2>3. g = h
    <3> HIDE DEF g, h
    <3> QED
      BY <2>1, <2>2
  <2> QED
    BY <2>3
<1>4. equation(digits)
  <2> HIDE DEF g
  <2> QED
    BY <1>3
<1>5. digitsOf(v, b) = digits[v]
  BY DEF digitsOf
<1> DEFINE A == {x \in Nat : digits[x] = g[x]}
<1>6. ASSUME NEW x \in Nat, \A y \in Nat : y < x => y \in A
      PROVE  x \in A
  <2>1. digits[x] = IF x < b THEN <<Digits[x + 1]>> ELSE Append(digits[x \div b], Digits[(x % b) + 1])
    <3> HIDE DEF digits
    <3> QED
      BY <1>4
  <2> HIDE DEF g, digits
  <2>2. CASE x < b
    BY <1>2, <2>1, <2>2
  <2>3. CASE x >= b
    <3>1. x \div b \in Nat /\ x \div b < x
      <4> DEFINE y == x \div b
      <4>1. y \in Nat /\ x = b * y + (x % b) /\ (x % b) \in 0..(b - 1)
        BY <1>0, DivMod
      <4> HIDE DEF y
      <4>2. b * y >= 2 * y
        BY <1>0, <4>1
      <4>3. y < x
        BY <1>0, <2>3, <4>1, <4>2
      <4> QED
        BY <4>1, <4>3 DEF y
    <3>2. digits[x \div b] = g[x \div b]
      BY <1>6, <3>1
    <3> QED
      BY <1>2, <2>1, <2>3, <3>2
  <2> QED
    BY <2>2, <2>3
<1>7. Nat \subseteq A
  <2> HIDE DEF A
  <2> QED
    BY <1>6, SetInduction
<1> DEFINE k == length(v)
<1>8. digitsOf(v, b) = inPlaces(v, b, k)
  <2> HIDE DEF digits
  <2> QED
    BY <1>5, <1>7
<1>9. k \in 1..LongBits
  <2>1. k \in Nat \ {0} /\ k <= LongBits
    BY <1>0, <1>1
  <2> QED
    BY <1>0, <2>1
<1>10. byPlace(v, b) = inPlaces(v, b, k)
  <2> DEFINE long == CHOOSE j \in 1..LongBits : /\ v \div power(b, j - 1) < b
                                                /\ j > 1 => v \div power(b, j - 1) > 0
  <2>1. long = CHOOSE j \in 1..LongBits : Long(v, b, j)
    BY DEF Long
  <2>2. long = k
    <3>1. \A j \in 1..LongBits : j \in Nat \ {0}
      BY <1>0
    <3> HIDE DEF k
    <3>2. \A j \in Nat \ {0} : Long(v, b, j) => j = k
      BY <1>1 DEF k
    <3>3. Long(v, b, k)
      BY <1>1 DEF k
    <3> QED
      BY <1>9, <2>1, <3>1, <3>2, <3>3
  <2>3. byPlace(v, b) = inPlaces(v, b, long)
    BY DEF byPlace, inPlaces
  <2> QED
    BY <2>2, <2>3
<1>11. digitsOf(v, b) \in Seq(Alphabet) /\ Len(digitsOf(v, b)) = k
  <2>1. k \in Nat
    BY <1>0, <1>9
  <2> HIDE DEF k
  <2> QED
    <3>1. inPlaces(v, b, k) \in Seq(Alphabet) /\ Len(inPlaces(v, b, k)) = k
      BY <2>1, InPlacesFacts
    <3> QED
      BY <1>8, <3>1
<1>12. v = 0 => digitsOf(v, b) = <<"0">>
  <2> SUFFICES ASSUME v = 0
               PROVE  digitsOf(v, b) = <<"0">>
    OBVIOUS
  <2>1. g[v] = <<Digits[v + 1]>>
    <3>1. v < b
      BY <1>0
    <3> HIDE DEF g
    <3> QED
      BY <1>2, <3>1
  <2>2. Digits[v + 1] = "0"
    BY DEF Digits
  <2> QED
    BY <1>8, <2>1, <2>2
<1> QED
  BY <1>8, <1>9, <1>10, <1>11, <1>12

(* What ValueToString counts down to the next comma. *)
counted(len, comma) ==
  [k \in 0..len |->
     IF comma THEN IF k = 0 THEN firstGroup(len) + 1 ELSE ((len - k) % 3) + 1 ELSE 1000 - k]

(* The count starts, falls and starts anew; at 1 there is a comma.          *)
Counts(c, len, comma) ==
  /\ c[0] = (IF comma THEN firstGroup(len) ELSE 999) + 1
  /\ \A k \in 1..len : c[k] = IF c[k - 1] = 1 THEN 3 ELSE c[k - 1] - 1
  /\ \A k \in 1..len : c[k - 1] = 1 <=> (comma /\ k > 1 /\ (len - k) % 3 = 2)

(* counted does so: no comma is missing, and none comes first.              *)
LEMMA CountFacts ==
  ASSUME NEW len \in 1..998, NEW comma \in BOOLEAN
  PROVE  Counts(counted(len, comma), len, comma)
<1> DEFINE c == counted(len, comma)
<1>1. firstGroup(len) = ((len - 1) % 3) + 1
  BY DEF firstGroup
<1>2. CASE comma
  <2>1. c[0] = firstGroup(len) + 1
    BY <1>2 DEF counted
  <2>2. \A k \in 1..len : c[k] = ((len - k) % 3) + 1
    BY <1>2 DEF counted
  <2> HIDE DEF c
  <2>3. ASSUME NEW k \in 1..len
        PROVE  /\ c[k] = IF c[k - 1] = 1 THEN 3 ELSE c[k - 1] - 1
               /\ c[k - 1] = 1 <=> (k > 1 /\ (len - k) % 3 = 2)
    <3>1. CASE k = 1
      <4>1. k - 1 = 0
        BY <3>1
      <4>2. c[k - 1] = ((len - 1) % 3) + 2
        BY <1>1, <2>1, <4>1
      <4>3. c[k] = ((len - 1) % 3) + 1
        BY <2>2, <3>1
      <4>4. (len - 1) % 3 \in 0..2
        OBVIOUS
      <4> QED
        BY <3>1, <4>2, <4>3, <4>4
    <3>2. CASE k # 1
      <4>1. k - 1 \in 1..len /\ len - (k - 1) = (len - k) + 1 /\ len - k \in Nat
        BY <3>2
      <4>2. c[k - 1] = (((len - k) + 1) % 3) + 1 /\ c[k] = ((len - k) % 3) + 1
        BY <2>2, <4>1
      <4>3. PICK x \in Nat : x = len - k
        BY <4>1
      <4>4. \/ (x % 3) = 2 /\ ((x + 1) % 3) = 0
            \/ (x % 3) \in {0, 1} /\ ((x + 1) % 3) = (x % 3) + 1
        OBVIOUS
      <4>5. k > 1
        BY <3>2
      <4> QED
        BY <4>2, <4>3, <4>4, <4>5
    <3> QED
      BY <3>1, <3>2
  <2>4. \A k \in 1..len : c[k] = IF c[k - 1] = 1 THEN 3 ELSE c[k - 1] - 1
    BY <2>3
  <2>5. \A k \in 1..len : c[k - 1] = 1 <=> (comma /\ k > 1 /\ (len - k) % 3 = 2)
    BY <1>2, <2>3
  <2>6. Counts(c, len, comma)
    BY <1>2, <2>1, <2>4, <2>5 DEF Counts
  <2> QED
    BY <2>6 DEF c
<1>3. CASE ~comma
  <2>1. \A k \in 0..len : c[k] = 1000 - k
    BY <1>3 DEF counted
  <2> HIDE DEF c
  <2>2. ASSUME NEW k \in 1..len
        PROVE  c[k] = 1000 - k /\ c[k - 1] = 1001 - k /\ 1001 - k # 1
    <3>1. k \in 0..len /\ k - 1 \in 0..len /\ 1000 - (k - 1) = 1001 - k
      OBVIOUS
    <3> QED
      BY <2>1, <3>1
  <2>3. ASSUME NEW k \in 1..len
        PROVE  c[k] = (IF c[k - 1] = 1 THEN 3 ELSE c[k - 1] - 1) /\ c[k - 1] # 1
    BY <2>2
  <2>4. c[0] = 1000
    <3>1. 0 \in 0..len
      OBVIOUS
    <3> QED
      BY <2>1, <3>1
  <2>6. \A k \in 1..len : c[k] = IF c[k - 1] = 1 THEN 3 ELSE c[k - 1] - 1
    BY <2>3
  <2>7. \A k \in 1..len : c[k - 1] = 1 <=> (comma /\ k > 1 /\ (len - k) % 3 = 2)
    BY <1>3, <2>3
  <2>8. Counts(c, len, comma)
    BY <1>3, <2>4, <2>6, <2>7 DEF Counts
  <2> QED
    BY <2>8 DEF c
<1> QED
  BY <1>2, <1>3

(* A text is its members in a row. *)
LEMMA FlattenSingles ==
  ASSUME NEW D, NEW s \in Seq(D)
  PROVE  FlattenSeq([k \in 1..Len(s) |-> <<s[k]>>]) = s
<1> DEFINE n == Len(s)
           q == [k \in 1..n |-> <<s[k]>>]
<1>1. n \in Nat /\ \A k \in 1..n : s[k] \in D /\ q[k] = <<s[k]>> /\ q[k] \in Seq(D)
  OBVIOUS
<1>2. [j \in 1..n |-> q[j]] = q
  OBVIOUS
<1> HIDE DEF q
<1>3. PICK t : FlatteningOf(t, D, n, q)
  BY <1>1, FlattenFacts
<1>4. /\ t \in [Nat -> Seq(D)] /\ t[0] = << >>
      /\ \A k \in 0..(n - 1) : t[k + 1] = join(t[k], q[k + 1])
      /\ \A k \in 0..n : FlattenSeq([j \in 1..k |-> q[j]]) = t[k]
  BY <1>3 DEF FlatteningOf
<1> DEFINE A == {k \in Nat : k <= n => Len(t[k]) = k /\ \A j \in 1..k : t[k][j] = s[j]}
<1>5. 0 \in A
  BY <1>4
<1>6. ASSUME NEW k \in Nat, k \in A
      PROVE  k + 1 \in A
  <2> SUFFICES ASSUME k + 1 <= n
               PROVE  Len(t[k + 1]) = k + 1 /\ \A j \in 1..(k + 1) : t[k + 1][j] = s[j]
    OBVIOUS
  <2>1. k \in 0..(n - 1) /\ k + 1 \in 1..n /\ k <= n
    BY <1>1
  <2> DEFINE x == t[k]
             c == s[k + 1]
  <2>2. x \in Seq(D) /\ Len(x) = k /\ \A j \in 1..k : x[j] = s[j]
    BY <1>4, <1>6, <2>1
  <2>3. t[k + 1] = join(x, <<c>>) /\ c \in D
    BY <1>1, <1>4, <2>1
  <2> HIDE DEF x, c
  <2>4. join(x, <<c>>) = Append(x, c)
    BY <2>2, <2>3 DEF join
  <2>5. Len(Append(x, c)) = k + 1 /\ \A j \in 1..(k + 1) : Append(x, c)[j] = IF j = k + 1 THEN c ELSE x[j]
    BY <2>2, <2>3
  <2> QED
    <3>1. \A j \in 1..(k + 1) : j # k + 1 => j \in 1..k
      OBVIOUS
    <3>2. \A j \in 1..(k + 1) : Append(x, c)[j] = s[j]
      BY <2>2, <2>5, <3>1 DEF c
    <3> QED
      BY <2>3, <2>4, <2>5, <3>2
<1>7. Nat \subseteq A
  <2> HIDE DEF A
  <2> QED
    BY <1>5, <1>6, StepInduction
<1>8. t[n] \in Seq(D) /\ Len(t[n]) = n /\ \A j \in 1..n : t[n][j] = s[j]
  <2>1. n \in A
    BY <1>1, <1>7
  <2>2. n <= n /\ n \in Nat
    BY <1>1
  <2> QED
    BY <1>4, <2>1, <2>2
<1>9. t[n] = s
  BY <1>8, SeqEqual
<1>10. FlattenSeq(q) = t[n]
  <2>1. n \in 0..n
    BY <1>1
  <2> QED
    BY <1>2, <1>4, <2>1
<1> QED
  BY <1>9, <1>10 DEF q

(* A comma in front of a digit where one belongs, and the digit. *)
withComma(digits, comma) ==
  [k \in 1..Len(digits) |->
    when(comma /\ k > 1 /\ (Len(digits) - k) % 3 = 2, <<",">>) \o <<digits[k]>>]

(* In a row they are the grouped digits of the comment.                     *)
LEMMA WithCommaFacts ==
  ASSUME NEW digits \in Seq(Alphabet), NEW comma \in BOOLEAN
  PROVE  /\ \A k \in 1..Len(digits) : withComma(digits, comma)[k] \in Seq(Alphabet)
         /\ FlattenSeq(withComma(digits, comma)) = IF comma THEN grouped(digits) ELSE digits
<1> DEFINE w == withComma(digits, comma)
           n == Len(digits)
<1>1. n \in Nat /\ \A k \in 1..n : digits[k] \in Alphabet
  OBVIOUS
<1>2. <<",">> \in Seq(Alphabet) /\ << >> \in Seq(Alphabet)
  BY AlphabetTexts
<1>3. ASSUME NEW k \in 1..n
      PROVE  /\ w[k] \in Seq(Alphabet)
             /\ ~comma => w[k] = <<digits[k]>>
  <2> DEFINE a == when(comma /\ k > 1 /\ (Len(digits) - k) % 3 = 2, <<",">>)
             b == <<digits[k]>>
  <2>1. w[k] = a \o b
    BY DEF withComma
  <2>2. a \in Seq(Alphabet) /\ (~comma => a = << >>)
    BY <1>2 DEF when
  <2>3. b \in Seq(Alphabet)
    BY <1>1
  <2> HIDE DEF a, b, w
  <2>4. a \o b \in Seq(Alphabet) /\ << >> \o b = b
    BY <2>2, <2>3, ConcatProperties, ConcatEmptySeq
  <2>5. w[k] \in Seq(Alphabet)
    BY <2>1, <2>4
  <2>6. ~comma => w[k] = b
    BY <2>1, <2>2, <2>4
  <2> QED
    BY <2>5, <2>6 DEF b
<1>4. CASE comma
  <2>1. w = [k \in 1..Len(digits) |->
               when(k > 1 /\ (Len(digits) - k) % 3 = 2, <<",">>) \o <<digits[k]>>]
    BY <1>4 DEF withComma
  <2>2. FlattenSeq(w) = grouped(digits)
    BY <2>1 DEF grouped
  <2> QED
    BY <1>3, <1>4, <2>2
<1>5. CASE ~comma
  <2>1. w = [k \in 1..n |-> <<digits[k]>>]
    <3>1. w = [k \in 1..n |-> w[k]]
      BY DEF withComma
    <3> HIDE DEF w
    <3> QED
      BY <1>3, <1>5, <3>1
  <2>2. FlattenSeq(w) = digits
    BY <2>1, FlattenSingles
  <2> QED
    BY <1>3, <1>5, <2>2
<1> QED
  BY <1>4, <1>5

(* What ValueToString makes of a value is the number it stands for. *)
LEMMA NumberFacts ==
  ASSUME NEW comma \in BOOLEAN, NEW v \in Int, v < power(2, LongBits), -v < power(2, LongBits)
  PROVE  ValueToString(comma, v) = number(v, comma) /\ number(v, comma) \in Seq(Alphabet)
<1> DEFINE m == IF v < 0 THEN -v ELSE v
           digits == digitsOf(m, 10)
           n == Len(digits)
           lead == when(v < 0, <<"-">>)
           first == (IF comma THEN firstGroup(n) ELSE 999) + 1
           cEquation(f) == f = [k \in 0..n |-> IF k = 0 THEN first
                                               ELSE IF f[k - 1] = 1 THEN 3 ELSE f[k - 1] - 1]
           c == CHOOSE f : cEquation(f)
           tEquation(f) == f = [k \in 0..n |-> IF k = 0 THEN lead
                                 ELSE (f[k - 1] \o when(c[k - 1] = 1, <<",">>)) \o <<digits[k]>>]
           text == CHOOSE f : tEquation(f)
           w == withComma(digits, comma)
           carried == counted(n, comma)
<1>1. m \in Nat /\ m < power(2, LongBits) /\ (v = 0 <=> m = 0)
  OBVIOUS
<1>2. ValueToString(comma, v) = IF v = 0 THEN <<"0">> ELSE text[n]
  BY DEF ValueToString
<1>3. lead \in Seq(Alphabet)
  BY AlphabetTexts DEF when
<1>4. /\ digits = byPlace(m, 10) /\ digits \in Seq(Alphabet) /\ n \in 1..LongBits
      /\ m = 0 => digits = <<"0">>
  <2>1. PICK ten \in 2..16 : ten = 10
    OBVIOUS
  <2> HIDE DEF m
  <2>2. /\ digitsOf(m, ten) = byPlace(m, ten) /\ digitsOf(m, ten) \in Seq(Alphabet)
        /\ Len(digitsOf(m, ten)) \in 1..LongBits
        /\ m = 0 => digitsOf(m, ten) = <<"0">>
    BY <1>1, <2>1, DigitsByPlace
  <2> QED
    BY <2>1, <2>2
<1>5. n \in 1..998
  <2>1. IntBits \in Nat \ {0} /\ LongBits \in IntBits..998
    BY FirmwareTextAssumption
  <2> HIDE DEF n
  <2> QED
    BY <1>4, <2>1
<1>6. number(v, comma) = join(lead, FlattenSeq(w))
  <2>1. number(v, comma) = lead \o (IF comma THEN grouped(digits) ELSE digits)
    BY <1>4 DEF number
  <2>2. FlattenSeq(w) = IF comma THEN grouped(digits) ELSE digits
    <3> HIDE DEF digits
    <3> QED
      BY <1>4, WithCommaFacts
  <2> HIDE DEF lead, w, digits
  <2> QED
    BY <2>1, <2>2 DEF join
<1>7. Counts(carried, n, comma)
  <2> HIDE DEF n
  <2> QED
    BY <1>5, CountFacts
<1>8. \A k \in 1..n : w[k] = join(when(comma /\ k > 1 /\ (n - k) % 3 = 2, <<",">>), <<digits[k]>>) /\ w[k] \in Seq(Alphabet)
  <2>1. \A k \in 1..n : w[k] = join(when(comma /\ k > 1 /\ (n - k) % 3 = 2, <<",">>), <<digits[k]>>)
    BY DEF withComma, join
  <2>2. \A k \in 1..n : w[k] \in Seq(Alphabet)
    <3> HIDE DEF digits
    <3> QED
      BY <1>4, WithCommaFacts
  <2> QED
    BY <2>1, <2>2
<1>9. cEquation(carried)
  <2>1. DOMAIN carried = 0..n /\ carried = [k \in 0..n |-> carried[k]]
    BY DEF counted
  <2> HIDE DEF carried, n
  <2>2. ASSUME NEW k \in 0..n
        PROVE  carried[k] = IF k = 0 THEN first ELSE IF carried[k - 1] = 1 THEN 3 ELSE carried[k - 1] - 1
    <3>1. CASE k = 0
      BY <1>7, <3>1 DEF Counts
    <3>2. CASE k # 0
      <4>1. k \in 1..n
        BY <3>2
      <4> HIDE DEF first
      <4> QED
        BY <1>7, <3>2, <4>1 DEF Counts
    <3> QED
      BY <3>1, <3>2
  <2> HIDE DEF first
  <2> QED
    BY <2>1, <2>2
<1>10. cEquation(c)
  <2> HIDE DEF carried, first, n
  <2> QED
    BY <1>9
<1>11. \A k \in 1..n : c[k - 1] = 1 <=> (comma /\ k > 1 /\ (n - k) % 3 = 2)
  <2> HIDE DEF c, carried, n, first
  <2> DEFINE C == {k \in Nat : k <= n => c[k] = carried[k]}
  <2>0. n \in Nat
    BY <1>5
  <2>1. 0 \in C
    <3>1. 0 \in 0..n
      BY <2>0
    <3>2. c[0] = first
      BY <1>10, <3>1
    <3>3. carried[0] = first
      BY <1>7 DEF Counts, first
    <3> QED
      BY <3>2, <3>3
  <2>2. ASSUME NEW k \in Nat, k \in C
        PROVE  k + 1 \in C
    <3> SUFFICES ASSUME k + 1 <= n
                 PROVE  c[k + 1] = carried[k + 1]
      OBVIOUS
    <3>1. k + 1 \in 0..n /\ k + 1 \in 1..n /\ k + 1 # 0 /\ (k + 1) - 1 = k /\ k <= n
      BY <2>0
    <3>2. c[k + 1] = IF c[k] = 1 THEN 3 ELSE c[k] - 1
      BY <1>10, <3>1
    <3>3. carried[k + 1] = IF carried[k] = 1 THEN 3 ELSE carried[k] - 1
      BY <1>7, <3>1 DEF Counts
    <3> QED
      BY <2>2, <3>1, <3>2, <3>3
  <2>3. Nat \subseteq C
    <3> HIDE DEF C
    <3> QED
      BY <2>1, <2>2, StepInduction
  <2>4. ASSUME NEW k \in 1..n
        PROVE  c[k - 1] = carried[k - 1]
    <3>1. k - 1 \in Nat /\ k - 1 <= n
      BY <2>0
    <3> QED
      BY <2>3, <3>1
  <2> QED
    BY <1>7, <2>4 DEF Counts
<1> HIDE DEF c, carried, first
<1>12. \A k \in 1..n : w[k] = join(when(c[k - 1] = 1, <<",">>), <<digits[k]>>)
  BY <1>8, <1>11 DEF when
<1>13. \A k \in 1..n : when(c[k - 1] = 1, <<",">>) \in Seq(Alphabet) /\ <<digits[k]>> \in Seq(Alphabet)
  <2>1. <<",">> \in Seq(Alphabet) /\ << >> \in Seq(Alphabet)
    BY AlphabetTexts
  <2>2. \A k \in 1..n : digits[k] \in Alphabet
    <3> HIDE DEF digits
    <3> QED
      BY <1>4
  <2> HIDE DEF digits
  <2>3. ASSUME NEW k \in 1..n
        PROVE  when(c[k - 1] = 1, <<",">>) \in Seq(Alphabet) /\ <<digits[k]>> \in Seq(Alphabet)
    <3>1. when(c[k - 1] = 1, <<",">>) \in Seq(Alphabet)
      <4>1. CASE c[k - 1] = 1
        BY <2>1, <4>1 DEF when
      <4>2. CASE c[k - 1] # 1
        BY <2>1, <4>2 DEF when
      <4> QED
        BY <4>1, <4>2
    <3>2. <<digits[k]>> \in Seq(Alphabet)
      BY <2>2
    <3> QED
      BY <3>1, <3>2
  <2> HIDE DEF n
  <2> QED
    BY <2>3
<1>14. [k \in 1..n |-> w[k]] = w
  BY DEF withComma
<1> HIDE DEF w, lead
<1>15. PICK t : FlatteningOf(t, Alphabet, n, w)
  <2> HIDE DEF n
  <2>1. n \in Nat
    BY <1>5
  <2> QED
    BY <1>8, <2>1, FlattenFacts
<1>16. /\ t \in [Nat -> Seq(Alphabet)] /\ t[0] = << >>
       /\ \A k \in 0..(n - 1) : t[k + 1] = join(t[k], w[k + 1])
       /\ FlattenSeq(w) = t[n]
  <2> HIDE DEF n, digits
  <2>1. /\ t \in [Nat -> Seq(Alphabet)] /\ t[0] = << >>
        /\ \A k \in 0..(n - 1) : t[k + 1] = join(t[k], w[k + 1])
        /\ \A k \in 0..n : FlattenSeq([j \in 1..k |-> w[j]]) = t[k]
    BY <1>15 DEF FlatteningOf
  <2>2. n \in 0..n
    BY <1>5
  <2> QED
    BY <1>14, <2>1, <2>2
<1> DEFINE g == [k \in 0..n |-> join(lead, t[k])]
<1>17. ASSUME NEW k \in 1..n
       PROVE  g[k] = (g[k - 1] \o when(c[k - 1] = 1, <<",">>)) \o <<digits[k]>>
  <2> DEFINE x == t[k - 1]
             y == when(c[k - 1] = 1, <<",">>)
             z == <<digits[k]>>
  <2>1. k - 1 \in 0..(n - 1) /\ k - 1 \in 0..n /\ k \in 0..n /\ (k - 1) + 1 = k /\ k - 1 \in Nat
    <3> HIDE DEF n
    <3> QED
      BY <1>5
  <2>2. x \in Seq(Alphabet) /\ y \in Seq(Alphabet) /\ z \in Seq(Alphabet)
    <3> HIDE DEF n, digits
    <3> QED
      BY <1>13, <1>16, <2>1
  <2>3. t[k] = join(x, w[k]) /\ w[k] = join(y, z)
    <3>1. t[(k - 1) + 1] = join(t[k - 1], w[(k - 1) + 1])
      BY <1>16, <2>1
    <3> QED
      BY <1>12, <2>1, <3>1
  <2>4. g[k] = join(lead, t[k]) /\ g[k - 1] = join(lead, x)
    BY <2>1
  <2> HIDE DEF x, y, z, g, n, digits
  <2>5. join(lead, join(x, join(y, z))) = join(join(join(lead, x), y), z)
    <3>1. \A a, b, d \in Seq(Alphabet) : join(join(a, b), d) = join(a, join(b, d))
      BY JoinFacts, Z3
    <3>2. join(lead, x) \in Seq(Alphabet)
      BY <1>3, <2>2, JoinFacts
    <3> QED
      <4>1. join(y, z) \in Seq(Alphabet)
        BY <2>2, JoinFacts
      <4> QED
        BY <1>3, <2>2, <3>1, <3>2, <4>1
  <2>6. g[k] = join(join(g[k - 1], y), z)
    BY <2>3, <2>4, <2>5
  <2> QED
    BY <2>6 DEF join, y, z
<1>18. tEquation(g)
  <2>1. g[0] = lead
    <3>1. join(lead, << >>) = lead
      BY <1>3, ConcatEmptySeq DEF join
    <3>2. 0 \in 0..n
      <4> HIDE DEF n
      <4> QED
        BY <1>5
    <3> QED
      BY <1>16, <3>1, <3>2
  <2>2. g = [k \in 0..n |-> g[k]]
    OBVIOUS
  <2> HIDE DEF g, n, digits
  <2>3. ASSUME NEW k \in 0..n
        PROVE  g[k] = IF k = 0 THEN lead
                      ELSE (g[k - 1] \o when(c[k - 1] = 1, <<",">>)) \o <<digits[k]>>
    <3>1. CASE k = 0
      BY <2>1, <3>1
    <3>2. CASE k # 0
      <4>1. k \in 1..n
        BY <3>2
      <4> QED
        BY <1>17, <3>2, <4>1
    <3> QED
      BY <3>1, <3>2
  <2> QED
    BY <2>2, <2>3
<1>19. tEquation(text)
  <2> HIDE DEF g, n, digits
  <2> QED
    BY <1>18
<1>20. text[n] = g[n]
  <2> DEFINE A == {k \in Nat : k <= n => text[k] = g[k]}
  <2> HIDE DEF g, n, digits, text
  <2>0. n \in Nat
    BY <1>5
  <2>1. 0 \in A
    <3>1. 0 \in 0..n
      BY <2>0
    <3>2. text[0] = lead /\ g[0] = lead
      BY <1>18, <1>19, <3>1
    <3> QED
      BY <3>2
  <2>2. ASSUME NEW k \in Nat, k \in A
        PROVE  k + 1 \in A
    <3> SUFFICES ASSUME k + 1 <= n
                 PROVE  text[k + 1] = g[k + 1]
      OBVIOUS
    <3>1. k + 1 \in 0..n /\ k + 1 # 0 /\ (k + 1) - 1 = k /\ k <= n
      BY <2>0
    <3>2. text[k + 1] = (text[(k + 1) - 1] \o when(c[(k + 1) - 1] = 1, <<",">>)) \o <<digits[k + 1]>>
      BY <1>19, <3>1
    <3>3. g[k + 1] = (g[(k + 1) - 1] \o when(c[(k + 1) - 1] = 1, <<",">>)) \o <<digits[k + 1]>>
      BY <1>18, <3>1
    <3>4. text[k] = g[k]
      BY <2>2, <3>1
    <3> QED
      BY <3>1, <3>2, <3>3, <3>4
  <2>3. Nat \subseteq A
    <3> HIDE DEF A
    <3> QED
      BY <2>1, <2>2, StepInduction
  <2> QED
    BY <2>0, <2>3
<1>21. g[n] = join(lead, FlattenSeq(w)) /\ join(lead, FlattenSeq(w)) \in Seq(Alphabet)
  <2>1. n \in 0..n /\ n \in Nat
    <3> HIDE DEF n
    <3> QED
      BY <1>5
  <2>2. g[n] = join(lead, t[n])
    BY <2>1
  <2>3. t[n] \in Seq(Alphabet)
    <3> HIDE DEF n
    <3> QED
      BY <1>16, <2>1
  <2> HIDE DEF g, n
  <2> QED
    BY <1>3, <1>16, <2>2, <2>3, JoinFacts
<1>22. CASE v = 0
  <2>1. digits = <<"0">>
    BY <1>1, <1>4, <1>22
  <2>2. lead = << >>
    BY <1>22 DEF lead, when
  <2>3. Len(digits) = 1 /\ digits[1] = "0"
    <3> HIDE DEF digits
    <3> QED
      BY <2>1
  <2>4. w[1] = <<"0">>
    <3>1. 1 \in 1..n
      <4> HIDE DEF n
      <4> QED
        BY <1>5
    <3>2. w[1] = join(when(comma /\ 1 > 1 /\ (n - 1) % 3 = 2, <<",">>), <<digits[1]>>)
      <4> HIDE DEF n, digits
      <4> QED
        BY <1>8, <3>1
    <3>3. when(comma /\ 1 > 1 /\ (n - 1) % 3 = 2, <<",">>) = << >>
      BY DEF when
    <3>4. << >> \o <<"0">> = <<"0">>
      OBVIOUS
    <3> HIDE DEF digits
    <3> QED
      BY <2>3, <3>2, <3>3, <3>4 DEF join
  <2>5. t[n] = <<"0">>
    <3>1. n = 1
      BY <2>3
    <3>2. t[0 + 1] = join(t[0], w[0 + 1])
      <4>1. 0 \in 0..(n - 1)
        <5> HIDE DEF n
        <5> QED
          BY <3>1
      <4> HIDE DEF n
      <4> QED
        BY <1>16, <4>1
    <3>3. << >> \o <<"0">> = <<"0">>
      OBVIOUS
    <3>4. 0 + 1 = 1
      OBVIOUS
    <3>5. t[1] = join(<< >>, <<"0">>)
      BY <1>16, <2>4, <3>2, <3>4
    <3> HIDE DEF n
    <3> QED
      BY <3>1, <3>3, <3>5 DEF join
  <2>6. join(lead, FlattenSeq(w)) = <<"0">>
    <3>1. << >> \o <<"0">> = <<"0">>
      OBVIOUS
    <3> HIDE DEF n
    <3> QED
      BY <1>16, <2>2, <2>5, <3>1 DEF join
  <2> HIDE DEF text, g, n, digits
  <2> QED
    BY <1>2, <1>6, <1>21, <1>22, <2>6
<1>23. CASE v # 0
  <2> HIDE DEF text, g, n, digits
  <2> QED
    BY <1>2, <1>6, <1>20, <1>21, <1>23
<1> QED
  BY <1>22, <1>23

(* Powers of two double.                                                    *)
LEMMA PowersOfTwo ==
  \A k \in Nat : power(2, k) \in Nat \ {0} /\ power(2, k + 1) = 2 * power(2, k)
<1>1. PICK two \in Nat \ {0} : two = 2
  OBVIOUS
<1>2. \A k \in Nat : power(two, k) \in Nat \ {0} /\ power(two, k + 1) = two * power(two, k)
  BY PowerFacts
<1> QED
  BY <1>1, <1>2

(* The numbers behind the words of an argument. *)
LEMMA WordFacts ==
  ASSUME NEW word \in 0..(power(2, LongBits) - 1), NEW long \in BOOLEAN
  PROVE  /\ unsignedWord(word, long) \in 0..(power(2, LongBits) - 1)
         /\ signedWord(word, long) \in Int
         /\ signedWord(word, long) < power(2, LongBits) /\ -signedWord(word, long) < power(2, LongBits)
<1> DEFINE all == power(2, LongBits)
           bits == IF long THEN LongBits ELSE IntBits
           half == power(2, bits - 1)
           whole == power(2, bits)
           v == (word % whole)
<1>0. IntBits \in Nat \ {0} /\ LongBits \in IntBits..998
  BY FirmwareTextAssumption
<1>1. all \in Nat \ {0} /\ power(2, IntBits) \in Nat \ {0}
  BY <1>0, PowersOfTwo
<1>2. bits \in Nat /\ bits - 1 \in Nat /\ (bits - 1) + 1 = bits
  BY <1>0
<1>3. half \in Nat \ {0} /\ whole = 2 * half /\ whole \in Nat \ {0}
  <2> HIDE DEF bits
  <2>1. power(2, bits - 1) \in Nat \ {0} /\ power(2, (bits - 1) + 1) = 2 * power(2, bits - 1)
    BY <1>2, PowersOfTwo
  <2> QED
    BY <1>2, <2>1
<1> HIDE DEF half, whole, bits
<1>4. word \in Nat /\ word < all
  BY <1>1
<1>5. \A d \in Nat \ {0} : word % d \in 0..(d - 1) /\ word % d <= word
  <2> TAKE d \in Nat \ {0}
  <2>1. word \div d \in Nat /\ word % d \in 0..(d - 1) /\ word = d * (word \div d) + (word % d)
    BY <1>4, DivMod
  <2>2. d * (word \div d) \in Nat
    BY <2>1
  <2> QED
    BY <1>4, <2>1, <2>2
<1>6. unsignedWord(word, long) \in 0..(all - 1)
  <2>1. (word % power(2, IntBits)) \in 0..(all - 1)
    <3>1. (word % power(2, IntBits)) \in Nat /\ (word % power(2, IntBits)) <= word
      BY <1>1, <1>5
    <3> HIDE DEF all
    <3> QED
      BY <1>1, <1>4, <3>1
  <2> QED
    BY <2>1 DEF unsignedWord
<1>7. v \in Nat /\ v < whole /\ v <= word
  BY <1>3, <1>5
<1>8. signedWord(word, long) = IF v < half THEN v ELSE v - whole
  BY DEF signedWord, bits, half, whole
<1> HIDE DEF v, all
<1>9. /\ signedWord(word, long) \in Int
      /\ signedWord(word, long) < all /\ -signedWord(word, long) < all
  BY <1>1, <1>3, <1>4, <1>7, <1>8
<1> QED
  BY <1>6, <1>9 DEF all

(* A character again and again. *)
LEMMA CopiesFacts ==
  ASSUME NEW n \in Int, NEW letter \in Alphabet
  PROVE  /\ copies(n, letter) \in Seq(Alphabet)
         /\ Len(copies(n, letter)) = IF n > 0 THEN n ELSE 0
         /\ n <= 0 => copies(n, letter) = << >>
<1>1. CASE n > 0
  BY <1>1 DEF copies
<1>2. CASE ~(n > 0)
  BY <1>2 DEF copies
<1> QED
  BY <1>1, <1>2

(* The width of %X is a natural number.                                     *)
LEMMA HexWidthFacts ==
  ASSUME NEW long \in BOOLEAN
  PROVE  hexWidth(long) \in Nat
<1>1. IntBits \in Nat \ {0} /\ LongBits \in IntBits..998
  BY FirmwareTextAssumption
<1>2. PICK bits \in Nat : bits = IF long THEN LongBits ELSE IntBits
  BY <1>1
<1>3. bits \div 4 \in Nat
  OBVIOUS
<1> QED
  BY <1>2, <1>3 DEF hexWidth

(* What the library makes of an item, from what the format says of it. *)
made(piece) ==
  CASE piece.conv = "%"          -> <<"%">>
    [] piece.conv \in {"a", "s"} -> orNull(piece.value)
    [] piece.conv = "c"          -> <<piece.value>>
    [] piece.conv \in {"x", "X"} -> ValueToHex(unsignedWord(piece.value, piece.long))
    [] piece.conv = "u"          ->
         ValueToString(piece.comma, signedWord(unsignedWord(piece.value, piece.long), TRUE))
    [] piece.conv = "d"          -> ValueToString(piece.comma, signedWord(piece.value, piece.long))
    [] piece.conv = "r"          -> StatusToString(piece.value)
    [] OTHER                     -> <<"?">>

(* The item has heard all that matters for its text.                        *)
LEMMA MadeFromItem ==
  ASSUME NEW piece, piece.conv \notin Attributes \cup {"text", "end"},
         item.long = piece.long, item.comma = piece.comma
  PROVE  itemText(piece.conv, IF piece.conv \in Taking THEN piece.value ELSE NULL) = made(piece)
<1>1. CASE piece.conv \in Taking
  BY <1>1 DEF itemText, made, Taking
<1>2. CASE piece.conv \notin Taking
  BY <1>2 DEF itemText, made, Taking
<1> QED
  BY <1>1, <1>2

(* What an item means to the code, by place value: the comment's meaning    *)
(* but for %X, for a status without a text and for a large %lu.             *)
codeMeaning(piece) ==
  CASE piece.conv = "%" -> <<"%">>
    [] piece.conv = "c" -> <<piece.value>>
    [] piece.conv \in {"s", "a"} -> orNull(piece.value)
    [] piece.conv = "u" ->
         number(signedWord(unsignedWord(piece.value, piece.long), TRUE), piece.comma)
    [] piece.conv = "d" -> number(signedWord(piece.value, piece.long), piece.comma)
    [] piece.conv \in {"x", "X"} -> byPlace(unsignedWord(piece.value, piece.long), 16)
    [] piece.conv = "r" -> IF piece.value \in DOMAIN ErrorCodeTable
                             THEN ErrorCodeTable[piece.value]
                             ELSE filledUp(byPlace(unsignedWord(piece.value, FALSE), 16),
                                         hexWidth(FALSE), "0")
    [] OTHER -> <<"?">>

(* It is the text the library makes of the item.                            *)
LEMMA ItemTextFacts ==
  ASSUME NEW piece, accepted(piece), piece.conv \notin Attributes \cup {"text", "end"}
  PROVE  made(piece) = codeMeaning(piece) /\ codeMeaning(piece) \in Seq(Alphabet)
<1> DEFINE limit == power(2, LongBits)
<1>1. piece.long \in BOOLEAN /\ piece.comma \in BOOLEAN
  BY DEF accepted
<1>2. IntBits \in Nat \ {0} /\ LongBits \in IntBits..998
  BY FirmwareTextAssumption
<1>3. limit \in Nat \ {0}
  BY <1>2, PowersOfTwo
<1>4. \A x : \A b \in {10, 16} : x \in 0..(limit - 1) => digitsOf(x, b) = byPlace(x, b) /\ digitsOf(x, b) \in Seq(Alphabet)
  <2> TAKE x
  <2> TAKE b \in {10, 16}
  <2> SUFFICES ASSUME x \in 0..(limit - 1)
               PROVE  digitsOf(x, b) = byPlace(x, b) /\ digitsOf(x, b) \in Seq(Alphabet)
    OBVIOUS
  <2>1. b \in 2..16 /\ x \in Nat /\ x < limit
    BY <1>3
  <2> QED
    BY <2>1, DigitsByPlace
<1>5. CASE piece.conv = "%"
  <2>1. <<"%">> \in Seq(Alphabet)
    <3>1. "%" \in Alphabet
      BY AlphabetFacts
    <3> QED
      BY <3>1
  <2> QED
    BY <1>5, <2>1 DEF made, codeMeaning
<1>6. CASE piece.conv = "c"
  <2>1. piece.value \in Alphabet /\ <<piece.value>> \in Seq(Alphabet)
    <3>1. piece.value \in Alphabet
      BY <1>6 DEF accepted
    <3> QED
      BY <3>1
  <2> QED
    BY <1>6, <2>1 DEF made, codeMeaning
<1>7. CASE piece.conv \in {"s", "a"}
  <2>1. piece.value \in Seq(Alphabet) \cup {NULL}
    BY <1>7 DEF accepted
  <2>2. orNull(piece.value) \in Seq(Alphabet)
    BY <2>1, NullText DEF orNull
  <2>4. made(piece) = orNull(piece.value)
    BY <1>7 DEF made
  <2>5. codeMeaning(piece) = orNull(piece.value)
    BY <1>7 DEF codeMeaning
  <2> QED
    BY <2>2, <2>4, <2>5
<1>8. CASE piece.conv \in {"x", "X", "d", "u", "r"}
  <2>1. piece.value \in 0..(limit - 1)
    BY <1>8 DEF accepted
  <2> DEFINE v == piece.value
             long == piece.long
  <2>3. v \in 0..(limit - 1) /\ long \in BOOLEAN
    BY <1>1, <2>1
  <2> HIDE DEF v
  <2>4. /\ unsignedWord(v, long) \in 0..(limit - 1) /\ unsignedWord(v, FALSE) \in 0..(limit - 1)
        /\ signedWord(v, long) \in Int /\ signedWord(v, long) < limit /\ -signedWord(v, long) < limit
    <3>1. FALSE \in BOOLEAN
      OBVIOUS
    <3> HIDE DEF long
    <3> QED
      BY <2>3, <3>1, WordFacts
  <2>5. CASE piece.conv \in {"x", "X"}
    <3>1. ValueToHex(unsignedWord(v, long)) = byPlace(unsignedWord(v, long), 16) /\ ValueToHex(unsignedWord(v, long)) \in Seq(Alphabet)
      BY <1>4, <2>4 DEF ValueToHex
    <3>2. made(piece) = ValueToHex(unsignedWord(piece.value, piece.long))
      BY <2>5 DEF made
    <3>3. codeMeaning(piece) = byPlace(unsignedWord(piece.value, piece.long), 16)
      BY <2>5 DEF codeMeaning
    <3> QED
      BY <3>1, <3>2, <3>3 DEF v
  <2>6. CASE piece.conv = "d"
    <3>1. ValueToString(piece.comma, signedWord(v, long)) = number(signedWord(v, long), piece.comma) /\ number(signedWord(v, long), piece.comma) \in Seq(Alphabet)
      BY <1>1, <2>4, NumberFacts
    <3>2. made(piece) = ValueToString(piece.comma, signedWord(piece.value, piece.long))
      BY <2>6 DEF made
    <3>3. codeMeaning(piece) = number(signedWord(piece.value, piece.long), piece.comma)
      BY <2>6 DEF codeMeaning
    <3> QED
      BY <3>1, <3>2, <3>3 DEF v
  <2>7. CASE piece.conv = "u"
    <3> DEFINE u == unsignedWord(v, long)
    <3>0. u \in 0..(limit - 1)
      BY <2>4
    <3> HIDE DEF u
    <3>1. signedWord(u, TRUE) \in Int /\ signedWord(u, TRUE) < limit /\ -signedWord(u, TRUE) < limit
      <4>1. PICK yes \in BOOLEAN : yes = TRUE
        OBVIOUS
      <4>2. signedWord(u, yes) \in Int /\ signedWord(u, yes) < limit /\ -signedWord(u, yes) < limit
        BY <3>0, WordFacts
      <4> QED
        BY <4>1, <4>2
    <3>2. ValueToString(piece.comma, signedWord(u, TRUE)) = number(signedWord(u, TRUE), piece.comma) /\ number(signedWord(u, TRUE), piece.comma) \in Seq(Alphabet)
      BY <1>1, <3>1, NumberFacts
    <3>3. made(piece) =
            ValueToString(piece.comma, signedWord(unsignedWord(piece.value, piece.long), TRUE))
      BY <2>7 DEF made
    <3>4. codeMeaning(piece) = number(signedWord(unsignedWord(piece.value, piece.long), TRUE), piece.comma)
      BY <2>7 DEF codeMeaning
    <3> QED
      BY <3>2, <3>3, <3>4 DEF u, v
  <2>8. CASE piece.conv = "r"
    <3>1. made(piece) = StatusToString(piece.value)
      BY <2>8 DEF made
    <3>2. CASE v \in DOMAIN ErrorCodeTable
      <4>1. ErrorCodeTable[v] \in Seq(Alphabet)
        BY <3>2, FirmwareTextAssumption
      <4>2. StatusToString(v) = ErrorCodeTable[v]
        BY <3>2 DEF StatusToString
      <4>3. codeMeaning(piece) = ErrorCodeTable[v]
        BY <2>8, <3>2 DEF codeMeaning, v
      <4> QED
        BY <3>1, <4>1, <4>2, <4>3 DEF v
    <3>3. CASE v \notin DOMAIN ErrorCodeTable
      <4> DEFINE u == unsignedWord(v, FALSE)
                 digits == digitsOf(u, 16)
                 zeros == copies(hexWidth(FALSE) - Len(digits), "0")
      <4>1. digits = byPlace(u, 16) /\ digits \in Seq(Alphabet)
        BY <1>4, <2>4
      <4>2. StatusToString(v) = zeros \o digits
        BY <3>3 DEF StatusToString, ValueToHex
      <4>3. codeMeaning(piece) = copies(hexWidth(FALSE) - Len(byPlace(u, 16)), "0") \o byPlace(u, 16)
        BY <2>8, <3>3 DEF codeMeaning, filledUp, v
      <4> HIDE DEF u, digits
      <4>4. zeros \in Seq(Alphabet)
        <5>1. hexWidth(FALSE) \in Nat
          BY HexWidthFacts
        <5>2. hexWidth(FALSE) - Len(digits) \in Int
          <6>1. Len(digits) \in Nat
            BY <4>1
          <6>2. \A h, l \in Nat : h - l \in Int
            OBVIOUS
          <6> QED
            BY <5>1, <6>1, <6>2, Zenon
        <5>3. "0" \in Alphabet
          BY AlphabetFacts, DigitChars DEF Modifiers
        <5> QED
          BY <5>2, <5>3, CopiesFacts
      <4>5. codeMeaning(piece) = zeros \o digits
        BY <4>1, <4>3
      <4> HIDE DEF zeros
      <4>6. zeros \o digits \in Seq(Alphabet)
        BY <4>1, <4>4, ConcatProperties
      <4> QED
        BY <3>1, <4>2, <4>5, <4>6 DEF v
    <3> QED
      BY <3>2, <3>3
  <2> QED
    BY <1>8, <2>5, <2>6, <2>7, <2>8
<1>9. CASE piece.conv \notin {"%", "c", "s", "a", "x", "X", "d", "u", "r"}
  <2>1. "?" \in Alphabet
    BY AlphabetFacts
  <2>2. <<"?">> \in Seq(Alphabet)
    BY <2>1
  <2>3. made(piece) = <<"?">>
    BY <1>9 DEF made
  <2>4. codeMeaning(piece) = <<"?">>
    BY <1>9 DEF codeMeaning
  <2> QED
    BY <2>2, <2>3, <2>4
<1> QED
  BY <1>5, <1>6, <1>7, <1>8, <1>9

(* The padding the library puts around a text ...                           *)
arranged(cut, w, pad, f, inFront) ==
  LET width  == IF Len(cut) > w THEN Len(cut) ELSE w
      field  == IF f = Unlimited THEN Len(cut) ELSE f
      spaces == copies(field - width, Blank)
  IN  when(inFront, spaces) \o copies(width - Len(cut), pad) \o cut \o when(~inFront, spaces)

(* ... which is to fill the text up on the one side and then on the other.  *)
LEMMA ArrangedFacts ==
  ASSUME NEW cut \in Seq(Alphabet), NEW w \in Nat, NEW pad \in Alphabet,
         NEW f \in Nat \cup {Unlimited}, NEW inFront \in BOOLEAN
  PROVE  LET padded == filledUp(cut, w, pad)
         IN  /\ arranged(cut, w, pad, f, inFront) =
                  IF ~inFront THEN padded \o copies(f - Len(padded), Blank) ELSE filledUp(padded, f, Blank)
             /\ arranged(cut, w, pad, f, inFront) \in Seq(Alphabet)
<1> DEFINE n == Len(cut)
           width  == IF n > w THEN n ELSE w
           field  == IF f = Unlimited THEN n ELSE f
           spaces == copies(field - width, Blank)
           pads == copies(width - n, pad)
           padded == filledUp(cut, w, pad)
           none == << >>
<1>1. n \in Nat /\ width \in Nat /\ field \in Int /\ Blank \in Alphabet /\ f \in Int
  BY AlphabetFacts DEF Unlimited
<1>2. none \in Seq(Alphabet)
  OBVIOUS
<1>3. pads \in Seq(Alphabet) /\ Len(pads) = width - n
  <2> HIDE DEF n
  <2>1. width - n \in Int /\ (width - n > 0 \/ width - n = 0)
    BY <1>1
  <2> HIDE DEF width
  <2> QED
    BY <2>1, CopiesFacts
<1>4. pads = copies(w - n, pad)
  <2> HIDE DEF n
  <2>1. CASE n > w
    <3>1. width - n = 0 /\ w - n <= 0 /\ w - n \in Int /\ width - n <= 0 /\ width - n \in Int
      BY <1>1, <2>1
    <3>2. pads = << >> /\ copies(w - n, pad) = << >>
      <4> HIDE DEF width
      <4> QED
        BY <3>1, CopiesFacts
    <3> QED
      BY <3>2
  <2>2. CASE ~(n > w)
    BY <2>2
  <2> QED
    BY <2>1, <2>2
<1>5. padded = join(pads, cut)
  <2>1. padded = copies(w - n, pad) \o cut
    BY DEF filledUp
  <2> HIDE DEF pads, padded
  <2> QED
    BY <1>4, <2>1 DEF join
<1>6. padded \in Seq(Alphabet) /\ Len(padded) = width
  <2> HIDE DEF pads, padded, n, width
  <2>1. join(pads, cut) \in Seq(Alphabet) /\ Len(join(pads, cut)) = Len(pads) + Len(cut)
    BY <1>3, JoinFacts
  <2> QED
    BY <1>1, <1>3, <1>5, <2>1 DEF n
<1>7. spaces \in Seq(Alphabet)
  <2>1. field - width \in Int
    BY <1>1
  <2> HIDE DEF field, width
  <2> QED
    BY <1>1, <2>1, CopiesFacts
<1>8. spaces = copies(f - width, Blank)
  <2> HIDE DEF n
  <2>1. CASE f = Unlimited
    <3>1. field - width <= 0 /\ field - width \in Int /\ f - width <= 0 /\ f - width \in Int
      BY <1>1, <2>1 DEF Unlimited
    <3>2. spaces = << >> /\ copies(f - width, Blank) = << >>
      <4> HIDE DEF field, width
      <4> QED
        BY <1>1, <3>1, CopiesFacts
    <3> QED
      BY <3>2
  <2>2. CASE f # Unlimited
    BY <2>2
  <2> QED
    BY <2>1, <2>2
<1>9. arranged(cut, w, pad, f, inFront) = join(join(join(when(inFront, spaces), pads), cut), when(~inFront, spaces))
  BY DEF arranged, join
<1>10. \A x, y, z \in Seq(Alphabet) : join(join(x, y), z) = join(x, join(y, z))
  BY JoinFacts, Z3
<1>11. \A x, y \in Seq(Alphabet) : join(x, y) \in Seq(Alphabet) /\ join(none, x) = x /\ join(x, none) = x
  <2> TAKE x, y \in Seq(Alphabet)
  <2> QED
    BY JoinFacts, ConcatEmptySeq DEF join
<1>12. filledUp(padded, f, Blank) = join(spaces, padded)
  <2>1. filledUp(padded, f, Blank) = copies(f - Len(padded), Blank) \o padded
    BY DEF filledUp
  <2> HIDE DEF padded, spaces, width
  <2> QED
    BY <1>6, <1>8, <2>1 DEF join
<1>13. padded \o copies(f - Len(padded), Blank) = join(padded, spaces)
  <2> HIDE DEF padded, spaces, width
  <2> QED
    BY <1>6, <1>8 DEF join
<1>14. CASE inFront
  <2>1. when(inFront, spaces) = spaces /\ when(~inFront, spaces) = none
    BY <1>14 DEF when
  <2> HIDE DEF padded, spaces, width, pads, none
  <2>2. join(join(join(spaces, pads), cut), none) = join(spaces, join(pads, cut))
    BY <1>2, <1>3, <1>7, <1>10, <1>11
  <2>3. join(spaces, padded) \in Seq(Alphabet)
    BY <1>6, <1>7, <1>11
  <2> QED
    BY <1>5, <1>9, <1>12, <1>14, <2>1, <2>2, <2>3 DEF padded
<1>15. CASE ~inFront
  <2>1. when(inFront, spaces) = none /\ when(~inFront, spaces) = spaces
    BY <1>15 DEF when
  <2> HIDE DEF padded, spaces, width, pads, none
  <2>2. join(join(join(none, pads), cut), spaces) = join(join(pads, cut), spaces)
    BY <1>2, <1>3, <1>7, <1>11
  <2>3. join(padded, spaces) \in Seq(Alphabet)
    BY <1>6, <1>7, <1>11
  <2> QED
    BY <1>5, <1>9, <1>13, <1>15, <2>1, <2>2, <2>3 DEF padded
<1> QED
  BY <1>14, <1>15

(* The width, and what pads to it. *)
widthOf(piece) == IF piece.conv = "X" THEN hexWidth(piece.long) ELSE piece.width
padOf(piece) == IF piece.conv = "X" \/ piece.zero THEN "0" ELSE Blank

(* What the code shows of a part of a format: - moves the blanks that fill  *)
(* up the field, not what pads to the width, and %X has a width of its own. *)
codeShown(piece) ==
  CASE piece.conv = "text" -> piece.value
    [] piece.conv \in Attributes \cup {"end"} -> << >>
    [] OTHER ->
         LET cut    == IF piece.field = Unlimited THEN codeMeaning(piece)
                       ELSE atMost(piece.field, codeMeaning(piece))
             padded == IF piece.conv = "X" THEN filledUp(cut, hexWidth(piece.long), "0")
                       ELSE filledUp(cut, piece.width, IF piece.zero THEN "0" ELSE Blank)
         IN  IF piece.left THEN padded \o copies(piece.field - Len(padded), Blank)
             ELSE filledUp(padded, piece.field, Blank)

(* That is the meaning, cut and arranged.                                   *)
LEMMA ShownFacts ==
  ASSUME NEW piece, accepted(piece)
  PROVE  /\ codeShown(piece) \in Seq(Alphabet)
         /\ piece.conv \notin Attributes \cup {"text", "end"} =>
              codeShown(piece) =
                arranged(IF piece.field = Unlimited THEN codeMeaning(piece) ELSE atMost(piece.field, codeMeaning(piece)),
                         widthOf(piece), padOf(piece), piece.field, ~piece.left)
<1>1. CASE piece.conv = "text"
  <2>1. codeShown(piece) = piece.value
    BY <1>1 DEF codeShown, Attributes
  <2>2. piece.value \in Seq(Alphabet \ {"%"})
    BY <1>1 DEF accepted
  <2>3. Alphabet \ {"%"} \subseteq Alphabet
    OBVIOUS
  <2>4. piece.value \in Seq(Alphabet)
    BY <2>2, <2>3, SeqMonotonic
  <2> QED
    BY <1>1, <2>1, <2>4
<1>2. CASE piece.conv \in Attributes \cup {"end"}
  <2>1. codeShown(piece) = << >>
    BY <1>2 DEF codeShown, Attributes
  <2>2. << >> \in Seq(Alphabet)
    OBVIOUS
  <2> QED
    BY <1>2, <2>1, <2>2
<1>3. CASE piece.conv \notin Attributes \cup {"text", "end"}
  <2> DEFINE cut == IF piece.field = Unlimited THEN codeMeaning(piece) ELSE atMost(piece.field, codeMeaning(piece))
             w == widthOf(piece)
             pad == padOf(piece)
             f == piece.field
             inFront == ~piece.left
  <2>1. /\ piece.long \in BOOLEAN /\ piece.left \in BOOLEAN /\ piece.zero \in BOOLEAN
        /\ piece.width \in Nat /\ piece.field \in Nat \cup {Unlimited}
    <3>1. /\ {piece.zero, piece.left, piece.comma, piece.star, piece.long} \subseteq BOOLEAN
          /\ piece.width \in Nat /\ piece.field \in {Unlimited} \cup 1..99
      BY <1>3 DEF accepted
    <3>2. 1..99 \subseteq Nat
      OBVIOUS
    <3> QED
      BY <3>1, <3>2
  <2>2. codeMeaning(piece) \in Seq(Alphabet)
    BY <1>3, ItemTextFacts
  <2>3. cut \in Seq(Alphabet)
    <3>1. piece.field # Unlimited => atMost(piece.field, codeMeaning(piece)) \in Seq(Alphabet)
      <4>1. \A n \in Nat : atMost(n, codeMeaning(piece)) \in Seq(Alphabet)
        BY <2>2, AtMostFacts
      <4> QED
        BY <2>1, <4>1
    <3> QED
      BY <2>2, <3>1
  <2>4. w \in Nat
    BY <2>1, HexWidthFacts DEF widthOf
  <2>5. pad \in Alphabet
    <3>1. "0" \in Alphabet
      BY AlphabetFacts, DigitChars DEF Modifiers
    <3> QED
      BY <3>1, AlphabetFacts DEF padOf
  <2> DEFINE padded == filledUp(cut, w, pad)
  <2>6. codeShown(piece) = IF ~inFront THEN padded \o copies(f - Len(padded), Blank)
                          ELSE filledUp(padded, f, Blank)
    <3>1. CASE piece.conv = "X"
      <4>1. w = hexWidth(piece.long) /\ pad = "0"
        BY <3>1 DEF widthOf, padOf
      <4> HIDE DEF w, pad
      <4> QED
        BY <1>3, <2>1, <3>1, <4>1 DEF codeShown
    <3>2. CASE piece.conv # "X"
      <4>1. w = piece.width /\ pad = IF piece.zero THEN "0" ELSE Blank
        BY <3>2 DEF widthOf, padOf
      <4> HIDE DEF w, pad
      <4> QED
        BY <1>3, <2>1, <3>2, <4>1 DEF codeShown
    <3> QED
      BY <3>1, <3>2
  <2>7. inFront \in BOOLEAN /\ f \in Nat \cup {Unlimited}
    BY <2>1
  <2> HIDE DEF cut, w, pad, f, inFront
  <2>8. /\ arranged(cut, w, pad, f, inFront) =
             IF ~inFront THEN padded \o copies(f - Len(padded), Blank) ELSE filledUp(padded, f, Blank)
        /\ arranged(cut, w, pad, f, inFront) \in Seq(Alphabet)
    BY <2>3, <2>4, <2>5, <2>7, ArrangedFacts
  <2> HIDE DEF padded
  <2>9. codeShown(piece) = arranged(cut, w, pad, f, inFront)
    BY <2>6, <2>8
  <2> QED
    BY <2>8, <2>9 DEF cut, w, pad, f, inFront
<1> QED
  BY <1>1, <1>2, <1>3

(* PITEM puts out what the directive is to show. *)
LEMMA PitemFacts ==
  ASSUME NEW piece, accepted(piece), piece.conv \notin Attributes \cup {"text", "end"},
         NEW i, i.fieldWidth = piece.field, i.padBefore = ~piece.left,
         i.width = widthOf(piece), i.pad = padOf(piece)
  PROVE  PITEM(i, codeMeaning(piece)) = puts(out, codeShown(piece))
<1> DEFINE cut == IF piece.field = Unlimited THEN codeMeaning(piece) ELSE atMost(piece.field, codeMeaning(piece))
<1>1. codeShown(piece) = arranged(cut, widthOf(piece), padOf(piece), piece.field, ~piece.left)
  BY ShownFacts
<1>2. PITEM(i, codeMeaning(piece)) = puts(out, arranged(cut, i.width, i.pad, i.fieldWidth, i.padBefore))
  BY DEF PITEM, arranged
<1> HIDE DEF cut
<1> QED
  BY <1>1, <1>2

(* A number of one or two digits, as the loop computes it. *)
LEMMA NumberAheadFacts ==
  /\ digitOf(format[1]) \in 0..9 => numberAhead(1) = digitOf(format[1])
  /\ digitOf(format[1]) \in 0..9 /\ digitOf(format[2]) \in 0..9 =>
       numberAhead(2) = digitOf(format[1]) * 10 + digitOf(format[2])
<1> DEFINE x == digitOf(format[1])
           y == digitOf(format[2])
           equation(f, length) ==
             f = [k \in 0..length |-> IF k = 0 THEN 0 ELSE f[k - 1] * 10 + digitOf(format[k])]
           n(length) == CHOOSE f : equation(f, length)
<1>1. \A length : numberAhead(length) = n(length)[length]
  BY DEF numberAhead
<1>2. ASSUME x \in 0..9
      PROVE  numberAhead(1) = x
  <2> DEFINE g == [k \in 0..1 |-> IF k = 0 THEN 0 ELSE x]
  <2>1. equation(g, 1)
    <3>1. ASSUME NEW k \in 0..1
          PROVE  g[k] = IF k = 0 THEN 0 ELSE g[k - 1] * 10 + digitOf(format[k])
      <4>1. CASE k = 0
        BY <4>1
      <4>2. CASE k = 1
        <5>1. g[k] = x /\ g[k - 1] = 0 /\ digitOf(format[k]) = x
          BY <4>2
        <5> HIDE DEF g, x
        <5> QED
          BY <1>2, <4>2, <5>1
      <4> QED
        BY <4>1, <4>2
    <3> QED
      BY <3>1
  <2>2. equation(n(1), 1)
    <3> HIDE DEF g
    <3> QED
      BY <2>1
  <2> HIDE DEF n
  <2>3. n(1)[0] = 0
    BY <2>2
  <2>4. n(1)[1] = n(1)[1 - 1] * 10 + x
    BY <2>2
  <2> HIDE DEF x
  <2>5. 1 - 1 = 0 /\ 0 * 10 + x = x
    BY <1>2
  <2> QED
    BY <1>1, <2>3, <2>4, <2>5
<1>3. ASSUME x \in 0..9, y \in 0..9
      PROVE  numberAhead(2) = x * 10 + y
  <2> DEFINE g == [k \in 0..2 |-> IF k = 0 THEN 0 ELSE IF k = 1 THEN x ELSE x * 10 + y]
  <2>1. equation(g, 2)
    <3>1. ASSUME NEW k \in 0..2
          PROVE  g[k] = IF k = 0 THEN 0 ELSE g[k - 1] * 10 + digitOf(format[k])
      <4>1. CASE k = 0
        BY <4>1
      <4>2. CASE k = 1
        <5>1. g[k] = x /\ g[k - 1] = 0 /\ digitOf(format[k]) = x
          BY <4>2
        <5> HIDE DEF g, x
        <5> QED
          BY <1>3, <4>2, <5>1
      <4>3. CASE k = 2
        <5>1. g[k] = x * 10 + y /\ g[k - 1] = x /\ digitOf(format[k]) = y
          BY <4>3
        <5> HIDE DEF g, x, y
        <5> QED
          BY <1>3, <4>3, <5>1
      <4> QED
        BY <4>1, <4>2, <4>3
    <3> QED
      BY <3>1
  <2>2. equation(n(2), 2)
    <3> HIDE DEF g
    <3> QED
      BY <2>1
  <2> HIDE DEF n
  <2>3. n(2)[0] = 0
    BY <2>2
  <2>4. n(2)[1] = n(2)[1 - 1] * 10 + x
    BY <2>2
  <2>5. n(2)[2] = n(2)[2 - 1] * 10 + y
    BY <2>2
  <2> HIDE DEF x, y
  <2>6. 1 - 1 = 0 /\ 2 - 1 = 1 /\ 0 * 10 + x = x
    BY <1>3
  <2>7. n(2)[1] = x
    BY <2>3, <2>4, <2>6
  <2> QED
    BY <1>1, <2>5, <2>6, <2>7
<1> QED
  BY <1>2, <1>3

(* What follows a number must not begin with a digit. *)
NoDigit(chars) == chars = << >> \/ chars[1] \notin DecimalDigits

(* A number of a format is its one or two digits.                           *)
LEMMA DecimalFacts ==
  ASSUME NEW n \in 1..99
  PROVE  /\ decimal(n) \in Seq(Alphabet) /\ Len(decimal(n)) \in {1, 2}
         /\ decimal(n)[1] \in DecimalDigits \ {"0"}
         /\ \A k \in 1..Len(decimal(n)) : decimal(n)[k] \in DecimalDigits /\ digitOf(decimal(n)[k]) \in 0..9
         /\ n = IF Len(decimal(n)) = 1 THEN digitOf(decimal(n)[1])
                ELSE digitOf(decimal(n)[1]) * 10 + digitOf(decimal(n)[2])
<1>0. /\ \A d \in 0..9 : Digits[d + 1] \in Alphabet /\ Digits[d + 1] \in DecimalDigits /\ digitOf(Digits[d + 1]) = d
      /\ \A d \in 1..9 : Digits[d + 1] # "0"
  <2>1. \A d \in 0..9 : d \in 0..15
    OBVIOUS
  <2>2. \A d \in 1..9 : Digits[d + 1] # "0"
    BY DEF Digits
  <2> QED
    BY <2>1, <2>2, DigitChars, AlphabetFacts
<1>1. CASE n < 10
  <2>1. decimal(n) = <<Digits[n + 1]>>
    BY <1>1 DEF decimal
  <2>2. n \in 0..9 /\ n \in 1..9
    BY <1>1
  <2> DEFINE a == Digits[n + 1]
  <2>3. a \in Alphabet /\ a \in DecimalDigits /\ digitOf(a) = n /\ a # "0"
    BY <1>0, <2>2
  <2> HIDE DEF a
  <2>4. <<a>> \in Seq(Alphabet) /\ Len(<<a>>) = 1 /\ <<a>>[1] = a
    BY <2>3
  <2>5. decimal(n) = <<a>>
    BY <2>1 DEF a
  <2>6. \A k \in 1..1 : k = 1
    OBVIOUS
  <2> QED
    BY <2>2, <2>3, <2>4, <2>5, <2>6
<1>2. CASE ~(n < 10)
  <2>1. decimal(n) = <<Digits[(n \div 10) + 1], Digits[(n % 10) + 1]>>
    BY <1>2 DEF decimal
  <2> DEFINE a == Digits[(n \div 10) + 1]
             b == Digits[(n % 10) + 1]
  <2>2. n \div 10 \in 1..9 /\ n % 10 \in 0..9 /\ n \div 10 \in 0..9 /\ n = (n \div 10) * 10 + (n % 10)
    BY <1>2
  <2>3. /\ a \in Alphabet /\ a \in DecimalDigits /\ digitOf(a) = n \div 10 /\ a # "0"
        /\ b \in Alphabet /\ b \in DecimalDigits /\ digitOf(b) = n % 10
    BY <1>0, <2>2
  <2> HIDE DEF a, b
  <2>4. <<a, b>> \in Seq(Alphabet) /\ Len(<<a, b>>) = 2 /\ <<a, b>>[1] = a /\ <<a, b>>[2] = b
    BY <2>3
  <2>5. decimal(n) = <<a, b>>
    BY <2>1 DEF a, b
  <2>6. \A k \in 1..2 : k = 1 \/ k = 2
    OBVIOUS
  <2>7. \A k \in 1..Len(decimal(n)) : decimal(n)[k] \in DecimalDigits /\ digitOf(decimal(n)[k]) \in 0..9
    BY <2>2, <2>3, <2>4, <2>5, <2>6
  <2>8. n = digitOf(decimal(n)[1]) * 10 + digitOf(decimal(n)[2])
    BY <2>2, <2>3, <2>4, <2>5
  <2>9. Len(decimal(n)) # 1 /\ Len(decimal(n)) \in {1, 2}
    BY <2>4, <2>5
  <2> QED
    BY <2>3, <2>4, <2>5, <2>7, <2>8, <2>9
<1> QED
  BY <1>1, <1>2

(* The loop over the digits reads the whole number and nothing else.        *)
LEMMA NumberStepFacts ==
  ASSUME NEW n \in 1..99, NEW rest \in Seq(Alphabet), NoDigit(rest),
         format = join(decimal(n), rest), NEW length \in 1..Len(format), IsNumberAhead(length)
  PROVE  numberAhead(length) = n /\ SubSeq(format, length + 1, Len(format)) = rest
<1> DEFINE d == decimal(n)
           l == Len(d)
<1>1. /\ d \in Seq(Alphabet) /\ l \in {1, 2}
      /\ \A k \in 1..l : d[k] \in DecimalDigits /\ digitOf(d[k]) \in 0..9
      /\ n = IF l = 1 THEN digitOf(d[1]) ELSE digitOf(d[1]) * 10 + digitOf(d[2])
  BY DecimalFacts
<1>2. /\ format \in Seq(Alphabet) /\ Len(format) = l + Len(rest)
      /\ \A k \in 1..l : format[k] = d[k]
      /\ \A k \in 1..Len(rest) : format[l + k] = rest[k]
  <2> HIDE DEF d
  <2>1. Joining(Alphabet)
    BY JoinPlaces
  <2> QED
    BY <1>1, <2>1 DEF Joining, d
<1> HIDE DEF d, l
<1>3. Len(rest) \in Nat
  OBVIOUS
<1>4. length = l
  <2>1. CASE length < l
    <3>1. length + 1 \in 1..l /\ length < Len(format)
      BY <1>1, <1>2, <1>3, <2>1
    <3>2. format[length + 1] \in DecimalDigits
      BY <1>1, <1>2, <3>1
    <3> QED
      BY <3>1, <3>2 DEF IsNumberAhead
  <2>2. CASE length > l
    <3>1. l + 1 \in 1..length /\ 1 \in 1..Len(rest)
      BY <1>1, <1>2, <1>3, <2>2
    <3>2. format[l + 1] = rest[1]
      BY <1>2, <3>1
    <3>3. rest # << >>
      BY <3>1
    <3> QED
      BY <3>1, <3>2, <3>3 DEF NoDigit, IsNumberAhead
  <2> QED
    BY <1>1, <2>1, <2>2
<1>5. numberAhead(length) = n
  <2>1. CASE l = 1
    <3>1. format[1] = d[1] /\ digitOf(d[1]) \in 0..9
      BY <1>1, <1>2, <2>1
    <3> QED
      BY <1>1, <1>4, <2>1, <3>1, NumberAheadFacts
  <2>2. CASE l = 2
    <3>1. /\ format[1] = d[1] /\ digitOf(d[1]) \in 0..9
          /\ format[2] = d[2] /\ digitOf(d[2]) \in 0..9
      BY <1>1, <1>2, <2>2
    <3> QED
      BY <1>1, <1>4, <2>2, <3>1, NumberAheadFacts
  <2> QED
    BY <1>1, <2>1, <2>2
<1>6. SubSeq(format, l + 1, Len(format)) = rest
  <2> DEFINE s == SubSeq(format, l + 1, Len(format))
  <2>1. s \in Seq(Alphabet) /\ Len(s) = Len(rest) /\ \A k \in 1..Len(rest) : s[k] = format[l + k]
    BY <1>1, <1>2, <1>3
  <2>2. \A k \in 1..Len(s) : s[k] = rest[k]
    BY <1>2, <2>1
  <2> HIDE DEF s
  <2>3. s = rest
    BY <2>1, <2>2, SeqEqual
  <2> QED
    BY <2>3 DEF s
<1> QED
  BY <1>4, <1>5, <1>6

(* The symbols of a directive are characters. *)
LEMMA SymbolsFacts ==
  ASSUME NEW piece, accepted(piece), piece.conv # "text"
  PROVE  /\ symbols(piece) \in Seq(Seq(Alphabet)) /\ Len(symbols(piece)) = 10
         /\ symbols(piece)[1] = <<"%">>
         /\ symbols(piece)[2] = when(piece.attr # NoAttribute, <<piece.attr>>)
         /\ symbols(piece)[3] = when(piece.zero, <<"0">>)
         /\ symbols(piece)[4] = when(piece.left, <<"-">>)
         /\ symbols(piece)[5] = when(piece.comma, <<",">>)
         /\ symbols(piece)[6] = IF piece.star THEN <<"*">> ELSE when(piece.width # 0, decimal(piece.width))
         /\ symbols(piece)[7] = when(piece.field # Unlimited, <<".">>)
         /\ symbols(piece)[8] = when(piece.field # Unlimited, decimal(piece.field))
         /\ symbols(piece)[9] = when(piece.long, <<"l">>)
         /\ symbols(piece)[10] = when(piece.conv # "end", <<piece.conv>>)
<1> DEFINE s == symbols(piece)
<1>1. /\ piece.attr \in {NoAttribute, "n", "h", "e"}
      /\ piece.width \in Nat /\ (~piece.star => piece.width < 100)
      /\ piece.field \in {Unlimited} \cup 1..99
      /\ piece.conv \in Alphabet \cup {"end"}
  <2>1. /\ piece.attr \in {NoAttribute, "n", "h", "e"}
        /\ piece.width \in Nat /\ (~piece.star => piece.width < 100)
        /\ piece.field \in {Unlimited} \cup 1..99
    BY DEF accepted
  <2>2. piece.conv \in Alphabet \cup {"end"}
    <3>1. CASE piece.conv \in {"s", "a", "c", "x", "X", "d", "u", "r"}
      BY <3>1, AlphabetFacts DEF Taking
    <3>2. CASE piece.conv \notin {"s", "a", "c", "x", "X", "d", "u", "r"}
      BY <3>2 DEF accepted
    <3> QED
      BY <3>1, <3>2
  <2> QED
    BY <2>1, <2>2
<1>2. \A c \in Alphabet : <<c>> \in Seq(Alphabet)
  OBVIOUS
<1>3. << >> \in Seq(Alphabet)
  OBVIOUS
<1>4. /\ "%" \in Alphabet /\ "0" \in Alphabet /\ "-" \in Alphabet /\ "," \in Alphabet /\ "*" \in Alphabet
      /\ "." \in Alphabet /\ "l" \in Alphabet /\ "n" \in Alphabet /\ "h" \in Alphabet /\ "e" \in Alphabet
  <2>1. /\ "-" \in Modifiers /\ "," \in Modifiers /\ "*" \in Modifiers /\ "." \in Modifiers
        /\ "l" \in Modifiers /\ "n" \in Modifiers /\ "h" \in Modifiers /\ "e" \in Modifiers
    BY DEF Modifiers
  <2>2. "0" \in Modifiers
    BY DigitChars DEF Modifiers
  <2> QED
    BY <2>1, <2>2, AlphabetFacts
<1>5. ~piece.star /\ piece.width # 0 => decimal(piece.width) \in Seq(Alphabet)
  <2> SUFFICES ASSUME ~piece.star, piece.width # 0
               PROVE  decimal(piece.width) \in Seq(Alphabet)
    OBVIOUS
  <2>1. piece.width \in 1..99
    BY <1>1
  <2> QED
    BY <2>1, DecimalFacts
<1>6. piece.field # Unlimited => decimal(piece.field) \in Seq(Alphabet)
  <2> SUFFICES ASSUME piece.field # Unlimited
               PROVE  decimal(piece.field) \in Seq(Alphabet)
    OBVIOUS
  <2>1. piece.field \in 1..99
    BY <1>1
  <2> QED
    BY <2>1, DecimalFacts
<1>7. /\ s[1] = <<"%">>
      /\ s[2] = when(piece.attr # NoAttribute, <<piece.attr>>)
      /\ s[3] = when(piece.zero, <<"0">>)
      /\ s[4] = when(piece.left, <<"-">>)
      /\ s[5] = when(piece.comma, <<",">>)
      /\ s[6] = IF piece.star THEN <<"*">> ELSE when(piece.width # 0, decimal(piece.width))
      /\ s[7] = when(piece.field # Unlimited, <<".">>)
      /\ s[8] = when(piece.field # Unlimited, decimal(piece.field))
      /\ s[9] = when(piece.long, <<"l">>)
      /\ s[10] = when(piece.conv # "end", <<piece.conv>>)
  BY DEF symbols
<1>8. /\ s[1] \in Seq(Alphabet) /\ s[2] \in Seq(Alphabet) /\ s[3] \in Seq(Alphabet) /\ s[4] \in Seq(Alphabet)
      /\ s[5] \in Seq(Alphabet) /\ s[6] \in Seq(Alphabet) /\ s[7] \in Seq(Alphabet) /\ s[8] \in Seq(Alphabet)
      /\ s[9] \in Seq(Alphabet) /\ s[10] \in Seq(Alphabet)
  <2> HIDE DEF s
  <2>1. s[1] \in Seq(Alphabet) /\ s[2] \in Seq(Alphabet)
    BY <1>1, <1>2, <1>3, <1>4, <1>7 DEF when
  <2>2. s[3] \in Seq(Alphabet)
    BY <1>2, <1>3, <1>4, <1>7 DEF when
  <2>3. s[4] \in Seq(Alphabet)
    BY <1>2, <1>3, <1>4, <1>7 DEF when
  <2>4. s[5] \in Seq(Alphabet)
    BY <1>2, <1>3, <1>4, <1>7 DEF when
  <2>5. s[6] \in Seq(Alphabet)
    BY <1>2, <1>3, <1>4, <1>5, <1>7 DEF when
  <2>6. s[7] \in Seq(Alphabet)
    BY <1>2, <1>3, <1>4, <1>7 DEF when
  <2>7. s[8] \in Seq(Alphabet)
    BY <1>3, <1>6, <1>7 DEF when
  <2>8. s[9] \in Seq(Alphabet)
    BY <1>2, <1>3, <1>4, <1>7 DEF when
  <2>9. s[10] \in Seq(Alphabet)
    BY <1>1, <1>2, <1>3, <1>7 DEF when
  <2> QED
    BY <2>1, <2>2, <2>3, <2>4, <2>5, <2>6, <2>7, <2>8, <2>9
<1>9. s \in Seq(Seq(Alphabet)) /\ Len(s) = 10
  <2>1. PICK q1, q2, q3, q4, q5, q6, q7, q8, q9, q10 \in Seq(Alphabet) :
          s = <<q1, q2, q3, q4, q5, q6, q7, q8, q9, q10>>
    <3>1. s = <<s[1], s[2], s[3], s[4], s[5], s[6], s[7], s[8], s[9], s[10]>>
      BY DEF symbols
    <3> HIDE DEF s
    <3> QED
      BY <1>8, <3>1
  <2> HIDE DEF s
  <2>2. PICK D : D = Seq(Alphabet)
    OBVIOUS
  <2>3. <<q1, q2, q3, q4, q5, q6, q7, q8, q9, q10>> \in Seq(D) /\ Len(<<q1, q2, q3, q4, q5, q6, q7, q8, q9, q10>>) = 10
    BY <2>1, <2>2
  <2> QED
    BY <2>1, <2>2, <2>3
<1> QED
  BY <1>7, <1>9

(* What is left of a directive behind its first m symbols. *)
left(piece, m) == behind(symbols(piece), m)

(* It is the next symbol and what is left behind it.                        *)
LEMMA LeftFacts ==
  ASSUME NEW piece, accepted(piece), piece.conv # "text"
  PROVE  /\ left(piece, 0) = spelled(piece)
         /\ left(piece, 10) = << >>
         /\ \A m \in 0..10 : left(piece, m) \in Seq(Alphabet)
         /\ \A m \in 0..9 : left(piece, m) = join(symbols(piece)[m + 1], left(piece, m + 1))
<1> DEFINE s == symbols(piece)
<1>1. s \in Seq(Seq(Alphabet)) /\ Len(s) = 10
  BY SymbolsFacts
<1> HIDE DEF s
<1>2. /\ behind(s, Len(s)) = << >>
      /\ \A m \in 0..Len(s) : behind(s, m) \in Seq(Alphabet)
      /\ \A m \in 0..(Len(s) - 1) : behind(s, m) = join(s[m + 1], behind(s, m + 1))
  BY <1>1, BehindFacts
<1>3. behind(s, 0) = FlattenSeq(s)
  <2>1. [j \in 1..(Len(s) - 0) |-> s[0 + j]] = s
    BY <1>1
  <2> QED
    BY <2>1 DEF behind
<1>4. spelled(piece) = FlattenSeq(s)
  BY DEF spelled, s
<1>5. \A m \in 0..9 : m \in 0..(Len(s) - 1)
  BY <1>1
<1> QED
  BY <1>1, <1>2, <1>3, <1>4, <1>5 DEF left, s

(* A part is spelled in characters.                                         *)
LEMMA SpelledFacts ==
  ASSUME NEW piece, accepted(piece)
  PROVE  spelled(piece) \in Seq(Alphabet)
<1>1. CASE piece.conv = "text"
  <2>1. piece.value \in Seq(Alphabet \ {"%"}) /\ Alphabet \ {"%"} \subseteq Alphabet
    BY <1>1 DEF accepted
  <2>2. piece.value \in Seq(Alphabet)
    BY <2>1, SeqMonotonic
  <2> QED
    BY <1>1, <2>2 DEF spelled
<1>2. CASE piece.conv # "text"
  <2>1. 0 \in 0..10
    OBVIOUS
  <2> QED
    BY <1>2, <2>1, LeftFacts
<1> QED
  BY <1>1, <1>2

-----------------------------------------------------------------------------
(* The format and the arguments of a call behind its first k parts. *)
ahead(r, k) == behind([j \in 1..Len(r.pieces) |-> spelled(r.pieces[j])], k)
given(r, k) == behind([j \in 1..Len(r.pieces) |-> argumentsOf(r.pieces[j])], k)
Values(r) == {r.pieces[k].value : k \in 1..Len(r.pieces)} \cup {r.pieces[k].width : k \in 1..Len(r.pieces)}

(* Parts of a call are accepted, one without conversion at its end only.    *)
LEMMA PiecesFacts ==
  ASSUME NEW r \in Requests
  PROVE  /\ Len(r.pieces) \in Nat
         /\ \A k \in 1..Len(r.pieces) :
              accepted(r.pieces[k]) /\ (r.pieces[k].conv = "end" => k = Len(r.pieces))
<1>1. /\ r.pieces \in Seq(Range(r.pieces))
      /\ \A k \in DOMAIN r.pieces :
           accepted(r.pieces[k]) /\ (r.pieces[k].conv = "end" => k = Len(r.pieces))
  BY FirmwareTextAssumption
<1>2. Len(r.pieces) \in Nat /\ DOMAIN r.pieces = 1..Len(r.pieces)
  BY <1>1
<1> QED
  BY <1>1, <1>2

(* The format ahead is the next part and what is ahead behind it.           *)
LEMMA CallFacts ==
  ASSUME NEW r \in Requests
  PROVE  /\ each(spelled, r.pieces) = ahead(r, 0)
         /\ ahead(r, Len(r.pieces)) = << >>
         /\ \A k \in 0..Len(r.pieces) : ahead(r, k) \in Seq(Alphabet)
         /\ \A k \in 0..(Len(r.pieces) - 1) :
              ahead(r, k) = join(spelled(r.pieces[k + 1]), ahead(r, k + 1))
<1> DEFINE n == Len(r.pieces)
           s == [j \in 1..n |-> spelled(r.pieces[j])]
<1>1. n \in Nat /\ \A k \in 1..n : spelled(r.pieces[k]) \in Seq(Alphabet)
  BY PiecesFacts, SpelledFacts
<1>2. s \in Seq(Seq(Alphabet)) /\ Len(s) = n /\ \A k \in 1..n : s[k] = spelled(r.pieces[k])
  BY <1>1
<1>3. each(spelled, r.pieces) = FlattenSeq(s)
  BY DEF each
<1>4. \A k : ahead(r, k) = behind(s, k)
  BY DEF ahead
<1> HIDE DEF s, n
<1>5. /\ behind(s, Len(s)) = << >>
      /\ \A m \in 0..Len(s) : behind(s, m) \in Seq(Alphabet)
      /\ \A m \in 0..(Len(s) - 1) : behind(s, m) = join(s[m + 1], behind(s, m + 1))
  BY <1>2, BehindFacts
<1>6. behind(s, 0) = FlattenSeq(s)
  <2>1. [j \in 1..(Len(s) - 0) |-> s[0 + j]] = s
    BY <1>1, <1>2
  <2> QED
    BY <2>1 DEF behind
<1>7. \A k \in 0..(n - 1) : k + 1 \in 1..n
  BY <1>1
<1> QED
  BY <1>1, <1>2, <1>3, <1>4, <1>5, <1>6, <1>7 DEF n

(* The arguments are those of the next part and those given behind it.      *)
LEMMA GivenFacts ==
  ASSUME NEW r \in Requests
  PROVE  /\ each(argumentsOf, r.pieces) = given(r, 0)
         /\ \A k \in 0..Len(r.pieces) : given(r, k) \in Seq(Values(r))
         /\ \A k \in 1..Len(r.pieces) : argumentsOf(r.pieces[k]) \in Seq(Values(r))
         /\ \A k \in 0..(Len(r.pieces) - 1) :
              given(r, k) = join(argumentsOf(r.pieces[k + 1]), given(r, k + 1))
<1> DEFINE n == Len(r.pieces)
           s == [j \in 1..n |-> argumentsOf(r.pieces[j])]
<1>0. n \in Nat
  BY PiecesFacts
<1>1. ASSUME NEW k \in 1..n
      PROVE  argumentsOf(r.pieces[k]) \in Seq(Values(r))
  <2> DEFINE piece == r.pieces[k]
             a == when(piece.star, <<piece.width>>)
             b == when(piece.conv \in Taking, <<piece.value>>)
  <2>1. piece.width \in Values(r) /\ piece.value \in Values(r)
    BY DEF Values
  <2> HIDE DEF piece
  <2>2. PICK D : D = Values(r)
    OBVIOUS
  <2>3. a \in Seq(D) /\ b \in Seq(D) /\ << >> \in Seq(D)
    BY <2>1, <2>2 DEF when
  <2>4. argumentsOf(piece) = IF piece.conv = "text" THEN << >> ELSE a \o b
    BY DEF argumentsOf
  <2> HIDE DEF a, b
  <2>5. a \o b \in Seq(D)
    BY <2>3, ConcatProperties
  <2>6. argumentsOf(piece) \in Seq(D)
    BY <2>3, <2>4, <2>5
  <2> QED
    BY <2>2, <2>6 DEF piece
<1>2. s \in Seq(Seq(Values(r))) /\ Len(s) = n /\ \A k \in 1..n : s[k] = argumentsOf(r.pieces[k])
  BY <1>0, <1>1
<1>3. each(argumentsOf, r.pieces) = FlattenSeq(s)
  BY DEF each
<1>4. \A k : given(r, k) = behind(s, k)
  BY DEF given
<1> HIDE DEF s, n
<1>5. /\ \A m \in 0..Len(s) : behind(s, m) \in Seq(Values(r))
      /\ \A m \in 0..(Len(s) - 1) : behind(s, m) = join(s[m + 1], behind(s, m + 1))
  BY <1>2, BehindFacts
<1>6. behind(s, 0) = FlattenSeq(s)
  <2>1. [j \in 1..(Len(s) - 0) |-> s[0 + j]] = s
    BY <1>0, <1>2
  <2> QED
    BY <2>1 DEF behind
<1>7. \A k \in 0..(n - 1) : k + 1 \in 1..n
  BY <1>0
<1> QED
  BY <1>0, <1>1, <1>2, <1>3, <1>4, <1>5, <1>6, <1>7 DEF n

(* The attributes of the output, as operators on the call. *)
colourOf(r, c) ==
  IF r.console
    THEN CASE c \in {"n", "N"} -> "normal" [] c \in {"h", "H"} -> "highlight"
           [] c \in {"e", "E"} -> "error"
  ELSE NoAttribute

(* The attribute in force behind the first k parts.                         *)
lastSet(r, k) ==
  LET setting == {j \in 1..k : r.pieces[j].conv \in Attributes}
  IN  IF setting = {} THEN (IF r.console THEN "initial" ELSE NoAttribute)
      ELSE colourOf(r, r.pieces[CHOOSE j \in setting : \A i \in setting : i <= j].conv)

(* A directive with an attribute of its own has that one.                   *)
ownColour(r, k) == r.pieces[k].conv # "text" /\ r.pieces[k].attr # NoAttribute

colourIn(r, k) ==
  IF ownColour(r, k) THEN colourOf(r, r.pieces[k].attr) ELSE lastSet(r, k - 1)

(* They are the model's.                                                    *)
LEMMA SameColours ==
  /\ \A c : attributeOf(c) = colourOf(request, c)
  /\ attribute("initial") = lastSet(request, 0)
  /\ \A k : attributeAfter(request.pieces, k) = lastSet(request, k)
  /\ \A k : attributeIn(request.pieces, k) = colourIn(request, k)
<1>1. \A c : attributeOf(c) = colourOf(request, c)
  BY DEF attributeOf, attribute, colourOf
<1>2. attribute("initial") = lastSet(request, 0)
  <2>1. {j \in 1..0 : request.pieces[j].conv \in Attributes} = {}
    OBVIOUS
  <2> QED
    BY <2>1 DEF attribute, lastSet
<1>3. \A k : attributeAfter(request.pieces, k) = lastSet(request, k)
  <2> TAKE k
  <2> DEFINE setting == {j \in 1..k : request.pieces[j].conv \in Attributes}
             c == request.pieces[CHOOSE j \in setting : \A i \in setting : i <= j].conv
  <2>1. attributeAfter(request.pieces, k) = IF setting = {} THEN attribute("initial") ELSE attributeOf(c)
    BY DEF attributeAfter
  <2>2. lastSet(request, k) = IF setting = {} THEN (IF request.console THEN "initial" ELSE NoAttribute)
                              ELSE colourOf(request, c)
    BY DEF lastSet
  <2> HIDE DEF setting, c
  <2> QED
    BY <1>1, <2>1, <2>2 DEF attribute
<1>4. \A k : attributeIn(request.pieces, k) = colourIn(request, k)
  BY <1>1, <1>3 DEF attributeIn, colourIn, ownColour
<1> QED
  BY <1>1, <1>2, <1>3, <1>4

(* The call has no attributes in a string, or goes to the console. *)
Plain(r) == r.console \/ \A k \in 1..Len(r.pieces) : r.pieces[k].conv \notin Attributes

(* These are the calls the property speaks of.                              *)
LEMMA PlainCalls ==
  ASSUME request \in Requests
  PROVE  Plain(request) <=> ~attributeInString
<1>1. DOMAIN request.pieces = 1..Len(request.pieces)
  BY FirmwareTextAssumption
<1> QED
  BY <1>1 DEF Plain, attributeInString

(* The attributes are known, those of a string are all 0.                   *)
LEMMA ColourFacts ==
  ASSUME NEW r \in Requests
  PROVE  /\ \A c \in {"n", "N", "h", "H", "e", "E"} :
              colourOf(r, c) \in Colours /\ (r.console => colourOf(r, c) # NoAttribute)
         /\ \A k \in 0..Len(r.pieces) : lastSet(r, k) \in Colours
         /\ \A k \in 0..(Len(r.pieces) - 1) :
              lastSet(r, k + 1) = IF r.pieces[k + 1].conv \in Attributes
                                    THEN colourOf(r, r.pieces[k + 1].conv) ELSE lastSet(r, k)
         /\ \A k \in 1..Len(r.pieces) : colourIn(r, k) \in Colours
         /\ ~r.console => /\ \A k \in 0..Len(r.pieces) : lastSet(r, k) = NoAttribute
                          /\ \A c : colourOf(r, c) = NoAttribute
         /\ r.console => \A k \in 0..Len(r.pieces) : lastSet(r, k) # NoAttribute
<1> DEFINE n == Len(r.pieces)
           setting(k) == {j \in 1..k : r.pieces[j].conv \in Attributes}
           chosen(k) == CHOOSE j \in setting(k) : \A i \in setting(k) : i <= j
<1>1. n \in Nat
  BY PiecesFacts
<1>2. \A c \in {"n", "N", "h", "H", "e", "E"} :
        colourOf(r, c) \in Colours /\ (r.console => colourOf(r, c) # NoAttribute)
  BY DEF colourOf, Colours, NoAttribute
<1>3. \A k : lastSet(r, k) = IF setting(k) = {} THEN (IF r.console THEN "initial" ELSE NoAttribute)
                             ELSE colourOf(r, r.pieces[chosen(k)].conv)
  BY DEF lastSet
<1>4. ASSUME NEW k \in 0..(n - 1)
      PROVE  lastSet(r, k + 1) = IF r.pieces[k + 1].conv \in Attributes
                                   THEN colourOf(r, r.pieces[k + 1].conv) ELSE lastSet(r, k)
  <2>1. CASE r.pieces[k + 1].conv \in Attributes
    <3>1. k + 1 \in setting(k + 1) /\ \A i \in setting(k + 1) : i <= k + 1
      BY <1>1, <2>1
    <3>2. \A j \in setting(k + 1) : (\A i \in setting(k + 1) : i <= j) => j = k + 1
      BY <1>1, <3>1
    <3>3. chosen(k + 1) = k + 1
      <4> DEFINE S == setting(k + 1)
                 e == k + 1
      <4>1. e \in S /\ (\A i \in S : i <= e) /\ \A j \in S : (\A i \in S : i <= j) => j = e
        BY <3>1, <3>2
      <4>2. (CHOOSE j \in S : \A i \in S : i <= j) = e
        <5> HIDE DEF S, e
        <5> QED
          BY <4>1
      <4> QED
        BY <4>2
    <3> HIDE DEF setting, chosen
    <3> QED
      BY <1>3, <2>1, <3>1, <3>3
  <2>2. CASE r.pieces[k + 1].conv \notin Attributes
    <3>1. setting(k + 1) = setting(k)
      BY <1>1, <2>2
    <3>2. chosen(k + 1) = chosen(k)
      BY <3>1
    <3> HIDE DEF setting, chosen
    <3> QED
      BY <1>3, <2>2, <3>1, <3>2
  <2> QED
    BY <2>1, <2>2
<1>5. ~r.console => \A c : colourOf(r, c) = NoAttribute
  BY DEF colourOf
<1>6. lastSet(r, 0) = IF r.console THEN "initial" ELSE NoAttribute
  <2>1. setting(0) = {}
    OBVIOUS
  <2> HIDE DEF setting, chosen
  <2> QED
    BY <1>3, <2>1
<1> HIDE DEF setting, chosen
<1> DEFINE A == {k \in Nat : k <= n => lastSet(r, k) \in Colours /\ (r.console <=> lastSet(r, k) # NoAttribute)}
<1>7. 0 \in A
  BY <1>6 DEF Colours, NoAttribute
<1>8. ASSUME NEW k \in Nat, k \in A
      PROVE  k + 1 \in A
  <2> SUFFICES ASSUME k + 1 <= n
               PROVE  lastSet(r, k + 1) \in Colours /\ (r.console <=> lastSet(r, k + 1) # NoAttribute)
    OBVIOUS
  <2>1. k \in 0..(n - 1) /\ k <= n
    BY <1>1
  <2>2. lastSet(r, k) \in Colours /\ (r.console <=> lastSet(r, k) # NoAttribute)
    BY <1>8, <2>1
  <2>3. r.pieces[k + 1].conv \in Attributes => r.pieces[k + 1].conv \in {"n", "N", "h", "H", "e", "E"}
    BY DEF Attributes
  <2> QED
    BY <1>2, <1>4, <1>5, <2>1, <2>2, <2>3
<1>9. Nat \subseteq A
  <2> HIDE DEF A
  <2> QED
    BY <1>7, <1>8, StepInduction
<1>10. \A k \in 0..n : lastSet(r, k) \in Colours /\ (r.console <=> lastSet(r, k) # NoAttribute)
  BY <1>1, <1>9
<1>11. ASSUME NEW k \in 1..n
       PROVE  colourIn(r, k) \in Colours
  <2>1. CASE ownColour(r, k)
    <3>1. accepted(r.pieces[k])
      BY PiecesFacts
    <3>2. r.pieces[k].attr \in {"n", "h", "e"}
      BY <2>1, <3>1 DEF accepted, ownColour
    <3>3. r.pieces[k].attr \in {"n", "N", "h", "H", "e", "E"}
      BY <3>2
    <3> QED
      BY <1>2, <2>1, <3>3 DEF colourIn
  <2>2. CASE ~ownColour(r, k)
    <3>1. k - 1 \in 0..n
      BY <1>1
    <3> QED
      BY <1>10, <2>2, <3>1 DEF colourIn
  <2> QED
    BY <2>1, <2>2
<1> QED
  BY <1>2, <1>4, <1>5, <1>10, <1>11

-----------------------------------------------------------------------------
(* What the first k parts of a call are to show. *)
shownBy(r, k) == inAttribute(lines(codeShown(r.pieces[k])), colourIn(r, k))
textTo(r, k) == FlattenSeq([j \in 1..k |-> shownBy(r, j)])

(* The lines of a text are a text.                                          *)
LEMMA LinesInAlphabet ==
  ASSUME NEW chars \in Seq(Alphabet)
  PROVE  lines(chars) \in Seq(Alphabet)
<1>1. PICK t : LinesOf(t, chars)
  BY LinesFacts
<1>2. Len(chars) \in Nat
  OBVIOUS
<1> QED
  BY <1>1, <1>2 DEF LinesOf

(* It grows by what the next part is to show.                               *)
LEMMA TextToFacts ==
  ASSUME NEW r \in Requests
  PROVE  /\ textTo(r, 0) = << >>
         /\ \A k \in 1..Len(r.pieces) : shownBy(r, k) \in Seq(Cells)
         /\ \A k \in 0..Len(r.pieces) :
              textTo(r, k) \in Seq(Cells) /\ \E x \in Seq(Cells) : textTo(r, Len(r.pieces)) = join(textTo(r, k), x)
         /\ \A k \in 0..(Len(r.pieces) - 1) : textTo(r, k + 1) = join(textTo(r, k), shownBy(r, k + 1))
<1> DEFINE n == Len(r.pieces)
           s == [j \in 1..n |-> shownBy(r, j)]
<1>1. n \in Nat
  BY PiecesFacts
<1>2. ASSUME NEW k \in 1..n
      PROVE  shownBy(r, k) \in Seq(Cells)
  <2>1. accepted(r.pieces[k]) /\ colourIn(r, k) \in Colours
    BY PiecesFacts, ColourFacts
  <2>2. codeShown(r.pieces[k]) \in Seq(Alphabet)
    BY <2>1, ShownFacts
  <2>3. lines(codeShown(r.pieces[k])) \in Seq(Alphabet)
    BY <2>2, LinesInAlphabet
  <2> QED
    BY <2>1, <2>3, ColouredFacts DEF shownBy
<1>3. \A k \in 1..n : s[k] \in Seq(Cells) /\ s[k] = shownBy(r, k)
  BY <1>2
<1>4. ASSUME NEW k \in 0..n
      PROVE  textTo(r, k) = FlattenSeq([j \in 1..k |-> s[j]])
  <2>1. [j \in 1..k |-> s[j]] = [j \in 1..k |-> shownBy(r, j)]
    <3>1. \A j \in 1..k : s[j] = shownBy(r, j)
      BY <1>1, <1>3
    <3> HIDE DEF s
    <3> QED
      BY <3>1
  <2> QED
    BY <2>1 DEF textTo
<1> HIDE DEF s, n
<1>5. PICK t : FlatteningOf(t, Cells, n, s)
  BY <1>1, <1>3, FlattenFacts
<1>6. /\ t \in [Nat -> Seq(Cells)] /\ t[0] = << >>
      /\ \A k \in 0..(n - 1) : t[k + 1] = join(t[k], s[k + 1])
      /\ \A k \in 0..n : FlattenSeq([j \in 1..k |-> s[j]]) = t[k]
  BY <1>5 DEF FlatteningOf
<1>7. \A k \in 0..n : \E x \in Seq(Cells) : t[n] = join(t[k], x)
  <2>1. n \in Nat /\ \A k \in 1..n : s[k] \in Seq(Cells)
    BY <1>1, <1>3
  <2>2. Continued(t, Cells, n)
    BY <1>5, <2>1, FlattenedPrefix
  <2> QED
    BY <2>2 DEF Continued
<1>8. \A k \in 0..n : textTo(r, k) = t[k]
  BY <1>4, <1>6
<1>9. /\ 0 \in 0..n /\ n \in 0..n /\ \A k \in 0..n : k \in Nat
      /\ \A k \in 0..(n - 1) : k \in 0..n /\ k + 1 \in 0..n /\ k + 1 \in 1..n
  BY <1>1
<1>10. textTo(r, 0) = << >>
  BY <1>6, <1>8, <1>9
<1>11. \A k \in 0..n : textTo(r, k) \in Seq(Cells) /\ \E x \in Seq(Cells) : textTo(r, n) = join(textTo(r, k), x)
  BY <1>6, <1>7, <1>8, <1>9
<1>12. \A k \in 0..(n - 1) : textTo(r, k + 1) = join(textTo(r, k), shownBy(r, k + 1))
  BY <1>3, <1>6, <1>8, <1>9
<1> QED
  BY <1>2, <1>10, <1>11, <1>12 DEF n

(* Between two parts of a format: the first k have been read and put out. *)
Between(r, k, f, a, o) ==
  /\ f = ahead(r, k) /\ a = given(r, k)
  /\ Emitted(r, o, textTo(r, k)) /\ o.attr = lastSet(r, k)

(* Within a literal text, behind its first j characters. *)
Within(r, k, j, f, a, o) ==
  LET p1 == r.pieces[k + 1]
  IN  /\ p1.conv = "text" /\ f = join(from(p1.value, j), ahead(r, k + 1)) /\ a = given(r, k + 1)
      /\ o.attr = lastSet(r, k)
      /\ \E t : /\ LinesOf(t, p1.value)
                /\ Emitted(r, o, join(textTo(r, k), inAttribute(t[j], lastSet(r, k))))

(* What has been put out is the beginning of what is to be. *)
Fragment(r, o) ==
  \E x, y \in Seq(Cells) : textTo(r, Len(r.pieces)) = join(x, y) /\ Emitted(r, o, x)

(* ... and so is what has been flushed of it.                               *)
LEMMA FragmentIsPrefix ==
  ASSUME NEW r \in Requests, NEW o, Fragment(r, o)
  PROVE  IsPrefix(o.flushed, roomIn(r, textTo(r, Len(r.pieces))))
<1> DEFINE all == textTo(r, Len(r.pieces))
           m == inAttribute(o.buffer, o.attr)
<1>1. PICK x, y \in Seq(Cells) : all = join(x, y) /\ Emitted(r, o, x)
  BY DEF Fragment
<1>2. PICK h \in Seq(Cells) : x = join(h, m) /\ o.flushed = roomIn(r, h)
  BY <1>1 DEF Emitted
<1>3. m \in Seq(Cells)
  BY <1>1, ColouredFacts DEF Emitted, Outs
<1> HIDE DEF m
<1>4. all = join(h, join(m, y)) /\ join(m, y) \in Seq(Cells)
  <2>1. \A u, v, w \in Seq(Cells) : join(join(u, v), w) = join(u, join(v, w))
    BY JoinFacts, Z3
  <2>2. join(m, y) \in Seq(Cells)
    BY <1>1, <1>3, JoinFacts
  <2> QED
    BY <1>1, <1>2, <1>3, <2>1, <2>2
<1> HIDE DEF all
<1> DEFINE z == join(m, y)
<1>5. z \in Seq(Cells) /\ all = join(h, z)
  BY <1>4
<1> HIDE DEF z
<1>6. IsPrefix(roomIn(r, h), roomIn(r, join(h, z)))
  BY <1>5, RoomFacts
<1> QED
  BY <1>2, <1>5, <1>6 DEF all

(* A literal part takes no argument and changes no attribute.               *)
LEMMA TextParts ==
  ASSUME NEW r \in Requests, NEW k \in 0..(Len(r.pieces) - 1), r.pieces[k + 1].conv = "text"
  PROVE  /\ r.pieces[k + 1].value \in Seq(Alphabet)
         /\ \A j \in 1..Len(r.pieces[k + 1].value) : r.pieces[k + 1].value[j] \in Alphabet \ {"%"}
         /\ spelled(r.pieces[k + 1]) = r.pieces[k + 1].value
         /\ given(r, k) = given(r, k + 1)
         /\ shownBy(r, k + 1) = inAttribute(lines(r.pieces[k + 1].value), lastSet(r, k))
         /\ lastSet(r, k + 1) = lastSet(r, k)
<1> DEFINE p1 == r.pieces[k + 1]
<1>1. k + 1 \in 1..Len(r.pieces) /\ (k + 1) - 1 = k /\ k \in 0..Len(r.pieces) /\ k + 1 \in 0..Len(r.pieces)
  BY PiecesFacts
<1>2. accepted(p1)
  BY <1>1, PiecesFacts
<1>3. p1.value \in Seq(Alphabet \ {"%"}) /\ Alphabet \ {"%"} \subseteq Alphabet
  BY <1>2 DEF accepted
<1>4. p1.value \in Seq(Alphabet)
  BY <1>3, SeqMonotonic
<1>5. \A j \in 1..Len(p1.value) : p1.value[j] \in Alphabet \ {"%"}
  <2> DEFINE v == p1.value
             B == Alphabet \ {"%"}
  <2>1. v \in Seq(B)
    BY <1>3
  <2> HIDE DEF v, B
  <2>2. \A j \in 1..Len(v) : v[j] \in B
    BY <2>1
  <2> QED
    BY <2>2 DEF v, B
<1>6. spelled(p1) = p1.value /\ argumentsOf(p1) = << >> /\ codeShown(p1) = p1.value
  <2>1. spelled(p1) = p1.value /\ argumentsOf(p1) = << >>
    BY DEF spelled, argumentsOf
  <2>2. p1.conv \notin Attributes \cup {"end"}
    BY DEF Attributes
  <2>3. codeShown(p1) = p1.value
    BY <2>2 DEF codeShown
  <2> QED
    BY <2>1, <2>3
<1>7. given(r, k) = given(r, k + 1)
  <2>1. given(r, k) = join(argumentsOf(p1), given(r, k + 1)) /\ given(r, k + 1) \in Seq(Values(r))
    BY <1>1, GivenFacts
  <2> QED
    BY <1>6, <2>1, ConcatEmptySeq DEF join
<1>8. colourIn(r, k + 1) = lastSet(r, k)
  <2>1. ~ownColour(r, k + 1)
    BY DEF ownColour
  <2> QED
    BY <1>1, <2>1 DEF colourIn
<1>9. lastSet(r, k + 1) = lastSet(r, k)
  <2>1. p1.conv \notin Attributes
    BY DEF Attributes
  <2> QED
    BY <2>1, ColourFacts
<1> QED
  BY <1>4, <1>5, <1>6, <1>7, <1>8, <1>9 DEF shownBy

(* In front of a literal part nothing of it has been put out.               *)
LEMMA OpensText ==
  ASSUME NEW r \in Requests, NEW k \in 0..(Len(r.pieces) - 1), r.pieces[k + 1].conv = "text",
         NEW f, NEW a, NEW o, Between(r, k, f, a, o)
  PROVE  Within(r, k, 0, f, a, o)
<1> DEFINE v == r.pieces[k + 1].value
           c == lastSet(r, k)
<1>1. v \in Seq(Alphabet) /\ spelled(r.pieces[k + 1]) = v /\ given(r, k) = given(r, k + 1)
  BY TextParts
<1>2. PICK t : LinesOf(t, v)
  <2> HIDE DEF v
  <2> QED
    BY <1>1, LinesFacts
<1>3. t[0] = << >>
  BY <1>2 DEF LinesOf
<1>4. from(v, 0) = v
  <2> HIDE DEF v
  <2> QED
    BY <1>1, FromFacts
<1>5. c \in Colours /\ textTo(r, k) \in Seq(Cells)
  <2>1. k \in 0..Len(r.pieces)
    BY PiecesFacts
  <2> QED
    BY <2>1, ColourFacts, TextToFacts
<1>6. join(textTo(r, k), inAttribute(t[0], c)) = textTo(r, k)
  <2>1. inAttribute(t[0], c) = << >>
    BY <1>3, <1>5, ColouredFacts
  <2> QED
    BY <1>5, <2>1, ConcatEmptySeq DEF join
<1>7. ahead(r, k) = join(v, ahead(r, k + 1))
  BY <1>1, CallFacts
<1> HIDE DEF c, v
<1> QED
  BY <1>1, <1>2, <1>4, <1>6, <1>7 DEF Between, Within, c, v

(* Behind its last character all of it has.                                 *)
LEMMA ClosesText ==
  ASSUME NEW r \in Requests, NEW k \in 0..(Len(r.pieces) - 1),
         NEW f, NEW a, NEW o, Within(r, k, Len(r.pieces[k + 1].value), f, a, o)
  PROVE  Between(r, k + 1, f, a, o)
<1> DEFINE v == r.pieces[k + 1].value
           c == lastSet(r, k)
<1>0. /\ r.pieces[k + 1].conv = "text" /\ f = join(from(v, Len(v)), ahead(r, k + 1)) /\ a = given(r, k + 1)
      /\ o.attr = c
  BY DEF Within
<1>1. v \in Seq(Alphabet) /\ shownBy(r, k + 1) = inAttribute(lines(v), c) /\ lastSet(r, k + 1) = c
  BY <1>0, TextParts
<1>2. PICK t : LinesOf(t, v) /\ Emitted(r, o, join(textTo(r, k), inAttribute(t[Len(v)], c)))
  BY DEF Within
<1>3. t[Len(v)] = lines(v)
  BY <1>2 DEF LinesOf
<1>4. f = ahead(r, k + 1)
  <2>1. from(v, Len(v)) = << >>
    <3> HIDE DEF v
    <3> QED
      BY <1>1, FromFacts
  <2>2. k + 1 \in 0..Len(r.pieces)
    BY PiecesFacts
  <2>3. ahead(r, k + 1) \in Seq(Alphabet)
    BY <2>2, CallFacts
  <2> QED
    BY <1>0, <2>1, <2>3, ConcatEmptySeq DEF join
<1>5. textTo(r, k + 1) = join(textTo(r, k), inAttribute(lines(v), c))
  BY <1>1, TextToFacts
<1> HIDE DEF c, v
<1> QED
  BY <1>0, <1>1, <1>2, <1>3, <1>4, <1>5 DEF Between

(* PlainCharacter puts out the next character of it.                        *)
LEMMA WithinStep ==
  ASSUME request \in Requests, NEW k \in 0..(Len(request.pieces) - 1),
         NEW j \in 0..(Len(request.pieces[k + 1].value) - 1),
         Within(request, k, j, format, arguments, out)
  PROVE  /\ format # << >> /\ Head(format) # "%"
         /\ Within(request, k, j + 1, Tail(format), arguments, PPUTC(out, Head(format)))
<1> DEFINE v == request.pieces[k + 1].value
           c == lastSet(request, k)
           d == v[j + 1]
           rest == ahead(request, k + 1)
           x == textTo(request, k)
           o1 == PPUTC(out, Head(format))
<1>0. /\ request.pieces[k + 1].conv = "text" /\ format = join(from(v, j), rest)
      /\ arguments = given(request, k + 1) /\ out.attr = c
  BY DEF Within
<1>1. v \in Seq(Alphabet) /\ \A e \in 1..Len(v) : v[e] \in Alphabet \ {"%"}
  BY <1>0, TextParts
<1>2. PICK t : LinesOf(t, v) /\ Emitted(request, out, join(x, inAttribute(t[j], c)))
  BY DEF Within
<1>3. j + 1 \in 1..Len(v) /\ j \in Nat /\ j \in 0..Len(v) /\ j \in 0..(Len(v) - 1) /\ j + 1 \in 0..Len(v) /\ j + 1 \in Nat
  BY <1>1
<1>4. d \in Alphabet /\ d # "%"
  BY <1>1, <1>3
<1>5. k \in 0..Len(request.pieces) /\ k + 1 \in 0..Len(request.pieces)
  BY PiecesFacts
<1>6. rest \in Seq(Alphabet) /\ c \in Colours /\ x \in Seq(Cells)
  BY <1>5, CallFacts, ColourFacts, TextToFacts
<1> HIDE DEF v, rest, x, c
<1>7. from(v, j) = join(<<d>>, from(v, j + 1)) /\ from(v, j + 1) \in Seq(Alphabet)
  BY <1>1, <1>3, FromFacts
<1> HIDE DEF d
<1>8. format # << >> /\ Head(format) = d /\ Tail(format) = join(from(v, j + 1), rest)
  <2> DEFINE y == from(v, j + 1)
  <2>1. y \in Seq(Alphabet) /\ format = join(join(<<d>>, y), rest)
    BY <1>0, <1>7
  <2> HIDE DEF y
  <2>2. /\ join(join(<<d>>, y), rest) # << >>
        /\ Head(join(join(<<d>>, y), rest)) = d
        /\ Tail(join(join(<<d>>, y), rest)) = join(y, rest)
    BY <1>4, <1>6, <2>1, HeadOfJoin
  <2> QED
    BY <2>1, <2>2 DEF y
<1>9. t[j + 1] = join(t[j], lineOf(d)) /\ t[j] \in Seq(Alphabet)
  BY <1>2, <1>3 DEF LinesOf, d
<1>10. lineOf(d) \in Seq(Alphabet)
  BY <1>4, LineFacts
<1> DEFINE u == inAttribute(t[j], c)
           w == inAttribute(lineOf(d), c)
<1>11. u \in Seq(Cells) /\ w \in Seq(Cells) /\ inAttribute(t[j + 1], c) = join(u, w)
  BY <1>6, <1>9, <1>10, ColouredFacts
<1> HIDE DEF u, w
<1>12. Emitted(request, o1, join(join(x, u), w)) /\ o1.attr = c
  <2> DEFINE text == join(x, u)
  <2>1. Emitted(request, out, text)
    BY <1>2 DEF u
  <2> HIDE DEF text, o1
  <2>2. Emitted(request, PPUTC(out, d), join(text, inAttribute(lineOf(d), out.attr))) /\ PPUTC(out, d).attr = out.attr
    BY <1>4, <2>1, PutFacts
  <2> QED
    BY <1>0, <1>8, <2>2 DEF w, text, o1
<1>13. join(join(x, u), w) = join(x, inAttribute(t[j + 1], c))
  <2>1. \A q, y, z \in Seq(Cells) : join(join(q, y), z) = join(q, join(y, z))
    BY JoinFacts, Z3
  <2> QED
    BY <1>6, <1>11, <2>1
<1>14. Emitted(request, o1, join(x, inAttribute(t[j + 1], c)))
  BY <1>12, <1>13
<1> HIDE DEF o1
<1> QED
  BY <1>0, <1>2, <1>4, <1>8, <1>12, <1>14 DEF Within, v, rest, x, c, o1

(* Within a literal part, what has been put out is a beginning.             *)
LEMMA WithinIsFragment ==
  ASSUME NEW r \in Requests, NEW k \in 0..(Len(r.pieces) - 1),
         NEW j \in 0..Len(r.pieces[k + 1].value), NEW f, NEW a, NEW o, Within(r, k, j, f, a, o)
  PROVE  Fragment(r, o)
<1> DEFINE v == r.pieces[k + 1].value
           c == lastSet(r, k)
           n == Len(r.pieces)
           x == textTo(r, k)
<1>1. v \in Seq(Alphabet) /\ shownBy(r, k + 1) = inAttribute(lines(v), c)
  BY TextParts DEF Within
<1>2. PICK t : LinesOf(t, v) /\ Emitted(r, o, join(x, inAttribute(t[j], c)))
  BY DEF Within
<1>3. k \in 0..n /\ k + 1 \in 0..n
  BY PiecesFacts
<1>4. c \in Colours /\ x \in Seq(Cells)
  BY <1>3, ColourFacts, TextToFacts
<1>5. textTo(r, k + 1) = join(x, inAttribute(lines(v), c))
  BY <1>1, TextToFacts
<1>6. PICK y \in Seq(Cells) : textTo(r, n) = join(textTo(r, k + 1), y)
  BY <1>3, TextToFacts
<1> HIDE DEF v, c, n, x
<1>7. PICK z \in Seq(Alphabet) : t[Len(v)] = join(t[j], z)
  <2> DEFINE s == [e \in 1..Len(v) |-> lineOf(v[e])]
             l == Len(v)
  <2>1. l \in Nat /\ \A e \in 1..l : s[e] \in Seq(Alphabet)
    <3>1. l \in Nat /\ \A e \in 1..l : v[e] \in Alphabet
      BY <1>1
    <3>2. \A e \in 1..l : lineOf(v[e]) \in Seq(Alphabet)
      BY <3>1, LineFacts
    <3> QED
      BY <3>1, <3>2
  <2>2. FlatteningOf(t, Alphabet, l, s)
    BY <1>2 DEF LinesOf
  <2>4. j \in 0..l
    BY DEF v
  <2> HIDE DEF s, l
  <2>3. Continued(t, Alphabet, l)
    BY <2>1, <2>2, FlattenedPrefix
  <2> QED
    BY <2>3, <2>4 DEF Continued, l
<1>8. t[j] \in Seq(Alphabet) /\ lines(v) = t[Len(v)]
  <2>1. j \in Nat
    BY <1>1 DEF v
  <2> QED
    BY <1>2, <2>1 DEF LinesOf
<1> DEFINE u == inAttribute(t[j], c)
           w == inAttribute(z, c)
<1>9. u \in Seq(Cells) /\ w \in Seq(Cells) /\ inAttribute(lines(v), c) = join(u, w)
  BY <1>4, <1>7, <1>8, ColouredFacts
<1> HIDE DEF u, w
<1>10. textTo(r, n) = join(join(x, u), join(w, y)) /\ join(w, y) \in Seq(Cells) /\ join(x, u) \in Seq(Cells)
  <2>1. \A q, e, b \in Seq(Cells) : join(join(q, e), b) = join(q, join(e, b))
    BY JoinFacts, Z3
  <2>2. join(w, y) \in Seq(Cells) /\ join(x, u) \in Seq(Cells) /\ join(u, w) \in Seq(Cells)
    BY <1>4, <1>6, <1>9, JoinFacts
  <2>3. join(join(join(x, u), w), y) = join(join(x, u), join(w, y))
    BY <1>6, <1>9, <2>1, <2>2
  <2>4. join(join(x, u), w) = join(x, join(u, w))
    BY <1>4, <1>9, <2>1
  <2> QED
    BY <1>5, <1>6, <1>9, <2>2, <2>3, <2>4
<1> QED
  BY <1>2, <1>10 DEF Fragment, n, u

(* So it is between two parts, and within a directive.                      *)
LEMMA BetweenIsFragment ==
  ASSUME NEW r \in Requests, NEW k \in 0..Len(r.pieces), NEW o, Emitted(r, o, textTo(r, k))
  PROVE  Fragment(r, o)
BY TextToFacts DEF Fragment

(* The arguments a directive still takes behind its first m symbols. *)
argsLeft(p1, m) ==
  IF m < 6 THEN argumentsOf(p1)
  ELSE IF m < 10 THEN when(p1.conv \in Taking, <<p1.value>>)
  ELSE << >>

(* The items there are.                                                     *)
Items ==
  [fieldWidth : Int, width : Nat, parsing : {"width", "fieldWidth"}, pad : Alphabet,
   padBefore : BOOLEAN, comma : BOOLEAN, long : BOOLEAN, restoreAttr : Colours]

(* A flag of an item is set by symbol n. *)
FlagAt(m, n, flag, value, unset) == flag = IF m >= n THEN value ELSE unset

(* The item behind the first m symbols, where c was in force before. *)
ItemAt(p1, c, m, i) ==
  /\ i \in Items
  /\ i.fieldWidth = IF m >= 8 THEN p1.field ELSE Unlimited
  /\ i.width = IF m >= 6 THEN p1.width ELSE 0
  /\ i.parsing = IF m >= 7 /\ p1.field # Unlimited THEN "fieldWidth" ELSE "width"
  /\ i.pad = IF m >= 3 /\ p1.zero THEN "0" ELSE Blank
  /\ FlagAt(m, 4, i.padBefore, ~p1.left, TRUE)
  /\ FlagAt(m, 5, i.comma, p1.comma, FALSE)
  /\ FlagAt(m, 9, i.long, p1.long, FALSE)
  /\ i.restoreAttr = IF m >= 2 /\ p1.attr # NoAttribute THEN c ELSE NoAttribute

(* Within the directive that is part k + 1, behind its first m symbols. *)
InDirective(r, k, m, f, a, i, o) ==
  LET p1 == r.pieces[k + 1]
  IN  /\ p1.conv # "text" /\ (m = 10 => p1.conv = "end")
      /\ f = join(left(p1, m), ahead(r, k + 1))
      /\ a = join(argsLeft(p1, m), given(r, k + 1))
      /\ ItemAt(p1, lastSet(r, k), m, i)
      /\ o.attr = IF m >= 2 /\ p1.attr # NoAttribute THEN colourOf(r, p1.attr) ELSE lastSet(r, k)
      /\ Emitted(r, o, textTo(r, k))

(* The part that is being read and what surrounds it.                       *)
LEMMA DirectiveParts ==
  ASSUME NEW r \in Requests, NEW k \in 0..(Len(r.pieces) - 1)
  PROVE  /\ accepted(r.pieces[k + 1])
         /\ k \in 0..Len(r.pieces) /\ k + 1 \in 0..Len(r.pieces) /\ k + 1 \in 1..Len(r.pieces)
         /\ ahead(r, k + 1) \in Seq(Alphabet) /\ given(r, k + 1) \in Seq(Values(r))
         /\ lastSet(r, k) \in Colours /\ textTo(r, k) \in Seq(Cells)
<1>1. k \in 0..Len(r.pieces) /\ k + 1 \in 0..Len(r.pieces) /\ k + 1 \in 1..Len(r.pieces)
  BY PiecesFacts
<1> QED
  BY <1>1, PiecesFacts, CallFacts, GivenFacts, ColourFacts, TextToFacts

(* The fields of a directive.                                               *)
LEMMA AcceptedDirective ==
  ASSUME NEW p1, accepted(p1), p1.conv # "text"
  PROVE  /\ p1.attr \in {NoAttribute, "n", "h", "e"}
         /\ p1.zero \in BOOLEAN /\ p1.left \in BOOLEAN /\ p1.comma \in BOOLEAN
         /\ p1.star \in BOOLEAN /\ p1.long \in BOOLEAN
         /\ p1.width \in Nat /\ (~p1.star => p1.width < 100)
         /\ p1.field \in {Unlimited} \cup 1..99
BY DEF accepted

(* The character that stands ahead within a directive. *)
LEMMA SymbolAhead ==
  ASSUME NEW p1, accepted(p1), p1.conv # "text", NEW m \in 0..9, NEW rest \in Seq(Alphabet),
         NEW c \in Alphabet, symbols(p1)[m + 1] = <<c>>
  PROVE  /\ join(left(p1, m), rest) # << >> /\ Head(join(left(p1, m), rest)) = c
         /\ Tail(join(left(p1, m), rest)) = join(left(p1, m + 1), rest)
<1> DEFINE f == join(left(p1, m), rest)
           y == left(p1, m + 1)
           s == symbols(p1)[m + 1]
<1>1. left(p1, m) = join(s, y)
  BY LeftFacts
<1>2. m + 1 \in 0..10
  OBVIOUS
<1>3. y \in Seq(Alphabet)
  BY <1>2, LeftFacts
<1>4. s = <<c>>
  OBVIOUS
<1>50. f = join(left(p1, m), rest)
  OBVIOUS
<1> HIDE DEF y, s, f
<1>5. f = join(join(<<c>>, y), rest)
  BY <1>1, <1>4, <1>50
<1>6. /\ join(join(<<c>>, y), rest) # << >>
      /\ Head(join(join(<<c>>, y), rest)) = c
      /\ Tail(join(join(<<c>>, y), rest)) = join(y, rest)
  BY <1>3, HeadOfJoin
<1> QED
  BY <1>5, <1>6 DEF y, f

(* The symbols that can be missing. *)
LEMMA MissingSymbols ==
  ASSUME NEW p1, accepted(p1), p1.conv # "text"
  PROVE  /\ symbols(p1)[2] = << >> <=> p1.attr = NoAttribute
         /\ symbols(p1)[3] = << >> <=> ~p1.zero
         /\ symbols(p1)[4] = << >> <=> ~p1.left
         /\ symbols(p1)[5] = << >> <=> ~p1.comma
         /\ symbols(p1)[6] = << >> <=> ~p1.star /\ p1.width = 0
         /\ symbols(p1)[7] = << >> <=> p1.field = Unlimited
         /\ symbols(p1)[8] = << >> <=> p1.field = Unlimited
         /\ symbols(p1)[9] = << >> <=> ~p1.long
         /\ symbols(p1)[10] = << >> <=> p1.conv = "end"
<1>1. \A c : <<c>> # << >>
  OBVIOUS
<1>2. \A n \in 1..99 : decimal(n) # << >>
  <2> TAKE n \in 1..99
  <2> DEFINE d == decimal(n)
  <2>1. d \in Seq(Alphabet) /\ Len(d) \in {1, 2}
    BY DecimalFacts
  <2> HIDE DEF d
  <2>2. d # << >>
    BY <2>1
  <2> QED
    BY <2>2 DEF d
<1>3. p1.field # Unlimited => p1.field \in 1..99
  BY AcceptedDirective
<1>4. ~p1.star /\ p1.width # 0 => p1.width \in 1..99
  BY AcceptedDirective
<1>5. /\ symbols(p1)[2] = << >> <=> p1.attr = NoAttribute
      /\ symbols(p1)[3] = << >> <=> ~p1.zero
      /\ symbols(p1)[4] = << >> <=> ~p1.left
  BY <1>1, SymbolsFacts DEF when
<1>6. /\ symbols(p1)[5] = << >> <=> ~p1.comma
      /\ symbols(p1)[7] = << >> <=> p1.field = Unlimited
      /\ symbols(p1)[9] = << >> <=> ~p1.long
  BY <1>1, SymbolsFacts DEF when
<1>7. symbols(p1)[10] = << >> <=> p1.conv = "end"
  BY <1>1, SymbolsFacts DEF when
<1>8. symbols(p1)[8] = << >> <=> p1.field = Unlimited
  BY <1>2, <1>3, SymbolsFacts DEF when
<1>9. symbols(p1)[6] = << >> <=> ~p1.star /\ p1.width = 0
  <2>1. <<"*">> # << >>
    OBVIOUS
  <2> QED
    BY <1>2, <1>4, <2>1, SymbolsFacts DEF when
<1> QED
  BY <1>5, <1>6, <1>7, <1>8, <1>9

(* What a missing symbol would have set stays as it was. *)
LEMMA FlagSkips ==
  ASSUME NEW m \in Nat, NEW n \in Nat, NEW flag, NEW value, NEW unset, FlagAt(m, n, flag, value, unset),
         m + 1 = n => value = unset
  PROVE  FlagAt(m + 1, n, flag, value, unset)
<1>1. CASE m + 1 = n
  BY <1>1 DEF FlagAt
<1>2. CASE m + 1 # n
  <2>1. m >= n <=> m + 1 >= n
    BY <1>2
  <2> QED
    BY <2>1 DEF FlagAt
<1> QED
  BY <1>1, <1>2

(* ... for the three flags.                                                 *)
LEMMA FlagsSkip ==
  ASSUME NEW p1, accepted(p1), p1.conv # "text", NEW m \in 1..9, symbols(p1)[m + 1] = << >>,
         NEW c, NEW i, ItemAt(p1, c, m, i)
  PROVE  /\ FlagAt(m + 1, 4, i.padBefore, ~p1.left, TRUE)
         /\ FlagAt(m + 1, 5, i.comma, p1.comma, FALSE)
         /\ FlagAt(m + 1, 9, i.long, p1.long, FALSE)
<1>1. m + 1 = 4 => ~p1.left
  BY MissingSymbols
<1>2. m + 1 = 4 => (~p1.left) = TRUE
  BY <1>1, Zenon
<1>3. m + 1 = 5 => ~p1.comma
  BY MissingSymbols
<1>4. m + 1 = 5 => p1.comma = FALSE
  BY <1>3, AcceptedDirective, Zenon
<1>5. m + 1 = 9 => ~p1.long
  BY MissingSymbols
<1>6. m + 1 = 9 => p1.long = FALSE
  BY <1>5, AcceptedDirective, Zenon
<1> DEFINE l == ~p1.left
           y == TRUE
           z == FALSE
<1>7. FlagAt(m, 4, i.padBefore, l, y) /\ FlagAt(m, 5, i.comma, p1.comma, z) /\ FlagAt(m, 9, i.long, p1.long, z)
  BY DEF ItemAt
<1>8. (m + 1 = 4 => l = y) /\ (m + 1 = 5 => p1.comma = z) /\ (m + 1 = 9 => p1.long = z)
  BY <1>2, <1>4, <1>6, Zenon
<1>9. m \in Nat /\ 4 \in Nat /\ 5 \in Nat /\ 9 \in Nat
  OBVIOUS
<1> HIDE DEF l, y, z
<1>10. FlagAt(m + 1, 4, i.padBefore, l, y)
  BY <1>7, <1>8, <1>9, FlagSkips
<1>11. FlagAt(m + 1, 5, i.comma, p1.comma, z)
  BY <1>7, <1>8, <1>9, FlagSkips
<1>12. FlagAt(m + 1, 9, i.long, p1.long, z)
  BY <1>7, <1>8, <1>9, FlagSkips
<1> QED
  BY <1>10, <1>11, <1>12, Zenon DEF l, y, z

(* ... for the whole item.                                                  *)
LEMMA ItemSkips ==
  ASSUME NEW p1, accepted(p1), p1.conv # "text", NEW m \in 1..9, symbols(p1)[m + 1] = << >>,
         NEW c, NEW i, ItemAt(p1, c, m, i)
  PROVE  ItemAt(p1, c, m + 1, i)
<1>1. /\ FlagAt(m + 1, 4, i.padBefore, ~p1.left, TRUE)
      /\ FlagAt(m + 1, 5, i.comma, p1.comma, FALSE)
      /\ FlagAt(m + 1, 9, i.long, p1.long, FALSE)
  BY FlagsSkip
<1>2. m = 1 => p1.attr = NoAttribute
  BY MissingSymbols
<1>3. m = 2 => ~p1.zero
  BY MissingSymbols
<1>4. m = 5 => p1.width = 0
  BY MissingSymbols
<1>5. m = 6 \/ m = 7 => p1.field = Unlimited
  BY MissingSymbols
<1>6. /\ i \in Items
      /\ i.fieldWidth = IF m >= 8 THEN p1.field ELSE Unlimited
      /\ i.width = IF m >= 6 THEN p1.width ELSE 0
      /\ i.parsing = IF m >= 7 /\ p1.field # Unlimited THEN "fieldWidth" ELSE "width"
      /\ i.pad = IF m >= 3 /\ p1.zero THEN "0" ELSE Blank
      /\ i.restoreAttr = IF m >= 2 /\ p1.attr # NoAttribute THEN c ELSE NoAttribute
  BY DEF ItemAt
<1>7. i.fieldWidth = IF m + 1 >= 8 THEN p1.field ELSE Unlimited
  BY <1>5, <1>6
<1>8. i.width = IF m + 1 >= 6 THEN p1.width ELSE 0
  BY <1>4, <1>6
<1>9. i.parsing = IF m + 1 >= 7 /\ p1.field # Unlimited THEN "fieldWidth" ELSE "width"
  BY <1>5, <1>6
<1>10. i.pad = IF m + 1 >= 3 /\ p1.zero THEN "0" ELSE Blank
  BY <1>3, <1>6
<1>11. i.restoreAttr = IF m + 1 >= 2 /\ p1.attr # NoAttribute THEN c ELSE NoAttribute
  BY <1>2, <1>6
<1> QED
  BY <1>1, <1>6, <1>7, <1>8, <1>9, <1>10, <1>11 DEF ItemAt

(* A missing symbol takes no argument.                                      *)
LEMMA ArgumentsSkip ==
  ASSUME NEW p1, accepted(p1), p1.conv # "text", NEW m \in 1..9, symbols(p1)[m + 1] = << >>
  PROVE  argsLeft(p1, m + 1) = argsLeft(p1, m)
<1>1. CASE m = 5
  <2>1. ~p1.star
    BY <1>1, MissingSymbols
  <2> DEFINE a == when(p1.conv \in Taking, <<p1.value>>)
             D == {p1.value}
  <2>2. a \in Seq(D)
    <3>1. <<p1.value>> \in Seq(D) /\ << >> \in Seq(D)
      OBVIOUS
    <3> QED
      BY <3>1 DEF when
  <2>3. argumentsOf(p1) = << >> \o a
    BY <2>1 DEF argumentsOf, when
  <2>4. argsLeft(p1, 5) = argumentsOf(p1) /\ argsLeft(p1, 6) = a
    BY DEF argsLeft
  <2> HIDE DEF a, D
  <2>5. << >> \o a = a
    BY <2>2, ConcatEmptySeq
  <2> QED
    BY <1>1, <2>3, <2>4, <2>5
<1>2. CASE m = 9
  <2>1. p1.conv = "end"
    BY <1>2, MissingSymbols
  <2> QED
    BY <1>2, <2>1 DEF argsLeft, when, Taking
<1>3. CASE m # 5 /\ m # 9
  <2>1. CASE m < 5
    BY <2>1 DEF argsLeft
  <2>2. CASE m >= 6 /\ m < 9
    BY <2>2 DEF argsLeft
  <2> QED
    BY <1>3, <2>1, <2>2
<1> QED
  BY <1>1, <1>2, <1>3

(* A directive is behind a missing symbol as soon as it is in front of it.  *)
LEMMA DirectiveSkips ==
  ASSUME NEW r \in Requests, NEW k \in 0..(Len(r.pieces) - 1), NEW m \in 1..9,
         symbols(r.pieces[k + 1])[m + 1] = << >>,
         NEW f, NEW a, NEW i, NEW o, InDirective(r, k, m, f, a, i, o)
  PROVE  InDirective(r, k, m + 1, f, a, i, o)
<1> DEFINE p1 == r.pieces[k + 1]
<1>1. accepted(p1) /\ p1.conv # "text"
  BY DirectiveParts DEF InDirective
<1>2. left(p1, m) = left(p1, m + 1)
  <2>1. m \in 0..9 /\ m + 1 \in 0..10
    OBVIOUS
  <2>2. left(p1, m) = join(symbols(p1)[m + 1], left(p1, m + 1)) /\ left(p1, m + 1) \in Seq(Alphabet)
    BY <1>1, <2>1, LeftFacts
  <2> QED
    BY <2>2, ConcatEmptySeq DEF join
<1>3. argsLeft(p1, m + 1) = argsLeft(p1, m)
  BY <1>1, ArgumentsSkip
<1>4. ItemAt(p1, lastSet(r, k), m + 1, i)
  <2>1. ItemAt(p1, lastSet(r, k), m, i)
    BY DEF InDirective
  <2> HIDE DEF p1
  <2> QED
    BY <1>1, <2>1, ItemSkips DEF p1
<1>5. m = 1 => p1.attr = NoAttribute
  BY <1>1, MissingSymbols
<1>6. m = 9 => p1.conv = "end"
  BY <1>1, MissingSymbols
<1>7. /\ f = join(left(p1, m), ahead(r, k + 1))
      /\ a = join(argsLeft(p1, m), given(r, k + 1))
      /\ o.attr = IF m >= 2 /\ p1.attr # NoAttribute THEN colourOf(r, p1.attr) ELSE lastSet(r, k)
      /\ Emitted(r, o, textTo(r, k))
  BY DEF InDirective
<1>8. o.attr = IF m + 1 >= 2 /\ p1.attr # NoAttribute THEN colourOf(r, p1.attr) ELSE lastSet(r, k)
  <2> HIDE DEF p1
  <2>1. m = 1 \/ m >= 2
    OBVIOUS
  <2> QED
    BY <1>5, <1>7, <2>1
<1>9. m + 1 = 10 => p1.conv = "end"
  BY <1>6
<1> HIDE DEF p1
<1>10. f = join(left(p1, m + 1), ahead(r, k + 1)) /\ a = join(argsLeft(p1, m + 1), given(r, k + 1))
  BY <1>2, <1>3, <1>7
<1> QED
  BY <1>1, <1>4, <1>7, <1>8, <1>9, <1>10 DEF InDirective, p1

(* A directive is always in front of a symbol it has, or at the end of all. *)
Ready(r, k, m, f, a, i, o) ==
  /\ InDirective(r, k, m, f, a, i, o)
  /\ m = 10 \/ symbols(r.pieces[k + 1])[m + 1] # << >>

(* It can be taken to be there.                                             *)
LEMMA DirectiveReady ==
  ASSUME NEW r \in Requests, NEW k \in 0..(Len(r.pieces) - 1), NEW m \in 1..10,
         NEW f, NEW a, NEW i, NEW o, InDirective(r, k, m, f, a, i, o)
  PROVE  \E m1 \in 1..10 : Ready(r, k, m1, f, a, i, o)
<1> DEFINE A == {d \in Nat : \A e \in 1..10 :
                   e = 10 - d /\ InDirective(r, k, e, f, a, i, o) =>
                     \E m1 \in 1..10 : Ready(r, k, m1, f, a, i, o)}
<1>1. 0 \in A
  BY DEF Ready
<1>2. ASSUME NEW d \in Nat, d \in A
      PROVE  d + 1 \in A
  <2> SUFFICES ASSUME NEW e \in 1..10, e = 10 - (d + 1), InDirective(r, k, e, f, a, i, o)
               PROVE  \E m1 \in 1..10 : Ready(r, k, m1, f, a, i, o)
    OBVIOUS
  <2>1. e \in 1..9 /\ e + 1 = 10 - d /\ e + 1 \in 1..10
    OBVIOUS
  <2>2. CASE symbols(r.pieces[k + 1])[e + 1] = << >>
    <3>1. InDirective(r, k, e + 1, f, a, i, o)
      BY <2>1, <2>2, DirectiveSkips
    <3> QED
      BY <1>2, <2>1, <3>1
  <2>3. CASE symbols(r.pieces[k + 1])[e + 1] # << >>
    BY <2>3 DEF Ready
  <2> QED
    BY <2>2, <2>3
<1>3. Nat \subseteq A
  <2> HIDE DEF A
  <2> QED
    BY <1>1, <1>2, StepInduction
<1>4. 10 - m \in Nat /\ m = 10 - (10 - m)
  OBVIOUS
<1> QED
  BY <1>3, <1>4

(* What the conversion of a directive can be. *)
LEMMA ConversionFacts ==
  ASSUME NEW p1, accepted(p1), p1.conv # "text"
  PROVE  /\ p1.conv \notin Modifiers
         /\ p1.conv # "end" => p1.conv \in Alphabet
<1>1. CASE p1.conv \in {"s", "a", "c", "x", "X", "d", "u", "r"}
  <2>1. p1.conv \in Alphabet
    BY <1>1, AlphabetFacts DEF Taking
  <2>2. p1.conv \notin Modifiers
    BY <1>1, DigitChars DEF Modifiers
  <2> QED
    BY <2>1, <2>2
<1>2. CASE p1.conv \notin {"s", "a", "c", "x", "X", "d", "u", "r"}
  <2>1. p1.conv \in (Alphabet \cup {"end"}) \ (Modifiers \cup {"f", "t", "g", "D"})
    BY <1>2 DEF accepted
  <2> HIDE DEF accepted
  <2> QED
    BY <2>1
<1> QED
  BY <1>1, <1>2

(* A symbol that is missing leaves the same characters ahead. *)
LEMMA LeftSkips ==
  ASSUME NEW p1, accepted(p1), p1.conv # "text", NEW m \in 0..9, symbols(p1)[m + 1] = << >>
  PROVE  left(p1, m) = left(p1, m + 1)
<1>1. m + 1 \in 0..10
  OBVIOUS
<1>2. left(p1, m) = join(symbols(p1)[m + 1], left(p1, m + 1)) /\ left(p1, m + 1) \in Seq(Alphabet)
  BY <1>1, LeftFacts
<1> QED
  BY <1>2, ConcatEmptySeq DEF join

(* Behind a number in a directive there is no digit. *)
LEMMA NoDigitFollows ==
  ASSUME NEW p1, accepted(p1), p1.conv # "text", NEW rest \in Seq(Alphabet), p1.conv = "end" => rest = << >>
  PROVE  /\ left(p1, 6) \in Seq(Alphabet) /\ NoDigit(join(left(p1, 6), rest))
         /\ left(p1, 8) \in Seq(Alphabet) /\ NoDigit(join(left(p1, 8), rest))
<1>1. ASSUME NEW m \in 0..9, NEW c \in Alphabet \ DecimalDigits, symbols(p1)[m + 1] = <<c>>
      PROVE  NoDigit(join(left(p1, m), rest))
  <2> DEFINE f == join(left(p1, m), rest)
  <2>0. c \in Alphabet
    OBVIOUS
  <2>1. f # << >> /\ Head(f) = c
    BY <1>1, <2>0, SymbolAhead
  <2>2. f \in Seq(Alphabet)
    <3>1. m \in 0..10
      OBVIOUS
    <3>2. left(p1, m) \in Seq(Alphabet)
      BY <3>1, LeftFacts
    <3> QED
      BY <3>2, JoinFacts
  <2> HIDE DEF f
  <2>3. f[1] = c
    BY <2>1, <2>2
  <2> QED
    BY <2>3 DEF NoDigit, f
<1>2. 6 \in 0..10 /\ 8 \in 0..10
  OBVIOUS
<1>3. left(p1, 6) \in Seq(Alphabet) /\ left(p1, 8) \in Seq(Alphabet)
  BY <1>2, LeftFacts
<1>4. /\ "." \in Alphabet \ DecimalDigits /\ "l" \in Alphabet \ DecimalDigits
      /\ (p1.conv # "end" => p1.conv \in Alphabet \ DecimalDigits)
  <2>1. "." \in Modifiers /\ "l" \in Modifiers /\ DecimalDigits \subseteq Modifiers
    BY DEF Modifiers
  <2>2. "." \notin DecimalDigits /\ "l" \notin DecimalDigits
    BY DigitChars
  <2> QED
    BY <2>1, <2>2, AlphabetFacts, ConversionFacts
<1>8. ASSUME NEW m \in 6..9, symbols(p1)[m + 1] = << >>
      PROVE  left(p1, m) = left(p1, m + 1)
  <2>1. m \in 0..9
    OBVIOUS
  <2> QED
    BY <1>8, <2>1, LeftSkips
<1>9. /\ 6 \in 6..9 /\ 7 \in 6..9 /\ 8 \in 6..9 /\ 9 \in 6..9
      /\ 6 + 1 = 7 /\ 7 + 1 = 8 /\ 8 + 1 = 9 /\ 9 + 1 = 10
  OBVIOUS
<1>5. NoDigit(join(left(p1, 9), rest))
  <2>1. CASE p1.conv = "end"
    <3>1. symbols(p1)[9 + 1] = << >>
      BY <2>1, MissingSymbols
    <3>2. left(p1, 9) = left(p1, 9 + 1) /\ left(p1, 10) = << >>
      BY <3>1, <1>8, <1>9, LeftFacts
    <3>3. << >> \o << >> = << >>
      BY ConcatEmptySeq
    <3>4. join(left(p1, 9), rest) = << >>
      BY <2>1, <3>2, <3>3 DEF join
    <3> QED
      BY <3>4 DEF NoDigit
  <2>2. CASE p1.conv # "end"
    <3>1. symbols(p1)[9 + 1] = <<p1.conv>>
      BY <1>9, <2>2, SymbolsFacts DEF when
    <3>2. p1.conv \in Alphabet \ DecimalDigits /\ 9 \in 0..9
      BY <1>4, <2>2
    <3> QED
      BY <1>1, <3>1, <3>2
  <2> QED
    BY <2>1, <2>2
<1>6. NoDigit(join(left(p1, 8), rest))
  <2>1. CASE ~p1.long
    <3>1. symbols(p1)[8 + 1] = << >>
      BY <2>1, MissingSymbols
    <3>2. left(p1, 8) = left(p1, 8 + 1)
      BY <1>8, <1>9, <3>1
    <3> QED
      BY <1>5, <3>2
  <2>2. CASE p1.long
    <3>1. symbols(p1)[8 + 1] = <<"l">>
      BY <1>9, <2>2, SymbolsFacts DEF when
    <3>2. 8 \in 0..9
      OBVIOUS
    <3> QED
      BY <1>1, <1>4, <3>1, <3>2
  <2> QED
    BY <2>1, <2>2
<1>7. NoDigit(join(left(p1, 6), rest))
  <2>1. CASE p1.field = Unlimited
    <3>1. symbols(p1)[6 + 1] = << >> /\ symbols(p1)[7 + 1] = << >>
      BY <2>1, MissingSymbols
    <3>2. left(p1, 6) = left(p1, 6 + 1)
      BY <1>8, <1>9, <3>1
    <3>3. left(p1, 7) = left(p1, 7 + 1)
      BY <1>8, <1>9, <3>1
    <3> QED
      BY <1>6, <3>2, <3>3
  <2>2. CASE p1.field # Unlimited
    <3>1. symbols(p1)[6 + 1] = <<".">>
      BY <1>9, <2>2, SymbolsFacts DEF when
    <3>2. 6 \in 0..9
      OBVIOUS
    <3> QED
      BY <1>1, <1>4, <3>1, <3>2
  <2> QED
    BY <2>1, <2>2
<1> QED
  BY <1>3, <1>6, <1>7

-----------------------------------------------------------------------------
(* What a symbol sets is what the item has behind it. *)
LEMMA FlagMoves ==
  ASSUME NEW m \in Nat, NEW n \in Nat, NEW flag, NEW value, NEW unset, FlagAt(m, n, flag, value, unset),
         m + 1 # n
  PROVE  FlagAt(m + 1, n, flag, value, unset)
<1>1. m >= n <=> m + 1 >= n
  OBVIOUS
<1> QED
  BY <1>1 DEF FlagAt

(* ... for the three flags, in front of the symbols of others.              *)
LEMMA FlagsMove ==
  ASSUME NEW p1, NEW m \in Nat, NEW c, NEW i, ItemAt(p1, c, m, i)
  PROVE  /\ m # 3 => FlagAt(m + 1, 4, i.padBefore, ~p1.left, TRUE)
         /\ m # 4 => FlagAt(m + 1, 5, i.comma, p1.comma, FALSE)
         /\ m # 8 => FlagAt(m + 1, 9, i.long, p1.long, FALSE)
<1> DEFINE l == ~p1.left
           y == TRUE
           z == FALSE
<1>1. FlagAt(m, 4, i.padBefore, l, y) /\ FlagAt(m, 5, i.comma, p1.comma, z) /\ FlagAt(m, 9, i.long, p1.long, z)
  BY DEF ItemAt
<1>2. 4 \in Nat /\ 5 \in Nat /\ 9 \in Nat /\ (m # 3 => m + 1 # 4) /\ (m # 4 => m + 1 # 5) /\ (m # 8 => m + 1 # 9)
  OBVIOUS
<1> HIDE DEF l, y, z
<1>3. m # 3 => FlagAt(m + 1, 4, i.padBefore, l, y)
  BY <1>1, <1>2, FlagMoves
<1>4. m # 4 => FlagAt(m + 1, 5, i.comma, p1.comma, z)
  BY <1>1, <1>2, FlagMoves
<1>5. m # 8 => FlagAt(m + 1, 9, i.long, p1.long, z)
  BY <1>1, <1>2, FlagMoves
<1> QED
  BY <1>3, <1>4, <1>5, Zenon DEF l, y, z

(* %n, %h and %e keep what was in force before.                             *)
LEMMA AttrSets ==
  ASSUME NEW p1, accepted(p1), p1.conv # "text", NEW c, NEW i, ItemAt(p1, c, 1, i), p1.attr # NoAttribute, c \in Colours
  PROVE  ItemAt(p1, c, 2, [i EXCEPT !.restoreAttr = c])
<1> DEFINE new == [i EXCEPT !.restoreAttr = c]
<1>0. i \in Items
  BY DEF ItemAt
<1>1. /\ new \in Items /\ new.restoreAttr = c
      /\ new.fieldWidth = i.fieldWidth /\ new.width = i.width /\ new.parsing = i.parsing /\ new.pad = i.pad
      /\ new.padBefore = i.padBefore /\ new.comma = i.comma /\ new.long = i.long
  BY <1>0 DEF Items
<1> HIDE DEF new
<1>2. /\ i.fieldWidth = IF 1 >= 8 THEN p1.field ELSE Unlimited
      /\ i.width = IF 1 >= 6 THEN p1.width ELSE 0
      /\ i.parsing = IF 1 >= 7 /\ p1.field # Unlimited THEN "fieldWidth" ELSE "width"
      /\ i.pad = IF 1 >= 3 /\ p1.zero THEN "0" ELSE Blank
      /\ i.restoreAttr = IF 1 >= 2 /\ p1.attr # NoAttribute THEN c ELSE NoAttribute
  BY DEF ItemAt
<1>3. /\ new.fieldWidth = IF 2 >= 8 THEN p1.field ELSE Unlimited
      /\ new.width = IF 2 >= 6 THEN p1.width ELSE 0
      /\ new.parsing = IF 2 >= 7 /\ p1.field # Unlimited THEN "fieldWidth" ELSE "width"
      /\ new.pad = IF 2 >= 3 /\ p1.zero THEN "0" ELSE Blank
      /\ new.restoreAttr = IF 2 >= 2 /\ p1.attr # NoAttribute THEN c ELSE NoAttribute
  BY <1>1, <1>2
<1>4. 1 \in Nat /\ 1 + 1 = 2 /\ 1 # 3 /\ 1 # 4 /\ 1 # 8
  OBVIOUS
<1>5. FlagAt(1 + 1, 4, i.padBefore, ~p1.left, TRUE) /\ FlagAt(1 + 1, 5, i.comma, p1.comma, FALSE) /\ FlagAt(1 + 1, 9, i.long, p1.long, FALSE)
  BY <1>4, FlagsMove
<1>6. FlagAt(2, 4, new.padBefore, ~p1.left, TRUE) /\ FlagAt(2, 5, new.comma, p1.comma, FALSE) /\ FlagAt(2, 9, new.long, p1.long, FALSE)
  BY <1>1, <1>4, <1>5, Zenon
<1> QED
  BY <1>1, <1>3, <1>6 DEF ItemAt, new

(* 0 sets what pads.                                                        *)
LEMMA ZeroSets ==
  ASSUME NEW p1, accepted(p1), p1.conv # "text", NEW c, NEW i, ItemAt(p1, c, 2, i), p1.zero
  PROVE  ItemAt(p1, c, 3, [i EXCEPT !.pad = "0"])
<1> DEFINE new == [i EXCEPT !.pad = "0"]
<1>0. i \in Items
  BY DEF ItemAt
<1>00. "0" \in Alphabet
  <2>1. "0" \in Modifiers
    BY DigitChars DEF Modifiers
  <2> QED
    BY <2>1, AlphabetFacts
<1>1. /\ new \in Items /\ new.pad = "0"
      /\ new.fieldWidth = i.fieldWidth /\ new.width = i.width /\ new.parsing = i.parsing /\ new.restoreAttr = i.restoreAttr
      /\ new.padBefore = i.padBefore /\ new.comma = i.comma /\ new.long = i.long
  BY <1>0, <1>00 DEF Items
<1> HIDE DEF new
<1>2. /\ i.fieldWidth = IF 2 >= 8 THEN p1.field ELSE Unlimited
      /\ i.width = IF 2 >= 6 THEN p1.width ELSE 0
      /\ i.parsing = IF 2 >= 7 /\ p1.field # Unlimited THEN "fieldWidth" ELSE "width"
      /\ i.pad = IF 2 >= 3 /\ p1.zero THEN "0" ELSE Blank
      /\ i.restoreAttr = IF 2 >= 2 /\ p1.attr # NoAttribute THEN c ELSE NoAttribute
  BY DEF ItemAt
<1>3. /\ new.fieldWidth = IF 3 >= 8 THEN p1.field ELSE Unlimited
      /\ new.width = IF 3 >= 6 THEN p1.width ELSE 0
      /\ new.parsing = IF 3 >= 7 /\ p1.field # Unlimited THEN "fieldWidth" ELSE "width"
      /\ new.pad = IF 3 >= 3 /\ p1.zero THEN "0" ELSE Blank
      /\ new.restoreAttr = IF 3 >= 2 /\ p1.attr # NoAttribute THEN c ELSE NoAttribute
  BY <1>1, <1>2
<1>4. 2 \in Nat /\ 2 + 1 = 3 /\ 2 # 3 /\ 2 # 4 /\ 2 # 8
  OBVIOUS
<1>5. FlagAt(2 + 1, 4, i.padBefore, ~p1.left, TRUE) /\ FlagAt(2 + 1, 5, i.comma, p1.comma, FALSE) /\ FlagAt(2 + 1, 9, i.long, p1.long, FALSE)
  BY <1>4, FlagsMove
<1>6. FlagAt(3, 4, new.padBefore, ~p1.left, TRUE) /\ FlagAt(3, 5, new.comma, p1.comma, FALSE) /\ FlagAt(3, 9, new.long, p1.long, FALSE)
  BY <1>1, <1>4, <1>5, Zenon
<1> QED
  BY <1>1, <1>3, <1>6 DEF ItemAt, new

(* - sets the side.                                                         *)
LEMMA LeftSets ==
  ASSUME NEW p1, accepted(p1), p1.conv # "text", NEW c, NEW i, ItemAt(p1, c, 3, i), p1.left
  PROVE  ItemAt(p1, c, 4, [i EXCEPT !.padBefore = FALSE])
<1> DEFINE new == [i EXCEPT !.padBefore = FALSE]
<1>0. i \in Items
  BY DEF ItemAt
<1>1. /\ new \in Items /\ new.padBefore = FALSE
      /\ new.fieldWidth = i.fieldWidth /\ new.width = i.width /\ new.parsing = i.parsing /\ new.pad = i.pad /\ new.restoreAttr = i.restoreAttr
      /\ new.comma = i.comma /\ new.long = i.long
  BY <1>0 DEF Items
<1> HIDE DEF new
<1>2. /\ i.fieldWidth = IF 3 >= 8 THEN p1.field ELSE Unlimited
      /\ i.width = IF 3 >= 6 THEN p1.width ELSE 0
      /\ i.parsing = IF 3 >= 7 /\ p1.field # Unlimited THEN "fieldWidth" ELSE "width"
      /\ i.pad = IF 3 >= 3 /\ p1.zero THEN "0" ELSE Blank
      /\ i.restoreAttr = IF 3 >= 2 /\ p1.attr # NoAttribute THEN c ELSE NoAttribute
  BY DEF ItemAt
<1>3. /\ new.fieldWidth = IF 4 >= 8 THEN p1.field ELSE Unlimited
      /\ new.width = IF 4 >= 6 THEN p1.width ELSE 0
      /\ new.parsing = IF 4 >= 7 /\ p1.field # Unlimited THEN "fieldWidth" ELSE "width"
      /\ new.pad = IF 4 >= 3 /\ p1.zero THEN "0" ELSE Blank
      /\ new.restoreAttr = IF 4 >= 2 /\ p1.attr # NoAttribute THEN c ELSE NoAttribute
  BY <1>1, <1>2
<1>4. 3 \in Nat /\ 3 + 1 = 4 /\ 3 # 4 /\ 3 # 8
  OBVIOUS
<1>5. FlagAt(3 + 1, 5, i.comma, p1.comma, FALSE) /\ FlagAt(3 + 1, 9, i.long, p1.long, FALSE)
  BY <1>4, FlagsMove
<1>6. FlagAt(4, 5, new.comma, p1.comma, FALSE) /\ FlagAt(4, 9, new.long, p1.long, FALSE)
  BY <1>1, <1>4, <1>5, Zenon
<1>7. ~p1.left = FALSE
  BY AcceptedDirective, Zenon
<1>8. FlagAt(4, 4, new.padBefore, ~p1.left, TRUE)
  <2> DEFINE l == ~p1.left
  <2>1. new.padBefore = l
    BY <1>1, <1>7, Zenon
  <2> HIDE DEF l
  <2>2. FlagAt(4, 4, new.padBefore, l, TRUE)
    BY <2>1 DEF FlagAt
  <2> QED
    BY <2>2, Zenon DEF l
<1> QED
  BY <1>1, <1>3, <1>6, <1>8 DEF ItemAt, new

(* A comma sets the commas.                                                 *)
LEMMA CommaSets ==
  ASSUME NEW p1, accepted(p1), p1.conv # "text", NEW c, NEW i, ItemAt(p1, c, 4, i), p1.comma
  PROVE  ItemAt(p1, c, 5, [i EXCEPT !.comma = TRUE])
<1> DEFINE new == [i EXCEPT !.comma = TRUE]
<1>0. i \in Items
  BY DEF ItemAt
<1>1. /\ new \in Items /\ new.comma = TRUE
      /\ new.fieldWidth = i.fieldWidth /\ new.width = i.width /\ new.parsing = i.parsing /\ new.pad = i.pad /\ new.restoreAttr = i.restoreAttr
      /\ new.padBefore = i.padBefore /\ new.long = i.long
  BY <1>0 DEF Items
<1> HIDE DEF new
<1>2. /\ i.fieldWidth = IF 4 >= 8 THEN p1.field ELSE Unlimited
      /\ i.width = IF 4 >= 6 THEN p1.width ELSE 0
      /\ i.parsing = IF 4 >= 7 /\ p1.field # Unlimited THEN "fieldWidth" ELSE "width"
      /\ i.pad = IF 4 >= 3 /\ p1.zero THEN "0" ELSE Blank
      /\ i.restoreAttr = IF 4 >= 2 /\ p1.attr # NoAttribute THEN c ELSE NoAttribute
  BY DEF ItemAt
<1>3. /\ new.fieldWidth = IF 5 >= 8 THEN p1.field ELSE Unlimited
      /\ new.width = IF 5 >= 6 THEN p1.width ELSE 0
      /\ new.parsing = IF 5 >= 7 /\ p1.field # Unlimited THEN "fieldWidth" ELSE "width"
      /\ new.pad = IF 5 >= 3 /\ p1.zero THEN "0" ELSE Blank
      /\ new.restoreAttr = IF 5 >= 2 /\ p1.attr # NoAttribute THEN c ELSE NoAttribute
  BY <1>1, <1>2
<1>4. 4 \in Nat /\ 4 + 1 = 5 /\ 4 # 3 /\ 4 # 8
  OBVIOUS
<1>5. FlagAt(4 + 1, 4, i.padBefore, ~p1.left, TRUE) /\ FlagAt(4 + 1, 9, i.long, p1.long, FALSE)
  BY <1>4, FlagsMove
<1>6. FlagAt(5, 4, new.padBefore, ~p1.left, TRUE) /\ FlagAt(5, 9, new.long, p1.long, FALSE)
  BY <1>1, <1>4, <1>5, Zenon
<1>7. p1.comma = TRUE
  BY AcceptedDirective, Zenon
<1>8. FlagAt(5, 5, new.comma, p1.comma, FALSE)
  <2> DEFINE l == p1.comma
  <2>1. new.comma = l
    BY <1>1, <1>7, Zenon
  <2> HIDE DEF l
  <2>2. FlagAt(5, 5, new.comma, l, FALSE)
    BY <2>1 DEF FlagAt
  <2> QED
    BY <2>2, Zenon DEF l
<1> QED
  BY <1>1, <1>3, <1>6, <1>8 DEF ItemAt, new

(* A number or a star sets the width.                                       *)
LEMMA WidthSets ==
  ASSUME NEW p1, accepted(p1), p1.conv # "text", NEW c, NEW i, ItemAt(p1, c, 5, i), p1.width \in Nat
  PROVE  ItemAt(p1, c, 6, [i EXCEPT !.width = p1.width])
<1> DEFINE new == [i EXCEPT !.width = p1.width]
<1>0. i \in Items
  BY DEF ItemAt
<1>1. /\ new \in Items /\ new.width = p1.width
      /\ new.fieldWidth = i.fieldWidth /\ new.parsing = i.parsing /\ new.pad = i.pad /\ new.restoreAttr = i.restoreAttr
      /\ new.padBefore = i.padBefore /\ new.comma = i.comma /\ new.long = i.long
  BY <1>0 DEF Items
<1> HIDE DEF new
<1>2. /\ i.fieldWidth = IF 5 >= 8 THEN p1.field ELSE Unlimited
      /\ i.width = IF 5 >= 6 THEN p1.width ELSE 0
      /\ i.parsing = IF 5 >= 7 /\ p1.field # Unlimited THEN "fieldWidth" ELSE "width"
      /\ i.pad = IF 5 >= 3 /\ p1.zero THEN "0" ELSE Blank
      /\ i.restoreAttr = IF 5 >= 2 /\ p1.attr # NoAttribute THEN c ELSE NoAttribute
  BY DEF ItemAt
<1>3. /\ new.fieldWidth = IF 6 >= 8 THEN p1.field ELSE Unlimited
      /\ new.width = IF 6 >= 6 THEN p1.width ELSE 0
      /\ new.parsing = IF 6 >= 7 /\ p1.field # Unlimited THEN "fieldWidth" ELSE "width"
      /\ new.pad = IF 6 >= 3 /\ p1.zero THEN "0" ELSE Blank
      /\ new.restoreAttr = IF 6 >= 2 /\ p1.attr # NoAttribute THEN c ELSE NoAttribute
  BY <1>1, <1>2
<1>4. 5 \in Nat /\ 5 + 1 = 6 /\ 5 # 3 /\ 5 # 4 /\ 5 # 8
  OBVIOUS
<1>5. FlagAt(5 + 1, 4, i.padBefore, ~p1.left, TRUE) /\ FlagAt(5 + 1, 5, i.comma, p1.comma, FALSE) /\ FlagAt(5 + 1, 9, i.long, p1.long, FALSE)
  BY <1>4, FlagsMove
<1>6. FlagAt(6, 4, new.padBefore, ~p1.left, TRUE) /\ FlagAt(6, 5, new.comma, p1.comma, FALSE) /\ FlagAt(6, 9, new.long, p1.long, FALSE)
  BY <1>1, <1>4, <1>5, Zenon
<1> QED
  BY <1>1, <1>3, <1>6 DEF ItemAt, new

(* A period sends the next number to the field width.                       *)
LEMMA DotSets ==
  ASSUME NEW p1, accepted(p1), p1.conv # "text", NEW c, NEW i, ItemAt(p1, c, 6, i), p1.field # Unlimited
  PROVE  ItemAt(p1, c, 7, [i EXCEPT !.parsing = "fieldWidth"])
<1> DEFINE new == [i EXCEPT !.parsing = "fieldWidth"]
<1>0. i \in Items
  BY DEF ItemAt
<1>1. /\ new \in Items /\ new.parsing = "fieldWidth"
      /\ new.fieldWidth = i.fieldWidth /\ new.width = i.width /\ new.pad = i.pad /\ new.restoreAttr = i.restoreAttr
      /\ new.padBefore = i.padBefore /\ new.comma = i.comma /\ new.long = i.long
  BY <1>0 DEF Items
<1> HIDE DEF new
<1>2. /\ i.fieldWidth = IF 6 >= 8 THEN p1.field ELSE Unlimited
      /\ i.width = IF 6 >= 6 THEN p1.width ELSE 0
      /\ i.parsing = IF 6 >= 7 /\ p1.field # Unlimited THEN "fieldWidth" ELSE "width"
      /\ i.pad = IF 6 >= 3 /\ p1.zero THEN "0" ELSE Blank
      /\ i.restoreAttr = IF 6 >= 2 /\ p1.attr # NoAttribute THEN c ELSE NoAttribute
  BY DEF ItemAt
<1>3. /\ new.fieldWidth = IF 7 >= 8 THEN p1.field ELSE Unlimited
      /\ new.width = IF 7 >= 6 THEN p1.width ELSE 0
      /\ new.parsing = IF 7 >= 7 /\ p1.field # Unlimited THEN "fieldWidth" ELSE "width"
      /\ new.pad = IF 7 >= 3 /\ p1.zero THEN "0" ELSE Blank
      /\ new.restoreAttr = IF 7 >= 2 /\ p1.attr # NoAttribute THEN c ELSE NoAttribute
  BY <1>1, <1>2
<1>4. 6 \in Nat /\ 6 + 1 = 7 /\ 6 # 3 /\ 6 # 4 /\ 6 # 8
  OBVIOUS
<1>5. FlagAt(6 + 1, 4, i.padBefore, ~p1.left, TRUE) /\ FlagAt(6 + 1, 5, i.comma, p1.comma, FALSE) /\ FlagAt(6 + 1, 9, i.long, p1.long, FALSE)
  BY <1>4, FlagsMove
<1>6. FlagAt(7, 4, new.padBefore, ~p1.left, TRUE) /\ FlagAt(7, 5, new.comma, p1.comma, FALSE) /\ FlagAt(7, 9, new.long, p1.long, FALSE)
  BY <1>1, <1>4, <1>5, Zenon
<1> QED
  BY <1>1, <1>3, <1>6 DEF ItemAt, new

(* ... where it arrives.                                                    *)
LEMMA FieldSets ==
  ASSUME NEW p1, accepted(p1), p1.conv # "text", NEW c, NEW i, ItemAt(p1, c, 7, i), p1.field \in Int
  PROVE  ItemAt(p1, c, 8, [i EXCEPT !.fieldWidth = p1.field])
<1> DEFINE new == [i EXCEPT !.fieldWidth = p1.field]
<1>0. i \in Items
  BY DEF ItemAt
<1>1. /\ new \in Items /\ new.fieldWidth = p1.field
      /\ new.width = i.width /\ new.parsing = i.parsing /\ new.pad = i.pad /\ new.restoreAttr = i.restoreAttr
      /\ new.padBefore = i.padBefore /\ new.comma = i.comma /\ new.long = i.long
  BY <1>0 DEF Items
<1> HIDE DEF new
<1>2. /\ i.fieldWidth = IF 7 >= 8 THEN p1.field ELSE Unlimited
      /\ i.width = IF 7 >= 6 THEN p1.width ELSE 0
      /\ i.parsing = IF 7 >= 7 /\ p1.field # Unlimited THEN "fieldWidth" ELSE "width"
      /\ i.pad = IF 7 >= 3 /\ p1.zero THEN "0" ELSE Blank
      /\ i.restoreAttr = IF 7 >= 2 /\ p1.attr # NoAttribute THEN c ELSE NoAttribute
  BY DEF ItemAt
<1>3. /\ new.fieldWidth = IF 8 >= 8 THEN p1.field ELSE Unlimited
      /\ new.width = IF 8 >= 6 THEN p1.width ELSE 0
      /\ new.parsing = IF 8 >= 7 /\ p1.field # Unlimited THEN "fieldWidth" ELSE "width"
      /\ new.pad = IF 8 >= 3 /\ p1.zero THEN "0" ELSE Blank
      /\ new.restoreAttr = IF 8 >= 2 /\ p1.attr # NoAttribute THEN c ELSE NoAttribute
  BY <1>1, <1>2
<1>4. 7 \in Nat /\ 7 + 1 = 8 /\ 7 # 3 /\ 7 # 4 /\ 7 # 8
  OBVIOUS
<1>5. FlagAt(7 + 1, 4, i.padBefore, ~p1.left, TRUE) /\ FlagAt(7 + 1, 5, i.comma, p1.comma, FALSE) /\ FlagAt(7 + 1, 9, i.long, p1.long, FALSE)
  BY <1>4, FlagsMove
<1>6. FlagAt(8, 4, new.padBefore, ~p1.left, TRUE) /\ FlagAt(8, 5, new.comma, p1.comma, FALSE) /\ FlagAt(8, 9, new.long, p1.long, FALSE)
  BY <1>1, <1>4, <1>5, Zenon
<1> QED
  BY <1>1, <1>3, <1>6 DEF ItemAt, new

(* l sets the length of the argument.                                       *)
LEMMA LongSets ==
  ASSUME NEW p1, accepted(p1), p1.conv # "text", NEW c, NEW i, ItemAt(p1, c, 8, i), p1.long
  PROVE  ItemAt(p1, c, 9, [i EXCEPT !.long = TRUE])
<1> DEFINE new == [i EXCEPT !.long = TRUE]
<1>0. i \in Items
  BY DEF ItemAt
<1>1. /\ new \in Items /\ new.long = TRUE
      /\ new.fieldWidth = i.fieldWidth /\ new.width = i.width /\ new.parsing = i.parsing /\ new.pad = i.pad /\ new.restoreAttr = i.restoreAttr
      /\ new.padBefore = i.padBefore /\ new.comma = i.comma
  BY <1>0 DEF Items
<1> HIDE DEF new
<1>2. /\ i.fieldWidth = IF 8 >= 8 THEN p1.field ELSE Unlimited
      /\ i.width = IF 8 >= 6 THEN p1.width ELSE 0
      /\ i.parsing = IF 8 >= 7 /\ p1.field # Unlimited THEN "fieldWidth" ELSE "width"
      /\ i.pad = IF 8 >= 3 /\ p1.zero THEN "0" ELSE Blank
      /\ i.restoreAttr = IF 8 >= 2 /\ p1.attr # NoAttribute THEN c ELSE NoAttribute
  BY DEF ItemAt
<1>3. /\ new.fieldWidth = IF 9 >= 8 THEN p1.field ELSE Unlimited
      /\ new.width = IF 9 >= 6 THEN p1.width ELSE 0
      /\ new.parsing = IF 9 >= 7 /\ p1.field # Unlimited THEN "fieldWidth" ELSE "width"
      /\ new.pad = IF 9 >= 3 /\ p1.zero THEN "0" ELSE Blank
      /\ new.restoreAttr = IF 9 >= 2 /\ p1.attr # NoAttribute THEN c ELSE NoAttribute
  BY <1>1, <1>2
<1>4. 8 \in Nat /\ 8 + 1 = 9 /\ 8 # 3 /\ 8 # 4
  OBVIOUS
<1>5. FlagAt(8 + 1, 4, i.padBefore, ~p1.left, TRUE) /\ FlagAt(8 + 1, 5, i.comma, p1.comma, FALSE)
  BY <1>4, FlagsMove
<1>6. FlagAt(9, 4, new.padBefore, ~p1.left, TRUE) /\ FlagAt(9, 5, new.comma, p1.comma, FALSE)
  BY <1>1, <1>4, <1>5, Zenon
<1>7. p1.long = TRUE
  BY AcceptedDirective, Zenon
<1>8. FlagAt(9, 9, new.long, p1.long, FALSE)
  <2> DEFINE l == p1.long
  <2>1. new.long = l
    BY <1>1, <1>7, Zenon
  <2> HIDE DEF l
  <2>2. FlagAt(9, 9, new.long, l, FALSE)
    BY <2>1 DEF FlagAt
  <2> QED
    BY <2>2, Zenon DEF l
<1> QED
  BY <1>1, <1>3, <1>6, <1>8 DEF ItemAt, new

(* A directive opens. *)
LEMMA NoItemFacts ==
  ASSUME NEW p1, NEW c
  PROVE  ItemAt(p1, c, 1, noItem)
<1> DEFINE i == noItem
<1>1. Blank \in Alphabet
  BY AlphabetFacts
<1>2. i \in Items
  BY <1>1 DEF Items, noItem, Colours, Unlimited
<1>3. /\ i.fieldWidth = Unlimited /\ i.width = 0 /\ i.parsing = "width" /\ i.pad = Blank /\ i.restoreAttr = NoAttribute
      /\ i.padBefore = TRUE /\ i.comma = FALSE /\ i.long = FALSE
  BY DEF noItem
<1> HIDE DEF i
<1>4. i.fieldWidth = (IF 1 >= 8 THEN p1.field ELSE Unlimited) /\ i.width = IF 1 >= 6 THEN p1.width ELSE 0
  BY <1>3
<1>5. i.parsing = (IF 1 >= 7 /\ p1.field # Unlimited THEN "fieldWidth" ELSE "width")
      /\ i.pad = (IF 1 >= 3 /\ p1.zero THEN "0" ELSE Blank)
      /\ i.restoreAttr = (IF 1 >= 2 /\ p1.attr # NoAttribute THEN c ELSE NoAttribute)
  BY <1>3
<1>6. ASSUME NEW n \in {4, 5, 9}, NEW flag, NEW value, NEW unset, flag = unset
      PROVE  FlagAt(1, n, flag, value, unset)
  <2>1. ~(1 >= n)
    OBVIOUS
  <2> QED
    BY <1>6, <2>1 DEF FlagAt
<1>7. 4 \in {4, 5, 9} /\ 5 \in {4, 5, 9} /\ 9 \in {4, 5, 9}
  OBVIOUS
<1> DEFINE l == ~p1.left
<1> HIDE DEF l
<1>8. FlagAt(1, 4, i.padBefore, l, TRUE) /\ FlagAt(1, 5, i.comma, p1.comma, FALSE) /\ FlagAt(1, 9, i.long, p1.long, FALSE)
  BY <1>3, <1>6, <1>7, Zenon
<1> QED
  BY <1>2, <1>4, <1>5, <1>8 DEF ItemAt, i, l

(* Percent has read the first symbol, and the item is fresh.                *)
LEMMA PercentOpens ==
  ASSUME NEW r \in Requests, NEW k \in 0..(Len(r.pieces) - 1), r.pieces[k + 1].conv # "text",
         NEW f, NEW a, NEW o, Between(r, k, f, a, o)
  PROVE  f # << >> /\ Head(f) = "%" /\ InDirective(r, k, 1, Tail(f), a, noItem, o)
<1> DEFINE p1 == r.pieces[k + 1]
           rest == ahead(r, k + 1)
<1>1. accepted(p1) /\ rest \in Seq(Alphabet)
  BY DirectiveParts
<1>2. f = ahead(r, k) /\ a = given(r, k) /\ Emitted(r, o, textTo(r, k)) /\ o.attr = lastSet(r, k)
  BY DEF Between
<1>3. f = join(left(p1, 0), rest)
  <2>1. left(p1, 0) = spelled(p1)
    BY <1>1, LeftFacts
  <2> QED
    BY <1>2, <2>1, CallFacts
<1>4. a = join(argsLeft(p1, 1), given(r, k + 1))
  <2>1. given(r, k) = join(argumentsOf(p1), given(r, k + 1))
    BY GivenFacts
  <2>2. argsLeft(p1, 1) = argumentsOf(p1)
    BY DEF argsLeft
  <2> QED
    BY <1>2, <2>1, <2>2
<1>5. symbols(p1)[0 + 1] = <<"%">> /\ "%" \in Alphabet
  <2>1. 0 + 1 = 1
    OBVIOUS
  <2>2. symbols(p1)[1] = <<"%">>
    BY <1>1, SymbolsFacts
  <2> QED
    BY <2>1, <2>2, AlphabetFacts
<1>6. ItemAt(p1, lastSet(r, k), 1, noItem)
  BY NoItemFacts
<1> DEFINE c == "%"
<1>7. f # << >> /\ Head(f) = c /\ Tail(f) = join(left(p1, 0 + 1), rest)
  <2>1. PICK m \in 0..9 : m = 0
    OBVIOUS
  <2>2. p1.conv # "text" /\ symbols(p1)[m + 1] = <<c>> /\ c \in Alphabet
    BY <1>5, <2>1
  <2> HIDE DEF c, p1, rest
  <2>3. /\ join(left(p1, m), rest) # << >> /\ Head(join(left(p1, m), rest)) = c
        /\ Tail(join(left(p1, m), rest)) = join(left(p1, m + 1), rest)
    BY <1>1, <2>2, SymbolAhead
  <2> QED
    BY <1>3, <2>1, <2>3
<1>8. 0 + 1 = 1 /\ ~(1 >= 2) /\ 1 # 10
  OBVIOUS
<1>9. Tail(f) = join(left(p1, 1), rest)
  BY <1>7, <1>8
<1>10. o.attr = IF 1 >= 2 /\ p1.attr # NoAttribute THEN colourOf(r, p1.attr) ELSE lastSet(r, k)
  BY <1>2, <1>8
<1>11. f # << >> /\ Head(f) = "%"
  BY <1>7
<1>12. p1.conv # "text" /\ (1 = 10 => p1.conv = "end")
  BY <1>8
<1> QED
  BY <1>2, <1>4, <1>6, <1>9, <1>10, <1>11, <1>12 DEF InDirective

-----------------------------------------------------------------------------
(* The characters that stand ahead in front of each symbol. *)
LEMMA ReadySymbol ==
  ASSUME NEW r \in Requests, NEW k \in 0..(Len(r.pieces) - 1), NEW m \in 1..9,
         NEW f, NEW a, NEW i, NEW o, Ready(r, k, m, f, a, i, o),
         NEW c \in Alphabet, symbols(r.pieces[k + 1])[m + 1] = <<c>>
  PROVE  f # << >> /\ Head(f) = c /\ Tail(f) = join(left(r.pieces[k + 1], m + 1), ahead(r, k + 1))
<1> DEFINE p1 == r.pieces[k + 1]
           rest == ahead(r, k + 1)
<1>1. accepted(p1) /\ p1.conv # "text" /\ rest \in Seq(Alphabet) /\ f = join(left(p1, m), rest) /\ m \in 0..9
  BY DirectiveParts DEF Ready, InDirective
<1>2. symbols(p1)[m + 1] = <<c>>
  OBVIOUS
<1> HIDE DEF p1, rest
<1>3. f # << >> /\ Head(f) = c /\ Tail(f) = join(left(p1, m + 1), rest)
  <2>1. PICK e \in 0..9 : e = m
    BY <1>1
  <2>2. f # << >> /\ Head(f) = c /\ Tail(f) = join(left(p1, e + 1), rest)
    BY <1>1, <1>2, <2>1, SymbolAhead
  <2> QED
    BY <2>1, <2>2
<1> QED
  BY <1>3 DEF p1, rest

(* A symbol that is there is what it says of the directive. *)
LEMMA PresentSymbols ==
  ASSUME NEW p1, accepted(p1), p1.conv # "text"
  PROVE  /\ symbols(p1)[1 + 1] # << >> => p1.attr \in {"n", "h", "e"} /\ symbols(p1)[1 + 1] = <<p1.attr>>
         /\ symbols(p1)[2 + 1] # << >> => p1.zero /\ symbols(p1)[2 + 1] = <<"0">>
         /\ symbols(p1)[3 + 1] # << >> => p1.left /\ symbols(p1)[3 + 1] = <<"-">>
         /\ symbols(p1)[4 + 1] # << >> => p1.comma /\ symbols(p1)[4 + 1] = <<",">>
         /\ symbols(p1)[5 + 1] # << >> => \/ p1.star /\ symbols(p1)[5 + 1] = <<"*">>
                                          \/ /\ ~p1.star /\ p1.width \in 1..99
                                             /\ symbols(p1)[5 + 1] = decimal(p1.width)
         /\ symbols(p1)[6 + 1] # << >> => p1.field # Unlimited /\ symbols(p1)[6 + 1] = <<".">>
         /\ symbols(p1)[7 + 1] # << >> => p1.field \in 1..99 /\ symbols(p1)[7 + 1] = decimal(p1.field)
         /\ symbols(p1)[8 + 1] # << >> => p1.long /\ symbols(p1)[8 + 1] = <<"l">>
         /\ symbols(p1)[9 + 1] # << >> => p1.conv # "end" /\ symbols(p1)[9 + 1] = <<p1.conv>>
<1>1. /\ 1 + 1 = 2 /\ 2 + 1 = 3 /\ 3 + 1 = 4 /\ 4 + 1 = 5 /\ 5 + 1 = 6 /\ 6 + 1 = 7
      /\ 7 + 1 = 8 /\ 8 + 1 = 9 /\ 9 + 1 = 10
  OBVIOUS
<1>2. /\ symbols(p1)[1 + 1] # << >> => p1.attr \in {"n", "h", "e"} /\ symbols(p1)[1 + 1] = <<p1.attr>>
      /\ symbols(p1)[2 + 1] # << >> => p1.zero /\ symbols(p1)[2 + 1] = <<"0">>
      /\ symbols(p1)[3 + 1] # << >> => p1.left /\ symbols(p1)[3 + 1] = <<"-">>
  BY <1>1, SymbolsFacts, AcceptedDirective DEF when
<1>3. /\ symbols(p1)[4 + 1] # << >> => p1.comma /\ symbols(p1)[4 + 1] = <<",">>
      /\ symbols(p1)[6 + 1] # << >> => p1.field # Unlimited /\ symbols(p1)[6 + 1] = <<".">>
      /\ symbols(p1)[8 + 1] # << >> => p1.long /\ symbols(p1)[8 + 1] = <<"l">>
  <2>1. symbols(p1)[4 + 1] # << >> => p1.comma /\ symbols(p1)[4 + 1] = <<",">>
    BY <1>1, SymbolsFacts DEF when
  <2>2. symbols(p1)[6 + 1] # << >> => p1.field # Unlimited /\ symbols(p1)[6 + 1] = <<".">>
    BY <1>1, SymbolsFacts DEF when
  <2>3. symbols(p1)[8 + 1] # << >> => p1.long /\ symbols(p1)[8 + 1] = <<"l">>
    BY <1>1, SymbolsFacts DEF when
  <2> QED
    BY <2>1, <2>2, <2>3
<1>4. symbols(p1)[9 + 1] # << >> => p1.conv # "end" /\ symbols(p1)[9 + 1] = <<p1.conv>>
  BY <1>1, SymbolsFacts DEF when
<1>5. symbols(p1)[7 + 1] # << >> => p1.field \in 1..99 /\ symbols(p1)[7 + 1] = decimal(p1.field)
  BY <1>1, SymbolsFacts, AcceptedDirective DEF when
<1>6. symbols(p1)[5 + 1] # << >> => \/ p1.star /\ symbols(p1)[5 + 1] = <<"*">>
                                    \/ /\ ~p1.star /\ p1.width \in 1..99
                                       /\ symbols(p1)[5 + 1] = decimal(p1.width)
  <2> SUFFICES ASSUME symbols(p1)[5 + 1] # << >>
               PROVE  \/ p1.star /\ symbols(p1)[5 + 1] = <<"*">>
                      \/ /\ ~p1.star /\ p1.width \in 1..99
                         /\ symbols(p1)[5 + 1] = decimal(p1.width)
    OBVIOUS
  <2>1. CASE p1.star
    BY <1>1, <2>1, SymbolsFacts
  <2>2. CASE ~p1.star
    <3>1. symbols(p1)[5 + 1] = when(p1.width # 0, decimal(p1.width))
      BY <1>1, <2>2, SymbolsFacts
    <3>2. p1.width # 0 /\ symbols(p1)[5 + 1] = decimal(p1.width)
      BY <3>1 DEF when
    <3>3. p1.width \in 1..99
      <4>1. p1.width \in Nat /\ p1.width < 100
        BY <2>2, AcceptedDirective
      <4> DEFINE w == p1.width
      <4>2. w \in Nat /\ w < 100 /\ w # 0
        BY <3>2, <4>1
      <4> HIDE DEF w
      <4>3. w \in 1..99
        BY <4>2
      <4> QED
        BY <4>3 DEF w
    <3> QED
      BY <2>2, <3>2, <3>3
  <2> QED
    BY <2>1, <2>2
<1> QED
  BY <1>2, <1>3, <1>4, <1>5, <1>6

(* A number that stands ahead, and what follows it. *)
NumberStands(f, n, rest) ==
  /\ rest \in Seq(Alphabet) /\ NoDigit(rest) /\ f = join(decimal(n), rest)
  /\ f # << >> /\ Head(f) \in DecimalDigits \ {"0"}

(* In front of a width or a field width the number stands ahead.            *)
LEMMA ReadyNumber ==
  ASSUME NEW r \in Requests, NEW k \in 0..(Len(r.pieces) - 1), NEW m \in {5, 7},
         NEW f, NEW a, NEW i, NEW o, Ready(r, k, m, f, a, i, o),
         NEW n \in 1..99, symbols(r.pieces[k + 1])[m + 1] = decimal(n)
  PROVE  NumberStands(f, n, join(left(r.pieces[k + 1], m + 1), ahead(r, k + 1)))
<1> DEFINE p1 == r.pieces[k + 1]
           y == ahead(r, k + 1)
           x == left(p1, m + 1)
           rest == join(x, y)
           d == decimal(n)
<1>1. accepted(p1) /\ p1.conv # "text" /\ y \in Seq(Alphabet) /\ f = join(left(p1, m), y) /\ m \in 0..9 /\ m + 1 \in 0..10
  BY DirectiveParts DEF Ready, InDirective
<1>2. p1.conv = "end" => y = << >>
  <2> SUFFICES ASSUME p1.conv = "end"
               PROVE  y = << >>
    OBVIOUS
  <2>1. k + 1 = Len(r.pieces)
    BY DirectiveParts, PiecesFacts
  <2> QED
    BY <2>1, CallFacts
<1>3. left(p1, m) = join(d, x)
  <2>1. left(p1, m) = join(symbols(p1)[m + 1], left(p1, m + 1))
    BY <1>1, LeftFacts
  <2> QED
    BY <2>1
<1> HIDE DEF p1, y
<1>4. x \in Seq(Alphabet) /\ NoDigit(rest)
  <2>1. /\ left(p1, 6) \in Seq(Alphabet) /\ NoDigit(join(left(p1, 6), y))
        /\ left(p1, 8) \in Seq(Alphabet) /\ NoDigit(join(left(p1, 8), y))
    BY <1>1, <1>2, NoDigitFollows
  <2>2. m + 1 = 6 \/ m + 1 = 8
    OBVIOUS
  <2> QED
    BY <2>1, <2>2
<1>5. /\ d \in Seq(Alphabet) /\ Len(d) \in {1, 2} /\ d[1] \in DecimalDigits \ {"0"}
  BY DecimalFacts
<1> HIDE DEF x, d
<1>6. rest \in Seq(Alphabet)
  BY <1>1, <1>4, JoinFacts
<1>7. f = join(d, rest)
  <2>1. \A u, v, w \in Seq(Alphabet) : join(join(u, v), w) = join(u, join(v, w))
    BY JoinFacts, Z3
  <2> QED
    BY <1>1, <1>3, <1>4, <1>5, <2>1
<1> HIDE DEF rest
<1>8. f # << >> /\ Head(f) = d[1]
  <2>1. Joining(Alphabet)
    BY JoinPlaces
  <2> DEFINE z == join(d, rest)
  <2>2. z \in Seq(Alphabet) /\ Len(z) = Len(d) + Len(rest) /\ \A e \in 1..Len(d) : z[e] = d[e]
    BY <1>5, <1>6, <2>1 DEF Joining
  <2> HIDE DEF z
  <2>3. Len(d) >= 1 /\ 1 \in 1..Len(d) /\ Len(rest) \in Nat
    BY <1>5, <1>6
  <2>4. z # << >> /\ Head(z) = z[1]
    BY <2>2, <2>3
  <2> QED
    BY <1>7, <2>2, <2>3, <2>4 DEF z
<1> QED
  BY <1>4, <1>5, <1>6, <1>7, <1>8 DEF NumberStands, rest, x, y, d, p1

(* At the end of a directive without a conversion there is nothing ahead. *)
LEMMA AtTheEnd ==
  ASSUME NEW r \in Requests, NEW k \in 0..(Len(r.pieces) - 1),
         NEW f, NEW a, NEW i, NEW o, InDirective(r, k, 10, f, a, i, o)
  PROVE  f = << >> /\ k + 1 = Len(r.pieces) /\ r.pieces[k + 1].conv = "end"
<1> DEFINE p1 == r.pieces[k + 1]
<1>1. p1.conv = "end" /\ p1.conv # "text" /\ f = join(left(p1, 10), ahead(r, k + 1))
  BY DEF InDirective
<1>2. accepted(p1) /\ k + 1 = Len(r.pieces)
  BY <1>1, DirectiveParts, PiecesFacts
<1>3. left(p1, 10) = << >>
  BY <1>1, <1>2, LeftFacts
<1>4. ahead(r, k + 1) = << >>
  BY <1>2, CallFacts
<1>5. f = << >>
  <2>1. << >> \o << >> = << >>
    BY ConcatEmptySeq
  <2> QED
    BY <1>1, <1>3, <1>4, <2>1 DEF join
<1> QED
  BY <1>1, <1>2, <1>5

(* What a directive sets stands ahead of it, symbol by symbol. *)
Standing(p1, m, f, rest) ==
  /\ f # << >>
  /\ m = 1 => p1.attr \in {"n", "h", "e"} /\ Head(f) = p1.attr
  /\ m = 2 => p1.zero /\ Head(f) = "0"
  /\ m = 3 => p1.left /\ Head(f) = "-"
  /\ m = 4 => p1.comma /\ Head(f) = ","
  /\ m = 5 => \/ p1.star /\ Head(f) = "*"
              \/ ~p1.star /\ Head(f) \in DecimalDigits \ {"0"}
  /\ m = 6 => p1.field # Unlimited /\ Head(f) = "."
  /\ m = 7 => Head(f) \in DecimalDigits \ {"0"}
  /\ m = 8 => p1.long /\ Head(f) = "l"
  /\ m = 9 => p1.conv # "end" /\ Head(f) = p1.conv
  /\ m \in {1, 2, 3, 4, 6, 8, 9} \/ (m = 5 /\ p1.star) => Tail(f) = join(left(p1, m + 1), rest)

(* The character ahead tells which symbol it is, for every symbol.          *)
LEMMA ReadyFacts ==
  ASSUME NEW r \in Requests, NEW k \in 0..(Len(r.pieces) - 1), NEW m \in 1..9,
         NEW f, NEW a, NEW i, NEW o, Ready(r, k, m, f, a, i, o)
  PROVE  Standing(r.pieces[k + 1], m, f, ahead(r, k + 1))
<1> DEFINE p1 == r.pieces[k + 1]
           rest == ahead(r, k + 1)
           s == symbols(p1)
<1>1. accepted(p1) /\ p1.conv # "text"
  BY DirectiveParts DEF Ready, InDirective
<1>2. s[m + 1] # << >>
  BY DEF Ready
<1>3. ASSUME NEW c \in Alphabet, s[m + 1] = <<c>>
      PROVE  f # << >> /\ Head(f) = c /\ Tail(f) = join(left(p1, m + 1), rest)
  BY <1>3, ReadySymbol
<1>4. ASSUME NEW n \in 1..99, s[m + 1] = decimal(n), m \in {5, 7}
      PROVE  f # << >> /\ Head(f) \in DecimalDigits \ {"0"}
  <2>1. NumberStands(f, n, join(left(p1, m + 1), rest))
    BY <1>4, ReadyNumber
  <2> QED
    BY <2>1 DEF NumberStands
<1>5. /\ "%" \in Alphabet /\ "0" \in Alphabet /\ "-" \in Alphabet /\ "," \in Alphabet /\ "*" \in Alphabet
      /\ "." \in Alphabet /\ "l" \in Alphabet /\ "n" \in Alphabet /\ "h" \in Alphabet /\ "e" \in Alphabet
  <2>1. /\ "-" \in Modifiers /\ "," \in Modifiers /\ "*" \in Modifiers /\ "." \in Modifiers
        /\ "l" \in Modifiers /\ "n" \in Modifiers /\ "h" \in Modifiers /\ "e" \in Modifiers
    BY DEF Modifiers
  <2>2. "0" \in Modifiers
    BY DigitChars DEF Modifiers
  <2> QED
    BY <2>1, <2>2, AlphabetFacts
<1>6. /\ s[1 + 1] # << >> => p1.attr \in {"n", "h", "e"} /\ s[1 + 1] = <<p1.attr>>
      /\ s[2 + 1] # << >> => p1.zero /\ s[2 + 1] = <<"0">>
      /\ s[3 + 1] # << >> => p1.left /\ s[3 + 1] = <<"-">>
      /\ s[4 + 1] # << >> => p1.comma /\ s[4 + 1] = <<",">>
      /\ s[5 + 1] # << >> => \/ p1.star /\ s[5 + 1] = <<"*">>
                             \/ ~p1.star /\ p1.width \in 1..99 /\ s[5 + 1] = decimal(p1.width)
      /\ s[6 + 1] # << >> => p1.field # Unlimited /\ s[6 + 1] = <<".">>
      /\ s[7 + 1] # << >> => p1.field \in 1..99 /\ s[7 + 1] = decimal(p1.field)
      /\ s[8 + 1] # << >> => p1.long /\ s[8 + 1] = <<"l">>
      /\ s[9 + 1] # << >> => p1.conv # "end" /\ s[9 + 1] = <<p1.conv>>
  <2> HIDE DEF p1
  <2> QED
    BY <1>1, PresentSymbols
<1>7. p1.conv # "end" => p1.conv \in Alphabet
  BY <1>1, ConversionFacts
<1>8. p1.attr \in {"n", "h", "e"} => p1.attr \in Alphabet
  BY <1>5
<1> HIDE DEF s, p1, rest
<1>11. CASE m = 1
  <2>1. p1.attr \in {"n", "h", "e"} /\ s[m + 1] = <<p1.attr>>
    BY <1>2, <1>6, <1>11
  <2>2. f # << >> /\ Head(f) = p1.attr /\ Tail(f) = join(left(p1, m + 1), rest)
    BY <1>3, <1>8, <2>1
  <2>3. Standing(p1, m, f, rest)
    BY <1>11, <2>1, <2>2 DEF Standing
  <2> QED
    BY <2>3 DEF p1, rest
<1>12. CASE m = 2
  <2>1. p1.zero /\ s[m + 1] = <<"0">>
    BY <1>2, <1>6, <1>12
  <2>2. f # << >> /\ Head(f) = "0" /\ Tail(f) = join(left(p1, m + 1), rest)
    BY <1>3, <1>5, <2>1
  <2>3. Standing(p1, m, f, rest)
    BY <1>12, <2>1, <2>2 DEF Standing
  <2> QED
    BY <2>3 DEF p1, rest
<1>13. CASE m = 3
  <2>1. p1.left /\ s[m + 1] = <<"-">>
    BY <1>2, <1>6, <1>13
  <2>2. f # << >> /\ Head(f) = "-" /\ Tail(f) = join(left(p1, m + 1), rest)
    BY <1>3, <1>5, <2>1
  <2>3. Standing(p1, m, f, rest)
    BY <1>13, <2>1, <2>2 DEF Standing
  <2> QED
    BY <2>3 DEF p1, rest
<1>14. CASE m = 4
  <2>1. p1.comma /\ s[m + 1] = <<",">>
    BY <1>2, <1>6, <1>14
  <2>2. f # << >> /\ Head(f) = "," /\ Tail(f) = join(left(p1, m + 1), rest)
    BY <1>3, <1>5, <2>1
  <2>3. m # 1 /\ m # 2 /\ m # 3 /\ m # 5 /\ m # 6 /\ m # 7 /\ m # 8 /\ m # 9
    BY <1>14
  <2>4. Standing(p1, m, f, rest)
    BY <2>1, <2>2, <2>3, Zenon DEF Standing
  <2> QED
    BY <2>4 DEF p1, rest
<1>15. CASE m = 5
  <2>1. CASE p1.star
    <3>1. s[m + 1] = <<"*">>
      BY <1>2, <1>6, <1>15, <2>1
    <3>2. f # << >> /\ Head(f) = "*" /\ Tail(f) = join(left(p1, m + 1), rest)
      BY <1>3, <1>5, <3>1
    <3>3. Standing(p1, m, f, rest)
      BY <1>15, <2>1, <3>2 DEF Standing
    <3> QED
      BY <3>3 DEF p1, rest
  <2>2. CASE ~p1.star
    <3>1. p1.width \in 1..99 /\ s[m + 1] = decimal(p1.width)
      BY <1>2, <1>6, <1>15, <2>2
    <3>2. f # << >> /\ Head(f) \in DecimalDigits \ {"0"}
      BY <1>4, <1>15, <3>1
    <3>3. Standing(p1, m, f, rest)
      BY <1>15, <2>2, <3>2 DEF Standing
    <3> QED
      BY <3>3 DEF p1, rest
  <2> QED
    BY <2>1, <2>2
<1>16. CASE m = 6
  <2>1. p1.field # Unlimited /\ s[m + 1] = <<".">>
    BY <1>2, <1>6, <1>16
  <2>2. f # << >> /\ Head(f) = "." /\ Tail(f) = join(left(p1, m + 1), rest)
    BY <1>3, <1>5, <2>1
  <2>3. Standing(p1, m, f, rest)
    BY <1>16, <2>1, <2>2 DEF Standing
  <2> QED
    BY <2>3 DEF p1, rest
<1>17. CASE m = 7
  <2>1. p1.field \in 1..99 /\ s[m + 1] = decimal(p1.field)
    BY <1>2, <1>6, <1>17
  <2>2. f # << >> /\ Head(f) \in DecimalDigits \ {"0"}
    BY <1>4, <1>17, <2>1
  <2>3. Standing(p1, m, f, rest)
    BY <1>17, <2>2 DEF Standing
  <2> QED
    BY <2>3 DEF p1, rest
<1>18. CASE m = 8
  <2>1. p1.long /\ s[m + 1] = <<"l">>
    BY <1>2, <1>6, <1>18
  <2>2. f # << >> /\ Head(f) = "l" /\ Tail(f) = join(left(p1, m + 1), rest)
    BY <1>3, <1>5, <2>1
  <2>3. Standing(p1, m, f, rest)
    BY <1>18, <2>1, <2>2 DEF Standing
  <2> QED
    BY <2>3 DEF p1, rest
<1>19. CASE m = 9
  <2>1. p1.conv # "end" /\ s[m + 1] = <<p1.conv>>
    BY <1>2, <1>6, <1>19
  <2>2. f # << >> /\ Head(f) = p1.conv /\ Tail(f) = join(left(p1, m + 1), rest)
    BY <1>3, <1>7, <2>1
  <2>3. Standing(p1, m, f, rest)
    BY <1>19, <2>1, <2>2 DEF Standing
  <2> QED
    BY <2>3 DEF p1, rest
<1>20. m = 1 \/ m = 2 \/ m = 3 \/ m = 4 \/ m = 5 \/ m = 6 \/ m = 7 \/ m = 8 \/ m = 9
  OBVIOUS
<1> QED
  BY <1>11, <1>12, <1>13, <1>14, <1>15, <1>16, <1>17, <1>18, <1>19, <1>20, Zenon

-----------------------------------------------------------------------------
(* What a symbol that takes no argument leaves of the arguments. *)
LEMMA SameArguments ==
  ASSUME NEW p1, p1.conv # "text", NEW m \in 1..8, m = 5 => ~p1.star
  PROVE  argsLeft(p1, m + 1) = argsLeft(p1, m)
<1>1. CASE m = 5
  <2> DEFINE a == when(p1.conv \in Taking, <<p1.value>>)
             D == {p1.value}
  <2>1. a \in Seq(D)
    <3>1. <<p1.value>> \in Seq(D) /\ << >> \in Seq(D)
      OBVIOUS
    <3> QED
      BY <3>1 DEF when
  <2>2. argumentsOf(p1) = << >> \o a
    BY <1>1 DEF argumentsOf, when
  <2>3. argsLeft(p1, 5) = argumentsOf(p1) /\ argsLeft(p1, 6) = a
    BY DEF argsLeft
  <2> HIDE DEF a, D
  <2>4. << >> \o a = a
    BY <2>1, ConcatEmptySeq
  <2> QED
    BY <1>1, <2>2, <2>3, <2>4
<1>2. CASE m < 5
  BY <1>2 DEF argsLeft
<1>3. CASE m >= 6
  BY <1>3 DEF argsLeft
<1> QED
  BY <1>1, <1>2, <1>3

(* Within a directive, the attribute stays as it is behind the first. *)
LEMMA Advances ==
  ASSUME NEW r \in Requests, NEW k \in 0..(Len(r.pieces) - 1), NEW m \in 2..8,
         NEW f, NEW a, NEW i, NEW o, InDirective(r, k, m, f, a, i, o),
         NEW f1, f1 = join(left(r.pieces[k + 1], m + 1), ahead(r, k + 1)),
         NEW a1, a1 = join(argsLeft(r.pieces[k + 1], m + 1), given(r, k + 1)),
         NEW i1, ItemAt(r.pieces[k + 1], lastSet(r, k), m + 1, i1)
  PROVE  InDirective(r, k, m + 1, f1, a1, i1, o)
<1> DEFINE p1 == r.pieces[k + 1]
<1>1. /\ p1.conv # "text"
      /\ o.attr = IF m >= 2 /\ p1.attr # NoAttribute THEN colourOf(r, p1.attr) ELSE lastSet(r, k)
      /\ Emitted(r, o, textTo(r, k))
  BY DEF InDirective
<1>2. m + 1 # 10 /\ m >= 2 /\ m + 1 >= 2
  OBVIOUS
<1> HIDE DEF p1
<1>3. o.attr = IF m + 1 >= 2 /\ p1.attr # NoAttribute THEN colourOf(r, p1.attr) ELSE lastSet(r, k)
  BY <1>1, <1>2
<1>4. m + 1 = 10 => p1.conv = "end"
  BY <1>2
<1> QED
  BY <1>1, <1>3, <1>4 DEF InDirective, p1

(* Within the directive of part k + 1 of the call, in front of a symbol. *)
Before(k, m) ==
  /\ request \in Requests /\ k \in 0..(Len(request.pieces) - 1) /\ m \in 1..9
  /\ Ready(request, k, m, format, arguments, item, out)

(* What that says.                                                          *)
LEMMA BeforeFacts ==
  ASSUME NEW k, NEW m, Before(k, m)
  PROVE  LET p1 == request.pieces[k + 1]
         IN  /\ request \in Requests /\ k \in 0..(Len(request.pieces) - 1) /\ m \in 1..9
             /\ accepted(p1) /\ p1.conv # "text" /\ format # << >>
             /\ InDirective(request, k, m, format, arguments, item, out)
             /\ ItemAt(p1, lastSet(request, k), m, item)
             /\ arguments = join(argsLeft(p1, m), given(request, k + 1))
             /\ Emitted(request, out, textTo(request, k))
             /\ lastSet(request, k) \in Colours
<1>1. request \in Requests /\ k \in 0..(Len(request.pieces) - 1) /\ m \in 1..9
      /\ Ready(request, k, m, format, arguments, item, out)
  BY DEF Before
<1>2. InDirective(request, k, m, format, arguments, item, out)
  BY <1>1 DEF Ready
<1>3. format # << >>
  <2>1. Standing(request.pieces[k + 1], m, format, ahead(request, k + 1))
    BY <1>1, ReadyFacts
  <2> QED
    BY <2>1 DEF Standing
<1>4. accepted(request.pieces[k + 1]) /\ lastSet(request, k) \in Colours
  BY <1>1, DirectiveParts
<1> QED
  BY <1>1, <1>2, <1>3, <1>4 DEF InDirective

(* The modifiers, and the conversions, are different characters. *)
LEMMA Characters10 ==
  ASSUME NEW p1, accepted(p1), p1.conv # "text"
  PROVE  /\ p1.conv \notin {"0", "-", ",", ".", "l", "*", "n", "h", "e"} /\ p1.conv \notin DecimalDigits
         /\ DecimalDigits \cap {"-", ",", ".", "l", "*", "n", "h", "e", "N", "H", "E"} = {}
         /\ "0" \in DecimalDigits
<1>1. DecimalDigits \cap {"-", ",", ".", "l", "*", "n", "h", "e", "N", "H", "E"} = {} /\ "0" \in DecimalDigits
  BY DigitChars
<1>2. p1.conv \notin Modifiers
  BY ConversionFacts
<1> QED
  BY <1>1, <1>2 DEF Modifiers

(* Flag moves behind the symbol it reads.                                   *)
LEMMA FlagStep ==
  ASSUME NEW k, NEW m, Before(k, m), Flag
  PROVE  m + 1 \in 1..10 /\ InDirective(request, k, m + 1, format', arguments', item', out')
<1> DEFINE p1 == request.pieces[k + 1]
           c == lastSet(request, k)
           rest == ahead(request, k + 1)
<1>1. /\ request \in Requests /\ k \in 0..(Len(request.pieces) - 1) /\ m \in 1..9
      /\ accepted(p1) /\ p1.conv # "text"
      /\ InDirective(request, k, m, format, arguments, item, out)
      /\ ItemAt(p1, c, m, item) /\ c \in Colours
      /\ arguments = join(argsLeft(p1, m), given(request, k + 1))
  BY BeforeFacts
<1>2. Ready(request, k, m, format, arguments, item, out)
  BY DEF Before
<1>3. /\ Head(format) \in {"0", "-", ",", ".", "l"}
      /\ item' = CASE Head(format) = "0" -> [item EXCEPT !.pad = "0"]
                   [] Head(format) = "-" -> [item EXCEPT !.padBefore = FALSE]
                   [] Head(format) = "," -> [item EXCEPT !.comma = TRUE]
                   [] Head(format) = "." -> [item EXCEPT !.parsing = "fieldWidth"]
                   [] Head(format) = "l" -> [item EXCEPT !.long = TRUE]
      /\ format' = Tail(format) /\ arguments' = arguments /\ out' = out
  BY DEF Flag, current
<1>4. p1.conv \notin {"0", "-", ",", ".", "l"} /\ "0" \in DecimalDigits
      /\ DecimalDigits \cap {"-", ",", ".", "l"} = {}
  BY <1>1, Characters10
<1>5. Standing(p1, m, format, rest)
  BY <1>1, <1>2, ReadyFacts
<1> HIDE DEF p1, c, rest
<1>6. m \in {2, 3, 4, 6, 8}
  <2>1. m # 1
    BY <1>3, <1>5 DEF Standing
  <2>2. m # 5 /\ m # 7
    BY <1>3, <1>4, <1>5 DEF Standing
  <2>3. m # 9
    BY <1>3, <1>4, <1>5 DEF Standing
  <2> QED
    BY <1>1, <2>1, <2>2, <2>3
<1>7. format' = join(left(p1, m + 1), rest)
  BY <1>3, <1>5, <1>6 DEF Standing
<1>8. argsLeft(p1, m + 1) = argsLeft(p1, m)
  <2>1. m \in 1..8 /\ m # 5
    BY <1>6
  <2> QED
    BY <1>1, <2>1, SameArguments
<1>9. ItemAt(p1, c, m + 1, item')
  <2>1. CASE m = 2
    <3>1. p1.zero /\ item' = [item EXCEPT !.pad = "0"]
      BY <1>3, <1>5, <2>1 DEF Standing
    <3>2. ItemAt(p1, c, 2, item)
      BY <1>1, <2>1
    <3>3. ItemAt(p1, c, 3, [item EXCEPT !.pad = "0"])
      BY <1>1, <3>1, <3>2, ZeroSets
    <3> QED
      BY <2>1, <3>1, <3>3
  <2>2. CASE m = 3
    <3>1. p1.left /\ item' = [item EXCEPT !.padBefore = FALSE]
      BY <1>3, <1>5, <2>2 DEF Standing
    <3>2. ItemAt(p1, c, 3, item)
      BY <1>1, <2>2
    <3>3. ItemAt(p1, c, 4, [item EXCEPT !.padBefore = FALSE])
      BY <1>1, <3>1, <3>2, LeftSets
    <3> QED
      BY <2>2, <3>1, <3>3
  <2>3. CASE m = 4
    <3>1. p1.comma /\ item' = [item EXCEPT !.comma = TRUE]
      BY <1>3, <1>5, <2>3 DEF Standing
    <3>2. ItemAt(p1, c, 4, item)
      BY <1>1, <2>3
    <3>3. ItemAt(p1, c, 5, [item EXCEPT !.comma = TRUE])
      BY <1>1, <3>1, <3>2, CommaSets
    <3> QED
      BY <2>3, <3>1, <3>3
  <2>4. CASE m = 6
    <3>1. p1.field # Unlimited /\ item' = [item EXCEPT !.parsing = "fieldWidth"]
      BY <1>3, <1>5, <2>4 DEF Standing
    <3>2. ItemAt(p1, c, 6, item)
      BY <1>1, <2>4
    <3>3. ItemAt(p1, c, 7, [item EXCEPT !.parsing = "fieldWidth"])
      BY <1>1, <3>1, <3>2, DotSets
    <3> QED
      BY <2>4, <3>1, <3>3
  <2>5. CASE m = 8
    <3>1. p1.long /\ item' = [item EXCEPT !.long = TRUE]
      BY <1>3, <1>5, <2>5 DEF Standing
    <3>2. ItemAt(p1, c, 8, item)
      BY <1>1, <2>5
    <3>3. ItemAt(p1, c, 9, [item EXCEPT !.long = TRUE])
      BY <1>1, <3>1, <3>2, LongSets
    <3> QED
      BY <2>5, <3>1, <3>3
  <2> QED
    BY <1>6, <2>1, <2>2, <2>3, <2>4, <2>5
<1>10. m \in 2..8 /\ m + 1 \in 1..10
  BY <1>6
<1>11. arguments' = join(argsLeft(p1, m + 1), given(request, k + 1))
  BY <1>1, <1>3, <1>8
<1> DEFINE f1 == format'
           a1 == arguments'
           i1 == item'
<1>12. f1 = join(left(p1, m + 1), rest) /\ a1 = join(argsLeft(p1, m + 1), given(request, k + 1))
       /\ ItemAt(p1, c, m + 1, i1)
  BY <1>7, <1>9, <1>11
<1> HIDE DEF f1, a1, i1
<1>13. InDirective(request, k, m + 1, f1, a1, i1, out)
  BY <1>1, <1>10, <1>12, Advances DEF p1, c, rest
<1> QED
  BY <1>3, <1>10, <1>13 DEF f1, a1, i1

(* So does Star, with the argument it takes,                                *)
LEMMA StarStep ==
  ASSUME NEW k, NEW m, Before(k, m), Star
  PROVE  m + 1 \in 1..10 /\ InDirective(request, k, m + 1, format', arguments', item', out')
<1> DEFINE p1 == request.pieces[k + 1]
           c == lastSet(request, k)
           rest == ahead(request, k + 1)
           others == given(request, k + 1)
<1>1. /\ request \in Requests /\ k \in 0..(Len(request.pieces) - 1) /\ m \in 1..9
      /\ accepted(p1) /\ p1.conv # "text"
      /\ InDirective(request, k, m, format, arguments, item, out)
      /\ ItemAt(p1, c, m, item) /\ c \in Colours
      /\ arguments = join(argsLeft(p1, m), others)
  BY BeforeFacts
<1>2. Ready(request, k, m, format, arguments, item, out)
  BY DEF Before
<1>3. /\ Head(format) = "*" /\ item' = parsed(Head(arguments))
      /\ format' = Tail(format) /\ arguments' = Tail(arguments) /\ out' = out
  BY DEF Star, current
<1>4. p1.conv # "*" /\ "*" \notin DecimalDigits
  BY <1>1, Characters10
<1>5. Standing(p1, m, format, rest)
  BY <1>1, <1>2, ReadyFacts
<1>6. p1.width \in Nat
  BY <1>1, AcceptedDirective
<1>7. p1.width \in Values(request) /\ p1.value \in Values(request) /\ others \in Seq(Values(request))
  <2>1. k + 1 \in 1..Len(request.pieces) /\ others \in Seq(Values(request))
    BY <1>1, DirectiveParts
  <2> QED
    BY <2>1 DEF Values
<1> HIDE DEF p1, c, rest, others
<1>8. m = 5 /\ p1.star
  <2>1. m # 1 /\ m # 2 /\ m # 3 /\ m # 4
    BY <1>3, <1>5 DEF Standing
  <2>2. m # 6 /\ m # 7 /\ m # 8 /\ m # 9
    BY <1>3, <1>4, <1>5 DEF Standing
  <2>3. m = 5
    BY <1>1, <2>1, <2>2
  <2> QED
    BY <1>3, <1>4, <1>5, <2>3 DEF Standing
<1>9. format' = join(left(p1, m + 1), rest)
  BY <1>3, <1>5, <1>8 DEF Standing
<1>10. arguments # << >> /\ Head(arguments) = p1.width /\ Tail(arguments) = join(argsLeft(p1, m + 1), others)
  <2> DEFINE D == Values(request)
             w == p1.width
             a == when(p1.conv \in Taking, <<p1.value>>)
  <2>1. a \in Seq(D)
    <3>1. <<p1.value>> \in Seq(D) /\ << >> \in Seq(D)
      BY <1>7
    <3> QED
      BY <3>1 DEF when
  <2>2. argumentsOf(p1) = <<w>> \o a
    BY <1>1, <1>8 DEF argumentsOf, when
  <2>3. argsLeft(p1, 5) = argumentsOf(p1) /\ argsLeft(p1, 6) = a
    BY DEF argsLeft
  <2>4. w \in D /\ others \in Seq(D)
    BY <1>7
  <2> HIDE DEF a, D, w
  <2>5. arguments = join(join(<<w>>, a), others)
    BY <1>1, <1>8, <2>2, <2>3 DEF join
  <2>6. /\ join(join(<<w>>, a), others) # << >>
        /\ Head(join(join(<<w>>, a), others)) = w
        /\ Tail(join(join(<<w>>, a), others)) = join(a, others)
    BY <2>1, <2>4, HeadOfJoin
  <2>7. m + 1 = 6
    BY <1>8
  <2> QED
    BY <2>3, <2>5, <2>6, <2>7 DEF w
<1>11. ItemAt(p1, c, m + 1, item')
  <2>1. ItemAt(p1, c, 5, item)
    BY <1>1, <1>8
  <2>2. item.parsing = "width"
    BY <2>1 DEF ItemAt
  <2>3. item' = [item EXCEPT !.width = p1.width]
    BY <1>3, <1>10, <2>2 DEF parsed
  <2>4. ItemAt(p1, c, 6, [item EXCEPT !.width = p1.width])
    BY <1>1, <1>6, <2>1, WidthSets
  <2> QED
    BY <1>8, <2>3, <2>4
<1>12. m \in 2..8 /\ m + 1 \in 1..10
  BY <1>8
<1> DEFINE f1 == format'
           a1 == arguments'
           i1 == item'
<1>13. f1 = join(left(p1, m + 1), rest) /\ a1 = join(argsLeft(p1, m + 1), others)
       /\ ItemAt(p1, c, m + 1, i1)
  BY <1>3, <1>9, <1>10, <1>11
<1> HIDE DEF f1, a1, i1
<1>14. InDirective(request, k, m + 1, f1, a1, i1, out)
  BY <1>1, <1>12, <1>13, Advances DEF p1, c, rest, others
<1> QED
  BY <1>3, <1>12, <1>14 DEF f1, a1, i1

(* Number, behind the last digit,                                           *)
LEMMA NumberStep ==
  ASSUME NEW k, NEW m, Before(k, m), Number
  PROVE  m + 1 \in 1..10 /\ InDirective(request, k, m + 1, format', arguments', item', out')
<1> DEFINE p1 == request.pieces[k + 1]
           c == lastSet(request, k)
           y == ahead(request, k + 1)
           others == given(request, k + 1)
<1>1. /\ request \in Requests /\ k \in 0..(Len(request.pieces) - 1) /\ m \in 1..9
      /\ accepted(p1) /\ p1.conv # "text"
      /\ InDirective(request, k, m, format, arguments, item, out)
      /\ ItemAt(p1, c, m, item) /\ c \in Colours
      /\ arguments = join(argsLeft(p1, m), others)
  BY BeforeFacts
<1>2. Ready(request, k, m, format, arguments, item, out)
  BY DEF Before
<1>3. PICK length \in 1..Len(format) :
        /\ IsNumberAhead(length)
        /\ item' = parsed(numberAhead(length))
        /\ format' = SubSeq(format, length + 1, Len(format))
  BY DEF Number
<1>4. Head(format) \in DecimalDigits \ {"0"} /\ arguments' = arguments /\ out' = out
  BY DEF Number, current
<1>5. /\ p1.conv \notin DecimalDigits
      /\ DecimalDigits \cap {"-", ",", ".", "l", "*", "n", "h", "e", "N", "H", "E"} = {}
  BY <1>1, Characters10
<1>6. Standing(p1, m, format, y)
  BY <1>1, <1>2, ReadyFacts
<1>7. symbols(p1)[m + 1] # << >>
  BY <1>1, <1>2 DEF Ready
<1>8. /\ symbols(p1)[5 + 1] # << >> => \/ p1.star /\ symbols(p1)[5 + 1] = <<"*">>
                                       \/ /\ ~p1.star /\ p1.width \in 1..99
                                          /\ symbols(p1)[5 + 1] = decimal(p1.width)
      /\ symbols(p1)[7 + 1] # << >> => p1.field \in 1..99 /\ symbols(p1)[7 + 1] = decimal(p1.field)
  <2> HIDE DEF p1
  <2> QED
    BY <1>1, PresentSymbols
<1> HIDE DEF p1, c, y, others
<1>9. m = 5 \/ m = 7
  <2>1. m # 1 /\ m # 2
    <3>1. m # 1
      <4>1. "n" \notin DecimalDigits /\ "h" \notin DecimalDigits /\ "e" \notin DecimalDigits
        BY DigitChars
      <4>2. m = 1 => Head(format) \in {"n", "h", "e"}
        BY <1>6 DEF Standing
      <4> QED
        BY <1>4, <4>1, <4>2
    <3>2. m # 2
      BY <1>4, <1>6 DEF Standing
    <3> QED
      BY <3>1, <3>2
  <2>2. m # 3 /\ m # 4
    BY <1>4, <1>5, <1>6 DEF Standing
  <2>3. m # 6 /\ m # 8
    BY <1>4, <1>5, <1>6 DEF Standing
  <2>4. m # 9
    BY <1>4, <1>5, <1>6 DEF Standing
  <2> QED
    BY <1>1, <2>1, <2>2, <2>3, <2>4
<1>10. m = 5 => ~p1.star
  <2> SUFFICES ASSUME m = 5, p1.star
               PROVE  FALSE
    OBVIOUS
  <2>1. Head(format) = "*"
    <3>1. symbols(p1)[5 + 1] = <<"*">>
      <4>1. symbols(p1)[6] = IF p1.star THEN <<"*">> ELSE when(p1.width # 0, decimal(p1.width))
        BY <1>1, SymbolsFacts
      <4>2. 5 + 1 = 6
        OBVIOUS
      <4> QED
        BY <4>1, <4>2
    <3>2. "*" \in Alphabet
      <4>1. "*" \in Modifiers
        BY DEF Modifiers
      <4> QED
        BY <4>1, AlphabetFacts
    <3> DEFINE ch == "*"
    <3>3. symbols(request.pieces[k + 1])[m + 1] = <<ch>> /\ ch \in Alphabet
      BY <3>1, <3>2 DEF p1
    <3> HIDE DEF ch
    <3>4. Head(format) = ch
      BY <1>1, <1>2, <3>3, ReadySymbol
    <3> QED
      BY <3>4 DEF ch
  <2> QED
    BY <1>4, <1>5, <2>1
<1>11. PICK n \in 1..99 : /\ symbols(p1)[m + 1] = decimal(n)
                          /\ m = 5 => n = p1.width
                          /\ m = 7 => n = p1.field
  <2>1. CASE m = 5
    <3>1. symbols(p1)[5 + 1] # << >> /\ ~p1.star
      BY <1>7, <1>10, <2>1
    <3>2. p1.width \in 1..99 /\ symbols(p1)[5 + 1] = decimal(p1.width)
      BY <1>8, <3>1
    <3>3. symbols(p1)[m + 1] = decimal(p1.width) /\ m # 7
      BY <2>1, <3>2
    <3> QED
      BY <3>2, <3>3
  <2>2. CASE m = 7
    <3>1. symbols(p1)[7 + 1] # << >>
      BY <1>7, <2>2
    <3>2. p1.field \in 1..99 /\ symbols(p1)[7 + 1] = decimal(p1.field)
      BY <1>8, <3>1
    <3>3. symbols(p1)[m + 1] = decimal(p1.field) /\ m # 5
      BY <2>2, <3>2
    <3> QED
      BY <3>2, <3>3
  <2> QED
    BY <1>9, <2>1, <2>2
<1> DEFINE rest == join(left(p1, m + 1), y)
<1>12. rest \in Seq(Alphabet) /\ NoDigit(rest) /\ format = join(decimal(n), rest)
  <2>1. m \in {5, 7} /\ symbols(request.pieces[k + 1])[m + 1] = decimal(n)
    BY <1>9, <1>11 DEF p1
  <2>2. NumberStands(format, n, join(left(request.pieces[k + 1], m + 1), ahead(request, k + 1)))
    BY <1>1, <1>2, <2>1, ReadyNumber
  <2> QED
    BY <2>2 DEF NumberStands, p1, y
<1> HIDE DEF rest
<1>13. numberAhead(length) = n /\ SubSeq(format, length + 1, Len(format)) = rest
  BY <1>3, <1>12, NumberStepFacts
<1>14. ItemAt(p1, c, m + 1, item')
  <2>0. item' = parsed(n)
    BY <1>3, <1>13
  <2>1. CASE m = 5
    <3>1. ItemAt(p1, c, 5, item) /\ n = p1.width /\ p1.width \in Nat
      BY <1>1, <1>11, <2>1, AcceptedDirective
    <3>2. item.parsing = "width"
      BY <3>1 DEF ItemAt
    <3>3. item' = [item EXCEPT !.width = p1.width]
      BY <2>0, <3>1, <3>2 DEF parsed
    <3>4. ItemAt(p1, c, 6, [item EXCEPT !.width = p1.width])
      BY <1>1, <3>1, WidthSets
    <3> QED
      BY <2>1, <3>3, <3>4
  <2>2. CASE m = 7
    <3>1. ItemAt(p1, c, 7, item) /\ n = p1.field /\ p1.field \in Int /\ p1.field # Unlimited
      BY <1>1, <1>11, <2>2 DEF Unlimited
    <3>2. item.parsing = "fieldWidth"
      BY <3>1 DEF ItemAt
    <3>3. item' = [item EXCEPT !.fieldWidth = p1.field]
      BY <2>0, <3>1, <3>2 DEF parsed
    <3>4. ItemAt(p1, c, 8, [item EXCEPT !.fieldWidth = p1.field])
      BY <1>1, <3>1, FieldSets
    <3> QED
      BY <2>2, <3>3, <3>4
  <2> QED
    BY <1>9, <2>1, <2>2
<1>15. m \in 2..8 /\ m + 1 \in 1..10
  BY <1>9
<1>16. argsLeft(p1, m + 1) = argsLeft(p1, m)
  <2>1. m \in 1..8
    BY <1>9
  <2> QED
    BY <1>1, <1>10, <2>1, SameArguments
<1> DEFINE f1 == format'
           a1 == arguments'
           i1 == item'
<1>17. f1 = join(left(p1, m + 1), y) /\ a1 = join(argsLeft(p1, m + 1), others)
       /\ ItemAt(p1, c, m + 1, i1)
  BY <1>1, <1>3, <1>4, <1>13, <1>14, <1>16 DEF rest
<1> HIDE DEF f1, a1, i1
<1>18. InDirective(request, k, m + 1, f1, a1, i1, out)
  BY <1>1, <1>15, <1>17, Advances DEF p1, c, y, others
<1> QED
  BY <1>4, <1>15, <1>18 DEF f1, a1, i1

(* and FieldAttribute, with the attribute it sets.                          *)
LEMMA FieldAttributeStep ==
  ASSUME NEW k, NEW m, Before(k, m), FieldAttribute
  PROVE  m + 1 \in 1..10 /\ InDirective(request, k, m + 1, format', arguments', item', out')
<1> DEFINE p1 == request.pieces[k + 1]
           c == lastSet(request, k)
           y == ahead(request, k + 1)
           others == given(request, k + 1)
           new == colourOf(request, p1.attr)
           text == textTo(request, k)
<1>1. /\ request \in Requests /\ k \in 0..(Len(request.pieces) - 1) /\ m \in 1..9
      /\ accepted(p1) /\ p1.conv # "text"
      /\ InDirective(request, k, m, format, arguments, item, out)
      /\ ItemAt(p1, c, m, item) /\ c \in Colours
      /\ arguments = join(argsLeft(p1, m), others) /\ Emitted(request, out, text)
  BY BeforeFacts
<1>2. Ready(request, k, m, format, arguments, item, out)
  BY DEF Before
<1>3. /\ Head(format) \in {"n", "h", "e"} /\ out' = PSETATTR(out, attributeOf(Head(format)))
      /\ item' = [item EXCEPT !.restoreAttr = out.attr]
      /\ format' = Tail(format) /\ arguments' = arguments
  BY DEF FieldAttribute, current
<1>4. /\ p1.conv \notin {"n", "h", "e"}
      /\ DecimalDigits \cap {"n", "h", "e"} = {}
  BY <1>1, Characters10
<1>5. Standing(p1, m, format, y)
  BY <1>1, <1>2, ReadyFacts
<1>6. m = 1 => out.attr = c
  BY <1>1 DEF InDirective
<1> HIDE DEF p1, c, y, others, text
<1>7. m = 1
  <2>1. m # 2 /\ m # 3 /\ m # 4 /\ m # 6 /\ m # 8
    BY <1>3, <1>5 DEF Standing
  <2>2. m # 5 /\ m # 7
    BY <1>3, <1>4, <1>5 DEF Standing
  <2>3. m # 9
    BY <1>3, <1>4, <1>5 DEF Standing
  <2> QED
    BY <1>1, <2>1, <2>2, <2>3
<1>8. p1.attr \in {"n", "h", "e"} /\ Head(format) = p1.attr /\ format' = join(left(p1, 2), y)
  <2>1. m + 1 = 2
    BY <1>7
  <2> QED
    BY <1>3, <1>5, <1>7, <2>1 DEF Standing
<1>9. p1.attr # NoAttribute /\ p1.attr \in {"n", "N", "h", "H", "e", "E"}
  BY <1>8 DEF NoAttribute
<1>10. out' = PSETATTR(out, new) /\ new \in Colours
  BY <1>1, <1>3, <1>8, <1>9, SameColours, ColourFacts
<1>11. item' = [item EXCEPT !.restoreAttr = c]
  BY <1>3, <1>6, <1>7
<1>12. ItemAt(p1, c, 2, item')
  <2>1. ItemAt(p1, c, 1, item)
    BY <1>1, <1>7
  <2>2. ItemAt(p1, c, 2, [item EXCEPT !.restoreAttr = c])
    BY <1>1, <1>9, <2>1, AttrSets
  <2> QED
    BY <1>11, <2>2
<1>13. arguments' = join(argsLeft(p1, 2), others)
  <2>1. argsLeft(p1, 2) = argsLeft(p1, 1)
    BY DEF argsLeft
  <2> QED
    BY <1>1, <1>3, <1>7, <2>1
<1> HIDE DEF new
<1>14. Emitted(request, out', text) /\ out'.attr = new
  <2>1. Emitted(request, PSETATTR(out, new), text) /\ PSETATTR(out, new).attr = new
    BY <1>1, <1>10, SettingKeeps
  <2> QED
    BY <1>10, <2>1
<1>15. m + 1 = 2 /\ 2 \in 1..10 /\ 2 >= 2 /\ 2 # 10
  BY <1>7
<1>16. out'.attr = IF 2 >= 2 /\ p1.attr # NoAttribute THEN colourOf(request, p1.attr) ELSE c
  BY <1>9, <1>14, <1>15 DEF new
<1>17. InDirective(request, k, 2, format', arguments', item', out')
  BY <1>1, <1>8, <1>12, <1>13, <1>14, <1>15, <1>16 DEF InDirective, p1, c, y, others, text
<1> QED
  BY <1>15, <1>17

(* Behind a directive, the attribute is the one that was in force before. *)
LEMMA Restores ==
  ASSUME request \in Requests, NEW k \in 0..(Len(request.pieces) - 1), NEW m \in 2..10,
         accepted(request.pieces[k + 1]), request.pieces[k + 1].conv # "text",
         ItemAt(request.pieces[k + 1], lastSet(request, k), m, item),
         NEW o, NEW text, Emitted(request, o, text),
         o.attr = IF request.pieces[k + 1].attr # NoAttribute
                    THEN colourOf(request, request.pieces[k + 1].attr) ELSE lastSet(request, k)
  PROVE  Emitted(request, restored(o), text) /\ restored(o).attr = lastSet(request, k)
<1> DEFINE p1 == request.pieces[k + 1]
           c == lastSet(request, k)
<1>1. item.restoreAttr = IF p1.attr # NoAttribute THEN c ELSE NoAttribute
  <2>1. item.restoreAttr = IF m >= 2 /\ p1.attr # NoAttribute THEN c ELSE NoAttribute
    BY DEF ItemAt
  <2>2. m >= 2
    OBVIOUS
  <2> HIDE DEF p1, c
  <2> QED
    BY <2>1, <2>2
<1>2. c \in Colours /\ k \in 0..Len(request.pieces)
  BY DirectiveParts
<1>3. p1.attr # NoAttribute /\ c = NoAttribute => colourOf(request, p1.attr) = NoAttribute
  <2>1. request.console => c # NoAttribute
    BY <1>2, ColourFacts
  <2>2. ~request.console => colourOf(request, p1.attr) = NoAttribute
    BY ColourFacts
  <2> QED
    BY <2>1, <2>2
<1>4. restored(o) = IF item.restoreAttr = NoAttribute THEN o ELSE PSETATTR(o, item.restoreAttr)
  BY DEF restored
<1>5. o.attr = IF p1.attr # NoAttribute THEN colourOf(request, p1.attr) ELSE c
  OBVIOUS
<1> HIDE DEF p1, c
<1>6. CASE item.restoreAttr = NoAttribute
  BY <1>1, <1>3, <1>4, <1>5, <1>6 DEF c
<1>7. CASE item.restoreAttr # NoAttribute
  <2>1. item.restoreAttr = c /\ restored(o) = PSETATTR(o, c)
    BY <1>1, <1>4, <1>7
  <2>2. Emitted(request, PSETATTR(o, c), text) /\ PSETATTR(o, c).attr = c
    BY <1>2, SettingKeeps
  <2> QED
    BY <2>1, <2>2 DEF c
<1> QED
  BY <1>6, <1>7

(* A directive that never ends has put out nothing.                         *)
LEMMA UnfinishedStep ==
  ASSUME request \in Requests, NEW k \in 0..(Len(request.pieces) - 1),
         InDirective(request, k, 10, format, arguments, item, out), Unfinished
  PROVE  Fragment(request, out') /\ Last(request.pieces).conv = "end"
<1> DEFINE p1 == request.pieces[k + 1]
           text == textTo(request, k)
<1>1. /\ p1.conv # "text" /\ ItemAt(p1, lastSet(request, k), 10, item) /\ Emitted(request, out, text)
      /\ out.attr = IF 10 >= 2 /\ p1.attr # NoAttribute THEN colourOf(request, p1.attr) ELSE lastSet(request, k)
  BY DEF InDirective
<1>2. accepted(p1) /\ k \in 0..Len(request.pieces)
  BY DirectiveParts
<1>3. 10 \in 2..10 /\ 10 >= 2
  OBVIOUS
<1>4. out.attr = IF p1.attr # NoAttribute THEN colourOf(request, p1.attr) ELSE lastSet(request, k)
  BY <1>1, <1>3
<1>5. out' = restored(out)
  BY DEF Unfinished
<1>6. PICK m \in 2..10 : m = 10
  BY <1>3
<1> HIDE DEF text
<1>7. Emitted(request, restored(out), text)
  BY <1>1, <1>2, <1>4, <1>6, Restores
<1> DEFINE o1 == out'
<1>8. Emitted(request, o1, textTo(request, k))
  BY <1>5, <1>7 DEF text
<1> HIDE DEF o1
<1>9. Fragment(request, o1)
  BY <1>2, <1>8, BetweenIsFragment
<1>10. Last(request.pieces).conv = "end"
  <2>1. k + 1 = Len(request.pieces) /\ p1.conv = "end"
    BY AtTheEnd
  <2> QED
    BY <2>1 DEF Last
<1> QED
  BY <1>9, <1>10 DEF o1

(* What a conversion leaves ahead, and of the arguments. *)
ConversionStands(p1, f, a, rest, others) ==
  /\ p1.conv # "end" /\ Head(f) = p1.conv /\ Tail(f) = rest
  /\ p1.conv \in Taking => Head(a) = p1.value /\ Tail(a) = others
  /\ p1.conv \notin Taking => a = others

(* A character that is no modifier is the conversion, with its argument.    *)
LEMMA ConversionAhead ==
  ASSUME NEW k, NEW m, Before(k, m), Head(format) \notin Modifiers
  PROVE  /\ m = 9
         /\ ConversionStands(request.pieces[k + 1], format, arguments, ahead(request, k + 1), given(request, k + 1))
<1> DEFINE p1 == request.pieces[k + 1]
           y == ahead(request, k + 1)
           others == given(request, k + 1)
<1>1. /\ request \in Requests /\ k \in 0..(Len(request.pieces) - 1) /\ m \in 1..9
      /\ accepted(p1) /\ p1.conv # "text"
      /\ arguments = join(argsLeft(p1, m), others)
  BY BeforeFacts
<1>2. Ready(request, k, m, format, arguments, item, out)
  BY DEF Before
<1>3. Standing(p1, m, format, y)
  BY <1>1, <1>2, ReadyFacts
<1>4. y \in Seq(Alphabet) /\ others \in Seq(Values(request)) /\ p1.value \in Values(request)
  <2>1. k + 1 \in 1..Len(request.pieces) /\ y \in Seq(Alphabet) /\ others \in Seq(Values(request))
    BY <1>1, DirectiveParts
  <2> QED
    BY <2>1 DEF Values
<1>5. DecimalDigits \subseteq Modifiers /\ {"0", "-", ",", ".", "*", "l", "n", "h", "e"} \subseteq Modifiers
  BY DigitChars DEF Modifiers
<1> HIDE DEF p1, y, others
<1>6. m = 9
  <2>1. m # 1
    <3>1. m = 1 => Head(format) \in {"n", "h", "e"}
      BY <1>3 DEF Standing
    <3> QED
      BY <1>5, <3>1
  <2>2. m # 2 /\ m # 3 /\ m # 4
    BY <1>3, <1>5 DEF Standing
  <2>3. m # 5 /\ m # 7
    BY <1>3, <1>5 DEF Standing
  <2>4. m # 6 /\ m # 8
    BY <1>3, <1>5 DEF Standing
  <2> QED
    BY <1>1, <2>1, <2>2, <2>3, <2>4
<1>7. m + 1 = 10 /\ 9 + 1 = 10
  BY <1>6
<1>8. p1.conv # "end" /\ Head(format) = p1.conv /\ Tail(format) = join(left(p1, 10), y)
  BY <1>3, <1>6, <1>7 DEF Standing
<1>9. Tail(format) = y
  <2>1. left(p1, 10) = << >>
    BY <1>1, LeftFacts
  <2> QED
    BY <1>4, <1>8, <2>1, ConcatEmptySeq DEF join
<1>10. argsLeft(p1, 9) = when(p1.conv \in Taking, <<p1.value>>)
  BY DEF argsLeft
<1>11. p1.conv \notin Taking => arguments = others
  <2> SUFFICES ASSUME p1.conv \notin Taking
               PROVE  arguments = others
    OBVIOUS
  <2>1. arguments = << >> \o others
    BY <1>1, <1>6, <1>10 DEF when, join
  <2> QED
    BY <1>4, <2>1, ConcatEmptySeq
<1>12. p1.conv \in Taking => Head(arguments) = p1.value /\ Tail(arguments) = others
  <2> SUFFICES ASSUME p1.conv \in Taking
               PROVE  Head(arguments) = p1.value /\ Tail(arguments) = others
    OBVIOUS
  <2> DEFINE D == Values(request)
             v == p1.value
             none == << >>
  <2>1. v \in D /\ others \in Seq(D) /\ none \in Seq(D) /\ <<v>> \in Seq(D)
    BY <1>4
  <2>2. arguments = join(<<v>>, others)
    BY <1>1, <1>6, <1>10 DEF when
  <2> HIDE DEF D, v
  <2>3. join(<<v>>, none) = <<v>> /\ join(none, others) = others
    BY <2>1, ConcatEmptySeq DEF join
  <2> HIDE DEF none
  <2>4. /\ Head(join(join(<<v>>, none), others)) = v
        /\ Tail(join(join(<<v>>, none), others)) = join(none, others)
    BY <2>1, HeadOfJoin
  <2> QED
    BY <2>2, <2>3, <2>4 DEF v
<1> QED
  BY <1>6, <1>8, <1>9, <1>11, <1>12 DEF ConversionStands, p1, y, others

(* Attribute ends the directive, unless the call has no attributes.         *)
LEMMA AttributeStep ==
  ASSUME NEW k, NEW m, Before(k, m), Attribute, Plain(request)
  PROVE  state' = "text" /\ Between(request, k + 1, format', arguments', out')
<1> DEFINE p1 == request.pieces[k + 1]
           c == lastSet(request, k)
           y == ahead(request, k + 1)
           others == given(request, k + 1)
           new == colourOf(request, p1.conv)
           text == textTo(request, k)
<1>1. /\ request \in Requests /\ k \in 0..(Len(request.pieces) - 1)
      /\ accepted(p1) /\ p1.conv # "text" /\ Emitted(request, out, text)
  BY BeforeFacts
<1>2. /\ Head(format) \in Attributes /\ format' = Tail(format) /\ arguments' = arguments
      /\ IF attributeOf(Head(format)) # NoAttribute
           THEN out' = PSETATTR(out, attributeOf(Head(format))) /\ state' = "text"
           ELSE UNCHANGED <<out, state>>
  BY DEF Attribute, current
<1>3. Attributes \cap Modifiers = {} /\ Attributes \cap Taking = {}
  <2>1. DecimalDigits \cap Attributes = {}
    BY DigitChars DEF Attributes
  <2> QED
    BY <2>1 DEF Modifiers, Attributes, Taking
<1>4. ConversionStands(p1, format, arguments, y, others)
  <2>1. Head(format) \notin Modifiers
    BY <1>2, <1>3
  <2> QED
    BY <2>1, ConversionAhead
<1>5. k + 1 \in 1..Len(request.pieces) /\ k \in 0..Len(request.pieces) /\ text \in Seq(Cells)
  BY <1>1, DirectiveParts
<1>6. p1.conv \in Attributes => request.console
  BY <1>5 DEF Plain
<1>7. p1.conv \in Attributes => lastSet(request, k + 1) = new
  BY <1>1, ColourFacts
<1>8. codeShown(p1) = << >> \/ p1.conv \notin Attributes
  BY DEF codeShown, Attributes
<1>9. textTo(request, k + 1) = join(text, shownBy(request, k + 1))
      /\ shownBy(request, k + 1) = inAttribute(lines(codeShown(p1)), colourIn(request, k + 1))
  BY <1>1, TextToFacts DEF shownBy
<1>10. colourIn(request, k + 1) \in Colours
  BY <1>1, <1>5, ColourFacts
<1> HIDE DEF p1, c, y, others, text
<1>11. p1.conv \in Attributes /\ Head(format) = p1.conv
  BY <1>2, <1>4 DEF ConversionStands
<1>12. p1.conv \in {"n", "N", "h", "H", "e", "E"}
  BY <1>11 DEF Attributes
<1>13. new \in Colours /\ new # NoAttribute /\ attributeOf(Head(format)) = new
  BY <1>1, <1>6, <1>11, <1>12, SameColours, ColourFacts
<1> HIDE DEF new
<1>14. out' = PSETATTR(out, new) /\ state' = "text"
  BY <1>2, <1>13
<1>15. format' = y /\ arguments' = others
  BY <1>2, <1>3, <1>4, <1>11 DEF ConversionStands
<1>16. textTo(request, k + 1) = text
  <2> DEFINE b == colourIn(request, k + 1)
  <2>1. b \in Colours
    BY <1>10
  <2>2. lines(<< >>) = << >>
    <3> DEFINE none == << >>
    <3>1. none \in Seq(Alphabet) /\ Len(none) = 0
      OBVIOUS
    <3> HIDE DEF none
    <3>2. PICK t : LinesOf(t, none)
      BY <3>1, LinesFacts
    <3>3. lines(none) = t[Len(none)] /\ t[0] = << >>
      BY <3>2 DEF LinesOf
    <3> QED
      BY <3>1, <3>3 DEF none
  <2> HIDE DEF b
  <2>3. inAttribute(<< >>, b) = << >>
    BY <2>1, ColouredFacts
  <2>4. shownBy(request, k + 1) = << >>
    BY <1>8, <1>9, <1>11, <2>2, <2>3 DEF b
  <2> QED
    BY <1>5, <1>9, <2>4, ConcatEmptySeq DEF join
<1>17. Emitted(request, out', textTo(request, k + 1)) /\ out'.attr = lastSet(request, k + 1)
  <2>1. Emitted(request, PSETATTR(out, new), text) /\ PSETATTR(out, new).attr = new
    BY <1>1, <1>13, SettingKeeps
  <2> QED
    BY <1>7, <1>11, <1>14, <1>16, <2>1
<1> QED
  BY <1>14, <1>15, <1>17 DEF Between, y, others

(* What the item says when its conversion is reached. *)
IsComplete(p1, i) ==
  /\ i.fieldWidth = p1.field /\ i.padBefore = ~p1.left
  /\ i.width = widthOf(p1) /\ i.pad = padOf(p1)

(* When the conversion is reached the item has heard all of the directive.  *)
LEMMA ItemComplete ==
  ASSUME NEW p1, accepted(p1), p1.conv # "text", NEW c, ItemAt(p1, c, 9, item)
  PROVE  /\ IsComplete(p1, IF p1.conv = "X" THEN [item EXCEPT !.width = hexWidth(item.long), !.pad = "0"] ELSE item)
         /\ item.long = p1.long /\ item.comma = p1.comma
<1> DEFINE i == IF p1.conv = "X" THEN [item EXCEPT !.width = hexWidth(item.long), !.pad = "0"] ELSE item
<1>0. item \in Items
  BY DEF ItemAt
<1>1. /\ item.fieldWidth = (IF 9 >= 8 THEN p1.field ELSE Unlimited)
      /\ item.width = (IF 9 >= 6 THEN p1.width ELSE 0)
      /\ item.pad = IF 9 >= 3 /\ p1.zero THEN "0" ELSE Blank
  BY DEF ItemAt
<1>2. FlagAt(9, 4, item.padBefore, ~p1.left, TRUE) /\ FlagAt(9, 5, item.comma, p1.comma, FALSE)
      /\ FlagAt(9, 9, item.long, p1.long, FALSE)
  BY DEF ItemAt
<1>3. ASSUME NEW n \in {4, 5, 9}, NEW flag, NEW value, NEW unset, FlagAt(9, n, flag, value, unset)
      PROVE  flag = value
  <2>1. 9 >= n
    OBVIOUS
  <2> QED
    BY <1>3, <2>1 DEF FlagAt
<1>4. 4 \in {4, 5, 9} /\ 5 \in {4, 5, 9} /\ 9 \in {4, 5, 9}
  OBVIOUS
<1> DEFINE l == ~p1.left
<1> HIDE DEF l
<1>5. item.padBefore = l /\ item.comma = p1.comma /\ item.long = p1.long
  BY <1>2, <1>3, <1>4, Zenon DEF l
<1>6. item.fieldWidth = p1.field /\ item.width = p1.width /\ item.pad = IF p1.zero THEN "0" ELSE Blank
  BY <1>1
<1>7. i.fieldWidth = item.fieldWidth /\ i.padBefore = item.padBefore
  BY <1>0 DEF Items
<1>8. i.width = widthOf(p1) /\ i.pad = padOf(p1)
  <2>1. CASE p1.conv = "X"
    <3> DEFINE w == hexWidth(item.long)
    <3>1. i = [item EXCEPT !.width = w, !.pad = "0"]
      BY <2>1
    <3>2. widthOf(p1) = w /\ padOf(p1) = "0"
      BY <1>5, <2>1 DEF widthOf, padOf
    <3> HIDE DEF w, i
    <3>3. i.width = w /\ i.pad = "0"
      BY <1>0, <3>1 DEF Items
    <3> QED
      BY <3>2, <3>3
  <2>2. CASE p1.conv # "X"
    BY <1>6, <2>2 DEF widthOf, padOf
  <2> QED
    BY <2>1, <2>2
<1> HIDE DEF i
<1>9. i.padBefore = l
  BY <1>5, <1>7
<1> QED
  BY <1>5, <1>6, <1>7, <1>8, <1>9 DEF IsComplete, i, l

(* Item ends the directive, and what it puts out is what is to be shown.    *)
LEMMA ItemStep ==
  ASSUME NEW k, NEW m, Before(k, m), Item
  PROVE  state' = "text" /\ Between(request, k + 1, format', arguments', out')
<1> DEFINE p1 == request.pieces[k + 1]
           c == lastSet(request, k)
           y == ahead(request, k + 1)
           others == given(request, k + 1)
           text == textTo(request, k)
           all == textTo(request, k + 1)
           shows1 == codeShown(p1)
           i == IF p1.conv = "X" THEN [item EXCEPT !.width = hexWidth(item.long), !.pad = "0"] ELSE item
           o1 == PITEM(i, codeMeaning(p1))
<1>1. /\ request \in Requests /\ k \in 0..(Len(request.pieces) - 1)
      /\ accepted(p1) /\ p1.conv # "text" /\ Emitted(request, out, text)
      /\ InDirective(request, k, m, format, arguments, item, out)
      /\ ItemAt(p1, c, m, item)
  BY BeforeFacts
<1>2. Head(format) \notin Modifiers \cup Attributes /\ format' = Tail(format) /\ state' = "text"
  BY DEF Item, current
<1>3. m = 9 /\ ConversionStands(p1, format, arguments, y, others)
  <2>1. Head(format) \notin Modifiers
    BY <1>2
  <2> QED
    BY <2>1, ConversionAhead
<1>4. Head(format) = p1.conv /\ p1.conv \notin Attributes \cup {"text", "end"} /\ format' = y
  BY <1>1, <1>2, <1>3 DEF ConversionStands
<1>5. /\ out' = restored(PITEM(i, itemText(p1.conv, IF p1.conv \in Taking THEN Head(arguments) ELSE NULL)))
      /\ arguments' = IF p1.conv \in Taking THEN Tail(arguments) ELSE arguments
  BY <1>4 DEF Item, current
<1>6. arguments' = others /\ (p1.conv \in Taking => Head(arguments) = p1.value)
  BY <1>3, <1>5 DEF ConversionStands
<1>7. IsComplete(p1, i) /\ item.long = p1.long /\ item.comma = p1.comma
  <2>1. ItemAt(p1, c, 9, item)
    BY <1>1, <1>3
  <2> HIDE DEF p1, c
  <2> QED
    BY <1>1, <2>1, ItemComplete
<1>8. itemText(p1.conv, IF p1.conv \in Taking THEN Head(arguments) ELSE NULL) = codeMeaning(p1)
  <2>1. itemText(p1.conv, IF p1.conv \in Taking THEN p1.value ELSE NULL) = made(p1)
    <3> HIDE DEF p1
    <3> QED
      BY <1>4, <1>7, MadeFromItem
  <2>2. made(p1) = codeMeaning(p1)
    <3> HIDE DEF p1
    <3> QED
      BY <1>1, <1>4, ItemTextFacts
  <2>3. (IF p1.conv \in Taking THEN Head(arguments) ELSE NULL) = IF p1.conv \in Taking THEN p1.value ELSE NULL
    BY <1>6
  <2> HIDE DEF p1
  <2> QED
    BY <2>1, <2>2, <2>3
<1>9. out' = restored(o1)
  BY <1>5, <1>8
<1>10. o1 = puts(out, shows1) /\ shows1 \in Seq(Alphabet)
  <2> HIDE DEF p1, i
  <2>1. i.fieldWidth = p1.field /\ i.padBefore = ~p1.left /\ i.width = widthOf(p1) /\ i.pad = padOf(p1)
    BY <1>7, Zenon DEF IsComplete
  <2>2. PITEM(i, codeMeaning(p1)) = puts(out, codeShown(p1))
    BY <1>1, <1>4, <2>1, PitemFacts
  <2>3. codeShown(p1) \in Seq(Alphabet)
    BY <1>1, ShownFacts
  <2> QED
    BY <2>2, <2>3
<1>11. out.attr = IF p1.attr # NoAttribute THEN colourOf(request, p1.attr) ELSE c
  <2>1. out.attr = IF m >= 2 /\ p1.attr # NoAttribute THEN colourOf(request, p1.attr) ELSE c
    BY <1>1 DEF InDirective
  <2>2. m >= 2
    BY <1>3
  <2> HIDE DEF p1, c
  <2> QED
    BY <2>1, <2>2
<1>12. out.attr = colourIn(request, k + 1)
  <2>1. (k + 1) - 1 = k
    BY <1>1
  <2>2. ownColour(request, k + 1) <=> p1.attr # NoAttribute
    BY <1>1 DEF ownColour
  <2>3. colourIn(request, k + 1) = IF ownColour(request, k + 1) THEN colourOf(request, p1.attr) ELSE c
    BY <2>1 DEF colourIn
  <2> HIDE DEF p1, c
  <2> QED
    BY <1>11, <2>2, <2>3
<1>13. all = join(text, inAttribute(lines(shows1), out.attr))
  BY <1>1, <1>12, TextToFacts DEF shownBy
<1>14. lastSet(request, k + 1) = c
  BY <1>1, <1>4, ColourFacts
<1>15. request \in Requests /\ k \in 0..(Len(request.pieces) - 1) /\ m \in 2..10
  BY <1>1, <1>3
<1> HIDE DEF text, shows1, all, o1, i
<1>16. Emitted(request, o1, all) /\ o1.attr = out.attr
  BY <1>1, <1>10, <1>13, PutsFacts
<1>17. Emitted(request, restored(o1), all) /\ restored(o1).attr = c
  BY <1>1, <1>11, <1>15, <1>16, Restores
<1>18. Emitted(request, out', all) /\ out'.attr = lastSet(request, k + 1)
  BY <1>9, <1>14, <1>17
<1> QED
  BY <1>2, <1>4, <1>6, <1>18 DEF Between, all

(* Where the reading of a call stands, and what has been put out by then. *)
Reading(r, s, f, a, i, o) ==
  /\ s \in {"text", "directive", "done", "beyond"}
  /\ s = "text" =>
       \/ \E k \in 0..Len(r.pieces) : Between(r, k, f, a, o)
       \/ \E k \in 0..(Len(r.pieces) - 1) :
            \E j \in 0..(Len(r.pieces[k + 1].value) - 1) : Within(r, k, j, f, a, o)
  /\ s = "directive" =>
       \E k \in 0..(Len(r.pieces) - 1), m \in 1..10 : InDirective(r, k, m, f, a, i, o)
  /\ s = "done" => o.flushed = roomIn(r, textTo(r, Len(r.pieces))) /\ o.len = Len(textTo(r, Len(r.pieces)))
  /\ s = "beyond" => Last(r.pieces).conv = "end"
  /\ Fragment(r, o)

(* The inductive invariant: of a plain call, the reading is in its place.   *)
TextInvariant ==
  /\ request \in Requests
  /\ Plain(request) => Reading(request, state, format, arguments, item, out)

(* A call starts in front of its first part.                                *)
LEMMA TextStarts == TextInit => TextInvariant
<1> SUFFICES ASSUME TextInit
             PROVE  TextInvariant
  OBVIOUS
<1> DEFINE n == Len(request.pieces)
<1>1. request \in Requests /\ state = "text"
      /\ format = each(spelled, request.pieces) /\ arguments = each(argumentsOf, request.pieces)
      /\ out = [buffer |-> << >>, attr |-> attribute("initial"), len |-> 0, flushed |-> << >>]
  BY DEF TextInit, TextStart
<1>2. n \in Nat /\ 0 \in 0..n
  BY <1>1, PiecesFacts
<1>3. format = ahead(request, 0) /\ arguments = given(request, 0)
  BY <1>1, CallFacts, GivenFacts
<1>4. textTo(request, 0) = << >> /\ lastSet(request, 0) \in Colours /\ out.attr = lastSet(request, 0)
  BY <1>1, <1>2, TextToFacts, ColourFacts, SameColours
<1>5. Emitted(request, out, textTo(request, 0))
  <2> DEFINE none == << >>
             c == lastSet(request, 0)
  <2>1. none \in Seq(Cells) /\ none \in Seq(Alphabet) /\ Len(none) = 0
    OBVIOUS
  <2>2. out \in Outs /\ out.buffer = none /\ out.attr = c /\ out.len = 0 /\ out.flushed = none
    <3>1. out = [buffer |-> none, attr |-> c, len |-> 0, flushed |-> none]
      BY <1>1, SameColours
    <3>2. c \in Colours
      BY <1>4
    <3> HIDE DEF none, c
    <3> QED
      BY <2>1, <3>1, <3>2 DEF Outs
  <2>3. c \in Colours /\ textTo(request, 0) = none
    BY <1>4
  <2>4. inAttribute(none, c) = none
    BY <2>3, ColouredFacts
  <2> HIDE DEF none, c
  <2>5. none = join(none, none)
    BY <2>1, ConcatEmptySeq DEF join
  <2>6. roomIn(request, none) = none
    <3>1. CASE request.console
      BY <3>1 DEF roomIn
    <3>2. CASE ~request.console
      <4>1. request.size \in Nat /\ request.size >= 2
        BY <1>1, <3>2, FirmwareTextAssumption
      <4>2. 0 <= (request.size \div 2) - 1
        BY <4>1
      <4> QED
        BY <2>1, <3>2, <4>2 DEF roomIn, atMost
    <3> QED
      BY <3>1, <3>2
  <2> QED
    BY <2>1, <2>2, <2>3, <2>4, <2>5, <2>6 DEF Emitted
<1>6. Between(request, 0, format, arguments, out)
  BY <1>3, <1>4, <1>5 DEF Between
<1>7. Fragment(request, out)
  BY <1>1, <1>2, <1>5, BetweenIsFragment
<1> HIDE DEF n
<1>8. Reading(request, state, format, arguments, item, out)
  BY <1>1, <1>2, <1>6, <1>7 DEF Reading, n
<1> QED
  BY <1>1, <1>8 DEF TextInvariant

(* In the text there is always a literal part or a directive ahead. *)
LEMMA TextAhead ==
  ASSUME request \in Requests, NEW k \in 0..(Len(request.pieces) - 1),
         Between(request, k, format, arguments, out)
  PROVE  \/ request.pieces[k + 1].conv # "text"
         \/ \E j \in 0..(Len(request.pieces[k + 1].value) - 1) : Within(request, k, j, format, arguments, out)
<1> SUFFICES ASSUME request.pieces[k + 1].conv = "text"
             PROVE  \E j \in 0..(Len(request.pieces[k + 1].value) - 1) : Within(request, k, j, format, arguments, out)
  OBVIOUS
<1> DEFINE v == request.pieces[k + 1].value
<1>1. v \in Seq(Alphabet)
  BY TextParts
<1>2. v # << >>
  <2>1. accepted(request.pieces[k + 1])
    BY DirectiveParts
  <2> QED
    BY <2>1 DEF accepted
<1>3. Within(request, k, 0, format, arguments, out)
  BY OpensText
<1> HIDE DEF v
<1>4. Len(v) \in Nat /\ Len(v) # 0
  BY <1>1, <1>2
<1>5. 0 \in 0..(Len(v) - 1)
  BY <1>4
<1> QED
  BY <1>3, <1>5 DEF v

(* ... or the end of the format.                                            *)
LEMMA TextCases ==
  ASSUME request \in Requests, state = "text", Reading(request, state, format, arguments, item, out)
  PROVE  \/ \E k \in 0..(Len(request.pieces) - 1) :
              \E j \in 0..(Len(request.pieces[k + 1].value) - 1) : Within(request, k, j, format, arguments, out)
         \/ \E k \in 0..(Len(request.pieces) - 1) :
              request.pieces[k + 1].conv # "text" /\ Between(request, k, format, arguments, out)
         \/ format = << >> /\ Between(request, Len(request.pieces), format, arguments, out)
<1> DEFINE n == Len(request.pieces)
<1>1. n \in Nat /\ ahead(request, n) = << >>
  BY PiecesFacts, CallFacts
<1>2. CASE \E k \in 0..n : Between(request, k, format, arguments, out)
  <2>1. PICK k \in 0..n : Between(request, k, format, arguments, out)
    BY <1>2
  <2>2. CASE k = n
    <3>1. format = << >>
      BY <1>1, <2>1, <2>2 DEF Between
    <3> QED
      BY <2>1, <2>2, <3>1
  <2>3. CASE k # n
    <3>1. k \in 0..(n - 1)
      BY <1>1, <2>3
    <3> QED
      BY <2>1, <3>1, TextAhead
  <2> QED
    BY <2>2, <2>3
<1>3. \/ \E k \in 0..n : Between(request, k, format, arguments, out)
      \/ \E k \in 0..(n - 1) :
           \E j \in 0..(Len(request.pieces[k + 1].value) - 1) : Within(request, k, j, format, arguments, out)
  BY DEF Reading
<1> QED
  BY <1>2, <1>3

(* In a directive there is always a symbol ahead, or the end of the format. *)
LEMMA DirectiveCases ==
  ASSUME request \in Requests, state = "directive", Reading(request, state, format, arguments, item, out)
  PROVE  \E k \in 0..(Len(request.pieces) - 1) :
           \/ format # << >> /\ \E m \in 1..9 : Before(k, m)
           \/ format = << >> /\ InDirective(request, k, 10, format, arguments, item, out)
<1>1. PICK k \in 0..(Len(request.pieces) - 1), m \in 1..10 : InDirective(request, k, m, format, arguments, item, out)
  BY DEF Reading
<1>2. PICK m1 \in 1..10 : Ready(request, k, m1, format, arguments, item, out)
  BY <1>1, DirectiveReady
<1>3. CASE m1 = 10
  <2>1. InDirective(request, k, 10, format, arguments, item, out)
    BY <1>2, <1>3 DEF Ready
  <2>2. format = << >>
    BY <2>1, AtTheEnd
  <2> QED
    BY <2>1, <2>2
<1>4. CASE m1 # 10
  <2>1. m1 \in 1..9
    BY <1>4
  <2>2. Before(k, m1)
    BY <1>2, <2>1 DEF Before
  <2>3. format # << >>
    BY <2>2, BeforeFacts
  <2> QED
    BY <2>1, <2>2, <2>3
<1> QED
  BY <1>3, <1>4

(* Each step keeps the reading in its place. *)
LEMMA PlainCharacterReads ==
  ASSUME request \in Requests, Reading(request, state, format, arguments, item, out), PlainCharacter
  PROVE  Reading(request, state', format', arguments', item', out')
<1>1. /\ state = "text" /\ format # << >> /\ Head(format) # "%" /\ out' = PPUTC(out, Head(format))
      /\ format' = Tail(format) /\ arguments' = arguments /\ state' = "text"
  BY DEF PlainCharacter, reading, current
<1>2. PICK k \in 0..(Len(request.pieces) - 1) :
        \E j \in 0..(Len(request.pieces[k + 1].value) - 1) : Within(request, k, j, format, arguments, out)
  <2>1. ASSUME NEW k \in 0..(Len(request.pieces) - 1),
               request.pieces[k + 1].conv # "text", Between(request, k, format, arguments, out)
        PROVE  FALSE
    <3>1. Head(format) = "%"
      BY <2>1, PercentOpens
    <3> QED
      BY <1>1, <3>1
  <2> QED
    BY <1>1, <2>1, TextCases
<1> DEFINE l == Len(request.pieces[k + 1].value)
<1>3. PICK j \in 0..(l - 1) : Within(request, k, j, format, arguments, out)
  BY <1>2
<1>4. Within(request, k, j + 1, format', arguments', out')
  <2>1. Within(request, k, j + 1, Tail(format), arguments, PPUTC(out, Head(format)))
    BY <1>3, WithinStep
  <2> QED
    BY <1>1, <2>1
<1>5. l \in Nat
  <2>1. request.pieces[k + 1].value \in Seq(Alphabet)
    <3>1. request.pieces[k + 1].conv = "text"
      BY <1>3 DEF Within
    <3> QED
      BY <3>1, TextParts
  <2> QED
    BY <2>1
<1>6. j + 1 \in 0..l
  BY <1>5
<1> DEFINE f1 == format'
           a1 == arguments'
           o1 == out'
<1>7. Within(request, k, j + 1, f1, a1, o1)
  BY <1>4
<1> HIDE DEF f1, a1, o1
<1>8. PICK e \in 0..l : e = j + 1
  BY <1>6
<1>9. Fragment(request, o1)
  BY <1>7, <1>8, WithinIsFragment
<1>10. \/ \E b \in 0..Len(request.pieces) : Between(request, b, f1, a1, o1)
       \/ \E b \in 0..(Len(request.pieces) - 1) :
            \E d \in 0..(Len(request.pieces[b + 1].value) - 1) : Within(request, b, d, f1, a1, o1)
  <2>1. CASE e = l
    <3>1. Within(request, k, l, f1, a1, o1)
      BY <1>7, <1>8, <2>1
    <3>2. Between(request, k + 1, f1, a1, o1)
      BY <3>1, ClosesText
    <3>3. k + 1 \in 0..Len(request.pieces)
      BY DirectiveParts
    <3> QED
      BY <3>2, <3>3
  <2>2. CASE e # l
    <3>1. e \in 0..(l - 1)
      BY <1>5, <2>2
    <3> QED
      BY <1>7, <1>8, <3>1
  <2> QED
    BY <2>1, <2>2
<1> QED
  BY <1>1, <1>9, <1>10 DEF Reading, f1, a1, o1

LEMMA PercentReads ==
  ASSUME request \in Requests, Reading(request, state, format, arguments, item, out), Percent
  PROVE  Reading(request, state', format', arguments', item', out')
<1>1. /\ state = "text" /\ format # << >> /\ Head(format) = "%" /\ out' = out
      /\ format' = Tail(format) /\ arguments' = arguments /\ state' = "directive" /\ item' = noItem
  BY DEF Percent, reading, current
<1>2. PICK k \in 0..(Len(request.pieces) - 1) :
        request.pieces[k + 1].conv # "text" /\ Between(request, k, format, arguments, out)
  <2>1. ASSUME NEW k \in 0..(Len(request.pieces) - 1),
               NEW j \in 0..(Len(request.pieces[k + 1].value) - 1), Within(request, k, j, format, arguments, out)
        PROVE  FALSE
    <3>1. Head(format) # "%"
      BY <2>1, WithinStep
    <3> QED
      BY <1>1, <3>1
  <2> QED
    BY <1>1, <2>1, TextCases
<1>3. InDirective(request, k, 1, Tail(format), arguments, noItem, out)
  BY <1>2, PercentOpens
<1>4. InDirective(request, k, 1, format', arguments', item', out')
  BY <1>1, <1>3
<1>5. Fragment(request, out')
  BY <1>1 DEF Reading
<1>6. 1 \in 1..10
  OBVIOUS
<1> QED
  BY <1>1, <1>4, <1>5, <1>6 DEF Reading

LEMMA EndOfFormatReads ==
  ASSUME request \in Requests, Reading(request, state, format, arguments, item, out), EndOfFormat
  PROVE  Reading(request, state', format', arguments', item', out')
<1> DEFINE n == Len(request.pieces)
           all == textTo(request, n)
<1>1. state = "text" /\ format = << >> /\ out' = PFLUSH(out) /\ state' = "done"
  BY DEF EndOfFormat
<1>2. Between(request, n, format, arguments, out)
  <2>1. ASSUME NEW k \in 0..(Len(request.pieces) - 1),
               NEW j \in 0..(Len(request.pieces[k + 1].value) - 1), Within(request, k, j, format, arguments, out)
        PROVE  FALSE
    <3>1. format # << >>
      BY <2>1, WithinStep
    <3> QED
      BY <1>1, <3>1
  <2>2. ASSUME NEW k \in 0..(Len(request.pieces) - 1),
               request.pieces[k + 1].conv # "text", Between(request, k, format, arguments, out)
        PROVE  FALSE
    <3>1. format # << >>
      BY <2>2, PercentOpens
    <3> QED
      BY <1>1, <3>1
  <2> QED
    BY <1>1, <2>1, <2>2, TextCases
<1>3. Emitted(request, out, all)
  BY <1>2 DEF Between
<1>4. n \in 0..n
  <2>1. n \in Nat
    BY PiecesFacts
  <2> QED
    BY <2>1
<1> HIDE DEF all
<1>5. Emitted(request, out', all) /\ out'.flushed = roomIn(request, all)
  <2>1. Emitted(request, PFLUSH(out), all) /\ PFLUSH(out).flushed = roomIn(request, all)
    BY <1>3, FlushKeeps
  <2> QED
    BY <1>1, <2>1
<1> DEFINE o1 == out'
<1>6. Emitted(request, o1, textTo(request, n)) /\ o1.flushed = roomIn(request, textTo(request, n))
  BY <1>5 DEF all
<1> HIDE DEF o1, n
<1>7. o1.len = Len(textTo(request, n))
  BY <1>6 DEF Emitted
<1>8. Fragment(request, o1)
  BY <1>4, <1>6, BetweenIsFragment DEF n
<1> QED
  BY <1>1, <1>6, <1>7, <1>8 DEF Reading, o1, n

LEMMA UnfinishedReads ==
  ASSUME request \in Requests, Reading(request, state, format, arguments, item, out), Unfinished
  PROVE  Reading(request, state', format', arguments', item', out')
<1>1. state = "directive" /\ format = << >> /\ state' = "beyond"
  BY DEF Unfinished
<1>2. PICK k \in 0..(Len(request.pieces) - 1) : InDirective(request, k, 10, format, arguments, item, out)
  BY <1>1, DirectiveCases
<1>3. Fragment(request, out') /\ Last(request.pieces).conv = "end"
  BY <1>2, UnfinishedStep
<1> QED
  BY <1>1, <1>3 DEF Reading

LEMMA ModifierReads ==
  ASSUME request \in Requests, Reading(request, state, format, arguments, item, out),
         Flag \/ Star \/ Number \/ FieldAttribute
  PROVE  Reading(request, state', format', arguments', item', out')
<1>1. state = "directive" /\ format # << >> /\ state' = "directive"
  BY DEF Flag, Star, Number, FieldAttribute, reading
<1>2. PICK k \in 0..(Len(request.pieces) - 1), m \in 1..9 : Before(k, m)
  BY <1>1, DirectiveCases
<1>3. m + 1 \in 1..10 /\ InDirective(request, k, m + 1, format', arguments', item', out')
  <2>1. CASE Flag
    BY <1>2, <2>1, FlagStep
  <2>2. CASE Star
    BY <1>2, <2>2, StarStep
  <2>3. CASE Number
    BY <1>2, <2>3, NumberStep
  <2>4. CASE FieldAttribute
    BY <1>2, <2>4, FieldAttributeStep
  <2> QED
    BY <2>1, <2>2, <2>3, <2>4
<1>4. Fragment(request, out')
  <2> DEFINE o1 == out'
  <2>1. Emitted(request, o1, textTo(request, k))
    BY <1>3 DEF InDirective
  <2>2. k \in 0..Len(request.pieces)
    BY DirectiveParts
  <2> HIDE DEF o1
  <2>3. Fragment(request, o1)
    BY <2>1, <2>2, BetweenIsFragment
  <2> QED
    BY <2>3 DEF o1
<1> QED
  BY <1>1, <1>3, <1>4 DEF Reading

(* ... whatever is set, taken from the arguments and put out.               *)
LEMMA ConversionReads ==
  ASSUME request \in Requests, Plain(request), Reading(request, state, format, arguments, item, out),
         Item \/ Attribute
  PROVE  Reading(request, state', format', arguments', item', out')
<1>1. state = "directive" /\ format # << >>
  BY DEF Item, Attribute, reading
<1>2. PICK k \in 0..(Len(request.pieces) - 1), m \in 1..9 : Before(k, m)
  BY <1>1, DirectiveCases
<1>3. state' = "text" /\ Between(request, k + 1, format', arguments', out')
  <2>1. CASE Item
    BY <1>2, <2>1, ItemStep
  <2>2. CASE Attribute
    BY <1>2, <2>2, AttributeStep
  <2> QED
    BY <2>1, <2>2
<1>4. k + 1 \in 0..Len(request.pieces)
  BY DirectiveParts
<1>5. Fragment(request, out')
  <2> DEFINE o1 == out'
             e == k + 1
  <2>1. Emitted(request, o1, textTo(request, e)) /\ e \in 0..Len(request.pieces)
    BY <1>3, <1>4 DEF Between
  <2> HIDE DEF o1, e
  <2>2. Fragment(request, o1)
    BY <2>1, BetweenIsFragment
  <2> QED
    BY <2>2 DEF o1
<1> QED
  BY <1>3, <1>4, <1>5 DEF Reading

(* The invariant is inductive.                                              *)
LEMMA TextGoesOn == TextInvariant /\ [TextNext]_textVars => TextInvariant'
<1> SUFFICES ASSUME TextInvariant, [TextNext]_textVars
             PROVE  TextInvariant'
  OBVIOUS
<1>1. request \in Requests /\ (Plain(request) => Reading(request, state, format, arguments, item, out))
  BY DEF TextInvariant
<1>2. request' = request
  BY DEF TextNext, textVars, PlainCharacter, Percent, Flag, Star, Number, Item,
         FieldAttribute, Attribute, EndOfFormat, Unfinished
<1>3. SUFFICES ASSUME Plain(request)
               PROVE  Reading(request, state', format', arguments', item', out')
  BY <1>1, <1>2 DEF TextInvariant
<1>4. Reading(request, state, format, arguments, item, out)
  BY <1>1, <1>3
<1>5. CASE UNCHANGED textVars
  BY <1>4, <1>5 DEF textVars
<1>6. CASE PlainCharacter
  BY <1>1, <1>4, <1>6, PlainCharacterReads
<1>7. CASE Percent
  BY <1>1, <1>4, <1>7, PercentReads
<1>8. CASE Flag \/ Star \/ Number \/ FieldAttribute
  BY <1>1, <1>4, <1>8, ModifierReads
<1>9. CASE Item \/ Attribute
  BY <1>1, <1>3, <1>4, <1>9, ConversionReads
<1>10. CASE EndOfFormat
  BY <1>1, <1>4, <1>10, EndOfFormatReads
<1>11. CASE Unfinished
  BY <1>1, <1>4, <1>11, UnfinishedReads
<1> QED
  BY <1>5, <1>6, <1>7, <1>8, <1>9, <1>10, <1>11 DEF TextNext

(* Filling up what is long enough changes nothing, on either side.          *)
LEMMA LongEnough ==
  ASSUME NEW seq \in Seq(Alphabet), NEW n \in Int, n <= Len(seq), NEW char \in Alphabet
  PROVE  filledUp(seq, n, char) = seq /\ filledOut(seq, n, char) = seq
<1>1. n - Len(seq) \in Int /\ n - Len(seq) <= 0
  OBVIOUS
<1>2. copies(n - Len(seq), char) = << >>
  <2> DEFINE less == n - Len(seq)
  <2>1. less \in Int /\ less <= 0
    BY <1>1
  <2> HIDE DEF less
  <2>2. copies(less, char) = << >>
    BY <2>1, CopiesFacts
  <2> QED
    BY <2>2 DEF less
<1>3. filledUp(seq, n, char) = << >> \o seq /\ filledOut(seq, n, char) = seq \o << >>
  BY <1>2 DEF filledUp, filledOut
<1> QED
  BY <1>3, ConcatEmptySeq

(* A text filled up in front.                                               *)
LEMMA FilledUpFacts ==
  ASSUME NEW seq \in Seq(Alphabet), NEW n \in Nat, NEW char \in Alphabet
  PROVE  /\ filledUp(seq, n, char) \in Seq(Alphabet)
         /\ Len(filledUp(seq, n, char)) = IF Len(seq) > n THEN Len(seq) ELSE n
<1> DEFINE less == n - Len(seq)
           pads == copies(less, char)
<1>1. less \in Int /\ Len(seq) \in Nat
  OBVIOUS
<1>2. pads \in Seq(Alphabet) /\ Len(pads) = IF less > 0 THEN less ELSE 0
  <2> HIDE DEF less
  <2> QED
    BY <1>1, CopiesFacts
<1>3. filledUp(seq, n, char) = pads \o seq
  BY DEF filledUp
<1> HIDE DEF pads
<1>4. pads \o seq \in Seq(Alphabet) /\ Len(pads \o seq) = Len(pads) + Len(seq)
  BY <1>2, ConcatProperties
<1> QED
  BY <1>1, <1>2, <1>3, <1>4 DEF less

(* A number that is small enough is the same with a sign.                   *)
LEMMA SmallWord ==
  ASSUME NEW u \in Nat, u < power(2, LongBits - 1)
  PROVE  signedWord(u, TRUE) = u
<1> DEFINE half == power(2, LongBits - 1)
           whole == power(2, LongBits)
<1>1. LongBits - 1 \in Nat /\ (LongBits - 1) + 1 = LongBits
  BY FirmwareTextAssumption
<1>2. half \in Nat \ {0} /\ whole = 2 * half
  <2>1. power(2, LongBits - 1) \in Nat \ {0} /\ power(2, (LongBits - 1) + 1) = 2 * power(2, LongBits - 1)
    BY <1>1, PowersOfTwo
  <2> QED
    BY <1>1, <2>1
<1>3. signedWord(u, TRUE) = IF (u % whole) < half THEN (u % whole) ELSE (u % whole) - whole
  BY DEF signedWord
<1> HIDE DEF half, whole
<1>4. u < half
  BY DEF half
<1>5. (u % whole) = u
  BY <1>2, <1>4
<1> QED
  BY <1>3, <1>4, <1>5

(* A number of %X that fills its field is the same cut before or after it   *)
(* has been filled up.                                                      *)
LEMMA CutHex ==
  ASSUME NEW digits \in Seq(Alphabet), NEW n \in Nat, NEW field \in Nat, n <= field
  PROVE  /\ filledUp(atMost(field, digits), n, "0") = atMost(field, filledUp(digits, n, "0"))
         /\ Len(atMost(field, filledUp(digits, n, "0"))) >= n
<1> DEFINE full == filledUp(digits, n, "0")
<1>0. Len(digits) \in Nat
  OBVIOUS
<1>1. PICK zero \in Alphabet : zero = "0"
  BY AlphabetFacts, DigitChars DEF Modifiers
<1>2. full \in Seq(Alphabet) /\ Len(full) = IF Len(digits) > n THEN Len(digits) ELSE n
  BY <1>1, FilledUpFacts
<1>3. CASE Len(digits) <= field
  <2>1. Len(full) <= field
    BY <1>0, <1>2, <1>3
  <2>2. atMost(field, digits) = digits
    BY <1>3 DEF atMost
  <2> HIDE DEF full
  <2>3. atMost(field, full) = full
    BY <2>1 DEF atMost
  <2> QED
    BY <1>0, <1>2, <2>2, <2>3 DEF full
<1>4. CASE ~(Len(digits) <= field)
  <2> DEFINE cut == SubSeq(digits, 1, field)
  <2>1. n <= Len(digits)
    BY <1>0, <1>4
  <2>2. full = digits
    BY <1>1, <2>1, LongEnough
  <2>3. cut \in Seq(Alphabet) /\ Len(cut) = field
    BY <1>0, <1>4
  <2>4. atMost(field, digits) = cut
    BY <1>4 DEF atMost
  <2> HIDE DEF cut
  <2>5. filledUp(cut, n, "0") = cut
    BY <1>1, <2>3, LongEnough
  <2> HIDE DEF full
  <2>6. atMost(field, full) = cut
    BY <2>2, <2>4
  <2> QED
    BY <2>3, <2>4, <2>5, <2>6 DEF full
<1> QED
  BY <1>3, <1>4

(* Where no directive is unlike the comment, the code shows what it says.   *)
LEMMA CommentKept ==
  ASSUME NEW piece, accepted(piece), ~unlikeComment(piece)
  PROVE  shownFor(piece) = codeShown(piece)
<1>1. CASE piece.conv = "text"
  BY <1>1 DEF shownFor, codeShown
<1>2. CASE piece.conv \in Attributes \cup {"end"}
  BY <1>2 DEF shownFor, codeShown, Attributes
<1>3. CASE piece.conv \notin Attributes \cup {"text", "end"}
  <2> DEFINE cut == IF piece.field = Unlimited THEN codeMeaning(piece)
                    ELSE atMost(piece.field, codeMeaning(piece))
             pad == IF piece.zero THEN "0" ELSE Blank
             f == piece.field
             w == piece.width
  <2>1. /\ piece.long \in BOOLEAN /\ piece.left \in BOOLEAN /\ piece.zero \in BOOLEAN
        /\ w \in Nat /\ (f \in Nat \/ f = Unlimited)
    <3>1. /\ {piece.zero, piece.left, piece.comma, piece.star, piece.long} \subseteq BOOLEAN
          /\ piece.width \in Nat /\ piece.field \in {Unlimited} \cup 1..99
      BY <1>3 DEF accepted
    <3>2. 1..99 \subseteq Nat
      OBVIOUS
    <3> QED
      BY <3>1, <3>2
  <2>2. pad \in Alphabet /\ "0" \in Alphabet
    <3>1. "0" \in Alphabet
      BY AlphabetFacts, DigitChars DEF Modifiers
    <3> QED
      BY <3>1, AlphabetFacts
  <2>3. codeMeaning(piece) \in Seq(Alphabet)
    BY <1>3, ItemTextFacts
  <2>4. cut \in Seq(Alphabet)
    <3>1. f # Unlimited => atMost(f, codeMeaning(piece)) \in Seq(Alphabet)
      <4>1. \A n \in Nat : atMost(n, codeMeaning(piece)) \in Seq(Alphabet)
        BY <2>3, AtMostFacts
      <4> QED
        BY <2>1, <4>1
    <3> QED
      BY <2>3, <3>1
  <2>5. ~(piece.left /\ w > Len(cutMeaning(piece)))
    BY <1>3 DEF unlikeComment
  <2>6. shownFor(piece) = IF piece.left
                            THEN filledOut(filledOut(cutMeaning(piece), w, pad), f, Blank)
                            ELSE filledUp(filledUp(cutMeaning(piece), w, pad), f, Blank)
    BY <1>3 DEF shownFor
  <2>7. CASE piece.conv # "X"
    <3>1. codeShown(piece) = IF piece.left
                               THEN filledUp(cut, w, pad) \o copies(f - Len(filledUp(cut, w, pad)), Blank)
                               ELSE filledUp(filledUp(cut, w, pad), f, Blank)
      BY <1>3, <2>7 DEF codeShown
    <3>2. meaning(piece) = codeMeaning(piece)
      <4>1. CASE piece.conv = "u"
        <5>1. unsignedWord(piece.value, piece.long) \in Nat
          <6>1. piece.value \in 0..(power(2, LongBits) - 1)
            BY <4>1 DEF accepted
          <6>2. unsignedWord(piece.value, piece.long) \in 0..(power(2, LongBits) - 1)
            BY <2>1, <6>1, WordFacts
          <6> QED
            BY <6>2
        <5>2. ~(unsignedWord(piece.value, piece.long) >= power(2, LongBits - 1))
          BY <1>3, <4>1 DEF unlikeComment
        <5>3. power(2, LongBits - 1) \in Nat
          <6>1. LongBits - 1 \in Nat
            BY FirmwareTextAssumption
          <6> QED
            BY <6>1, PowersOfTwo
        <5>4. unsignedWord(piece.value, piece.long) < power(2, LongBits - 1)
          BY <5>1, <5>2, <5>3
        <5>5. signedWord(unsignedWord(piece.value, piece.long), TRUE) = unsignedWord(piece.value, piece.long)
          BY <5>1, <5>4, SmallWord
        <5> QED
          BY <4>1, <5>5 DEF meaning, codeMeaning
      <4>2. CASE piece.conv = "r"
        <5>1. piece.value \in DOMAIN ErrorCodeTable
          BY <1>3, <4>2 DEF unlikeComment
        <5> QED
          BY <4>2, <5>1 DEF meaning, codeMeaning
      <4>3. CASE piece.conv \notin {"u", "r", "X"}
        BY <4>3 DEF meaning, codeMeaning
      <4> QED
        BY <2>7, <4>1, <4>2, <4>3
    <3>3. cutMeaning(piece) = cut
      BY <3>2 DEF cutMeaning
    <3>4. CASE piece.left
      <4>1. w \in Int /\ w <= Len(cut)
        BY <2>1, <2>4, <2>5, <3>3, <3>4
      <4> HIDE DEF cut, pad, w, f
      <4>2. filledUp(cut, w, pad) = cut /\ filledOut(cut, w, pad) = cut
        BY <2>2, <2>4, <4>1, LongEnough
      <4>3. codeShown(piece) = cut \o copies(f - Len(cut), Blank)
        BY <3>1, <3>4, <4>2
      <4>4. shownFor(piece) = filledOut(cut, f, Blank)
        BY <2>6, <3>3, <3>4, <4>2
      <4> QED
        BY <4>3, <4>4 DEF filledOut
    <3>5. CASE ~piece.left
      BY <2>6, <3>1, <3>3, <3>5
    <3> QED
      BY <3>4, <3>5
  <2>8. CASE piece.conv = "X"
    <3> DEFINE n == wordDigits
               digits == codeMeaning(piece)
               full == filledUp(digits, n, "0")
    <3>1. /\ piece.long /\ ~(w > n) /\ (f = Unlimited \/ ~(f < n))
      BY <1>3, <2>8 DEF unlikeComment
    <3>2. n \in Nat /\ hexWidth(piece.long) = n
      <4>1. LongBits \in Nat
        BY FirmwareTextAssumption
      <4>2. \A bits \in Nat : bits \div 4 \in Nat
        OBVIOUS
      <4>3. n \in Nat
        BY <4>1, <4>2 DEF wordDigits
      <4>4. hexWidth(piece.long) = LongBits \div 4
        BY <3>1 DEF hexWidth
      <4> QED
        BY <4>3, <4>4 DEF wordDigits
    <3>3. digits \in Seq(Alphabet) /\ meaning(piece) = full
      <4>1. unsignedWord(piece.value, piece.long) = piece.value
        BY <3>1 DEF unsignedWord
      <4>2. codeMeaning(piece) = byPlace(piece.value, 16)
        BY <2>8, <4>1 DEF codeMeaning
      <4>3. meaning(piece) = fixedHex(piece.value)
        BY <2>8 DEF meaning
      <4> QED
        BY <2>3, <4>2, <4>3 DEF fixedHex
    <3>4. full \in Seq(Alphabet) /\ Len(full) >= n
      <4> HIDE DEF n, digits
      <4>1. /\ filledUp(digits, n, "0") \in Seq(Alphabet)
            /\ Len(filledUp(digits, n, "0")) = IF Len(digits) > n THEN Len(digits) ELSE n
        BY <2>2, <3>2, <3>3, FilledUpFacts
      <4>2. Len(digits) \in Nat
        BY <3>3
      <4> QED
        BY <3>2, <4>1, <4>2
    <3>5. codeShown(piece) = IF piece.left
                               THEN filledUp(cut, n, "0") \o copies(f - Len(filledUp(cut, n, "0")), Blank)
                               ELSE filledUp(filledUp(cut, n, "0"), f, Blank)
      BY <1>3, <2>8, <3>2 DEF codeShown
    <3>6. /\ filledUp(cut, n, "0") = cutMeaning(piece)
          /\ cutMeaning(piece) \in Seq(Alphabet) /\ Len(cutMeaning(piece)) >= n
      <4>1. CASE f = Unlimited
        <5>1. cut = digits /\ cutMeaning(piece) = full
          BY <3>3, <4>1 DEF cutMeaning
        <5> QED
          BY <3>4, <5>1
      <4>2. CASE f # Unlimited
        <5>1. f \in Nat /\ n <= f
          BY <2>1, <3>1, <3>2, <4>2
        <5>2. cut = atMost(f, digits) /\ cutMeaning(piece) = atMost(f, full)
          BY <3>3, <4>2 DEF cutMeaning
        <5>3. /\ filledUp(atMost(f, digits), n, "0") = atMost(f, filledUp(digits, n, "0"))
              /\ Len(atMost(f, filledUp(digits, n, "0"))) >= n
          <6> HIDE DEF n, digits, f
          <6> QED
            BY <3>2, <3>3, <5>1, CutHex
        <5>4. atMost(f, full) \in Seq(Alphabet)
          <6> HIDE DEF full, f
          <6> QED
            BY <3>4, <5>1, AtMostFacts
        <5> QED
          BY <5>2, <5>3, <5>4
      <4> QED
        BY <4>1, <4>2
    <3> HIDE DEF cut, pad, w, f, n
    <3>7. w \in Int /\ w <= Len(cutMeaning(piece))
      <4>1. Len(cutMeaning(piece)) \in Nat
        BY <3>6
      <4> QED
        BY <2>1, <3>1, <3>2, <3>6, <4>1
    <3>8. filledUp(cutMeaning(piece), w, pad) = cutMeaning(piece) /\ filledOut(cutMeaning(piece), w, pad) = cutMeaning(piece)
      BY <2>2, <3>6, <3>7, LongEnough
    <3>9. CASE piece.left
      <4>1. codeShown(piece) = cutMeaning(piece) \o copies(f - Len(cutMeaning(piece)), Blank)
        BY <3>5, <3>6, <3>9
      <4>2. shownFor(piece) = filledOut(cutMeaning(piece), f, Blank)
        BY <2>6, <3>8, <3>9
      <4> QED
        BY <4>1, <4>2 DEF filledOut
    <3>10. CASE ~piece.left
      BY <2>6, <3>5, <3>6, <3>8, <3>10
    <3> QED
      BY <3>9, <3>10
  <2> QED
    BY <2>7, <2>8
<1> QED
  BY <1>1, <1>2, <1>3

(* So behind the last part it is what the comment promises.                 *)
LEMMA PromisedText ==
  ASSUME request \in Requests, ~commentNotKept
  PROVE  promised(request.pieces) = textTo(request, Len(request.pieces))
<1> DEFINE n == Len(request.pieces)
<1>1. \A k : attributeIn(request.pieces, k) = colourIn(request, k)
  BY SameColours
<1>2. ASSUME NEW k \in 1..n
      PROVE  shownFor(request.pieces[k]) = codeShown(request.pieces[k])
  <2>1. accepted(request.pieces[k])
    BY PiecesFacts
  <2>2. DOMAIN request.pieces = 1..n
    BY FirmwareTextAssumption
  <2>3. ~unlikeComment(request.pieces[k])
    BY <2>2 DEF commentNotKept
  <2> QED
    BY <2>1, <2>3, CommentKept
<1>3. [k \in 1..n |-> inAttribute(lines(shownFor(request.pieces[k])), attributeIn(request.pieces, k))]
        = [k \in 1..n |-> shownBy(request, k)]
  BY <1>1, <1>2 DEF shownBy
<1> QED
  BY <1>3 DEF promised, textTo

(* The invariant implies the property.                                      *)
LEMMA TextIsAsDocumented == TextInvariant => TextAsDocumented
<1> SUFFICES ASSUME TextInvariant, ~attributeInString, ~commentNotKept
             PROVE  LET text == promised(request.pieces)
                    IN  /\ IsPrefix(out.flushed, room(text))
                        /\ state = "done" => out.flushed = room(text) /\ out.len = Len(text)
                        /\ state = "beyond" => Last(request.pieces).conv = "end"
  BY DEF TextAsDocumented
<1> DEFINE text == promised(request.pieces)
<1>1. request \in Requests
  BY DEF TextInvariant
<1>2. Reading(request, state, format, arguments, item, out)
  BY <1>1, PlainCalls DEF TextInvariant
<1>3. text = textTo(request, Len(request.pieces)) /\ room(text) = roomIn(request, text)
  BY <1>1, PromisedText, SameRoom
<1>4. Fragment(request, out)
  BY <1>2 DEF Reading
<1>5. IsPrefix(out.flushed, roomIn(request, textTo(request, Len(request.pieces))))
  BY <1>1, <1>4, FragmentIsPrefix
<1> HIDE DEF text
<1>6. IsPrefix(out.flushed, room(text))
  BY <1>3, <1>5
<1>7. state = "done" => out.flushed = room(text) /\ out.len = Len(text)
  BY <1>2, <1>3 DEF Reading
<1>8. state = "beyond" => Last(request.pieces).conv = "end"
  BY <1>2 DEF Reading
<1> QED
  BY <1>6, <1>7, <1>8 DEF text

(* For a call whose directives are all among those of which _Print          *)
(* (gnu-efi/lib/print.c) keeps the comment in front of it, what it has put  *)
(* out is always the beginning of the text that the comment promises for    *)
(* the format, each character in its attribute, cut only where the string   *)
(* has no room, and behind the format all of it: for every such call, every *)
(* length of the buffer, all widths and words, and every place at which the *)
(* buffer fills up.  The five things that are unlike the comment            *)
(* (unlikeComment) are excluded, not shown.                                 *)
THEOREM PrintsAsDocumented == TextSpec => []TextAsDocumented
<1>1. TextSpec => []TextInvariant
  BY TextStarts, TextGoesOn, PTL DEF TextSpec
<1> QED
  BY <1>1, TextIsAsDocumented, PTL

=============================================================================
