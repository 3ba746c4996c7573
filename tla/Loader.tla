------------------------------- MODULE Loader -------------------------------
(***************************************************************************)
(* How the boot loader brings the kernel into memory: loadKernelImage      *)
(* (boot/src/loader.c) with the functions of boot/src/elf.c and file.c it  *)
(* calls.  A step ends with one call of a firmware service; each service   *)
(* may fail, and then the loader returns at once.                          *)
(*                                                                         *)
(* The file is a record:                                                   *)
(*   magic, class, lsb   what its identity says                            *)
(*   entry, phoff        e_entry and e_phoff                               *)
(*   segments            the program headers, each a record [type, offset, *)
(*                       filesz, memsz, paddr] with numbers in bytes       *)
(*   data                its bytes, fewer than the headers promise if it   *)
(*                       was cut short                                     *)
(***************************************************************************)
EXTENDS Integers, Sequences, FiniteSets

CONSTANTS
  PageSize,   \* bytes in a page: 4096
  Pages,      \* pages of physical memory
  Files,      \* the files \kernel.elf may be
  FreePages,  \* sets of pages, one of which the firmware can still allocate
  Word        \* 2^64

ASSUME LoaderAssumption ==
  /\ PageSize \in Nat \ {0} /\ Pages \in Nat \ {0}
  /\ FreePages \subseteq SUBSET (1..(Pages - 1))
  /\ Word \in Nat /\ PageSize * Pages < Word

(* The sizes are those of 64-bit numbers; nothing else is assumed of a file. *)
Segments == [type : Nat, offset : Nat, filesz : 0..(Word - 1), memsz : 0..(Word - 1), paddr : Nat]

ASSUME FilesAssumption ==
  Files \subseteq [magic : BOOLEAN, class : Nat, lsb : BOOLEAN, entry : Nat, phoff : Nat,
                  segments : Seq(Segments), data : Seq(Nat)]

Addresses == 0..(PageSize * Pages - 1)

PT_LOAD == 1

(* What memory holds that nobody has written. *)
Old == -1

VARIABLES
  file,     \* the file
  memory,   \* physical memory, byte by byte
  free,     \* pages the firmware did not use before
  allocated,\* those the loader has allocated since
  pools,    \* the buffers allocated and not yet freed
  open,     \* the file is open
  position, \* its file position
  buffer,   \* programData of loadSegment
  entry,    \* what *kernelEntryPtr holds
  ph,       \* the program header loadProgramSegments is at
  loaded,   \* segmentsLoadedSize
  pc,       \* the call to make next; "done" and "crashed" are the ends
  status,   \* what loadKernelImage returned
  failed    \* a firmware service has returned an error

vars == <<file, memory, free, allocated, pools, open, position, buffer, entry, ph,
          loaded, pc, status, failed>>

segment == file.segments[ph]

pagesOf(s) ==
  LET first == s.paddr \div PageSize
  IN  first..(first + (s.memsz + PageSize - 1) \div PageSize - 1)

Init ==
  /\ file \in Files
  /\ memory = [a \in Addresses |-> Old]
  /\ free \in FreePages
  /\ allocated = {}
  /\ pools = {}
  /\ open = FALSE
  /\ position = 0
  /\ buffer = << >>
  /\ entry = Old
  /\ ph = 1
  /\ loaded = 0
  /\ pc = "openFile"
  /\ status = "none"
  /\ failed = FALSE

goto(label) == pc' = label /\ UNCHANGED <<status, failed>>

return(result) == pc' = "done" /\ status' = result

(* A firmware service fails, without any other effect, and the functions    *)
(* return its status one after the other.                                   *)
FirmwareCalls ==
  { "openFile", "identitySetPosition", "identityAllocate", "identityRead", "identityFree",
    "headerSetPosition", "headerAllocate", "headerRead",
    "programHeadersSetPosition", "programHeadersAllocate", "programHeadersRead",
    "segmentSetPosition", "allocatePages", "segmentAllocate", "segmentRead",
    "segmentFree", "closeFile", "headerFree", "programHeadersFree" }

unchangedData ==
  UNCHANGED <<file, memory, free, allocated, pools, open, position, buffer, entry, ph, loaded>>

ServiceFails ==
  /\ pc \in FirmwareCalls
  /\ failed' = TRUE
  /\ return("error")
  /\ unchangedData

(* The services that succeed. *)
allocatePool(label, pool, next) ==
  /\ pc = label
  /\ pools' = pools \cup {pool}
  /\ goto(next)
  /\ UNCHANGED <<file, memory, free, allocated, open, position, buffer, entry, ph, loaded>>

freePool(label, pool, next) ==
  /\ pc = label
  /\ pool \in pools
  /\ pools' = pools \ {pool}
  /\ goto(next)
  /\ UNCHANGED <<file, memory, free, allocated, open, position, buffer, entry, ph, loaded>>

setPosition(label, offset, next) ==
  /\ pc = label
  /\ position' = offset
  /\ goto(next)
  /\ UNCHANGED <<file, memory, free, allocated, pools, open, buffer, entry, ph, loaded>>

(* Header and program headers are read whole; what they say is in file.     *)
readWhole(label, next) ==
  /\ pc = label
  /\ goto(next)
  /\ unchangedData

-----------------------------------------------------------------------------
(* boot/src/elf.c                                                           *)

ReadELFIdentity ==
  \/ setPosition("identitySetPosition", 0, "identityAllocate")
  \/ allocatePool("identityAllocate", "identity", "identityRead")
  \/ readWhole("identityRead", "validateELFIdentity")

\* Variant: 32-bit images are refused.
identityValid64 == file.magic /\ file.class = 64 /\ file.lsb

identityValid == file.magic /\ file.class \in {32, 64} /\ file.lsb

ValidateELFIdentity ==
  /\ pc = "validateELFIdentity"
  /\ IF identityValid THEN goto("identityFree") ELSE return("error") /\ UNCHANGED failed
  /\ unchangedData

ReadELFFile ==
  \/ setPosition("headerSetPosition", 0, "headerAllocate")
  \/ allocatePool("headerAllocate", "header", "headerRead")
  \/ readWhole("headerRead", "programHeadersSetPosition")
  \/ setPosition("programHeadersSetPosition", file.phoff, "programHeadersAllocate")
  \/ allocatePool("programHeadersAllocate", "programHeaders", "programHeadersRead")
  \/ readWhole("programHeadersRead", "setEntry")

-----------------------------------------------------------------------------
(* boot/src/loader.c                                                        *)

OpenFile ==
  /\ pc = "openFile"
  /\ open' = TRUE
  /\ goto("identitySetPosition")
  /\ UNCHANGED <<file, memory, free, allocated, pools, position, buffer, entry, ph, loaded>>

FreeIdentity == freePool("identityFree", "identity", "headerSetPosition")

(* *kernelEntryPtr = e_entry, and the first check of loadProgramSegments.   *)
SetEntry ==
  /\ pc = "setEntry"
  /\ entry' = file.entry
  /\ IF file.segments = << >> THEN return("error") /\ UNCHANGED failed
                              ELSE goto("programSegments")
  /\ UNCHANGED <<file, memory, free, allocated, pools, open, position, buffer, ph, loaded>>

\* Variant: a header that is not PT_LOAD does not advance the loop.
LoadProgramSegmentsStuck ==
  /\ pc = "programSegments"
  /\ \/ /\ ph <= Len(file.segments)
        /\ segment.type # PT_LOAD
        /\ goto("programSegments")
        /\ UNCHANGED <<ph, loaded>>
     \/ /\ ph <= Len(file.segments)
        /\ segment.type = PT_LOAD
        /\ goto("segmentSetPosition")
        /\ UNCHANGED <<ph, loaded>>
     \/ /\ ph > Len(file.segments)
        /\ IF loaded = 0 THEN return("error") /\ UNCHANGED failed ELSE goto("closeFile")
        /\ UNCHANGED <<ph, loaded>>
  /\ UNCHANGED <<file, memory, free, allocated, pools, open, position, buffer, entry>>

(* The loop of loadProgramSegments, for either class. *)
LoadProgramSegments ==
  /\ pc = "programSegments"
  /\ \/ /\ ph <= Len(file.segments)
        /\ segment.type # PT_LOAD
        /\ ph' = ph + 1
        /\ goto("programSegments")
        /\ UNCHANGED loaded
     \/ /\ ph <= Len(file.segments)
        /\ segment.type = PT_LOAD
        /\ goto("segmentSetPosition")
        /\ UNCHANGED <<ph, loaded>>
     \/ /\ ph > Len(file.segments)
        /\ IF loaded = 0 THEN return("error") /\ UNCHANGED failed ELSE goto("closeFile")
        /\ UNCHANGED <<ph, loaded>>
  /\ UNCHANGED <<file, memory, free, allocated, pools, open, position, buffer, entry>>

SetSegmentPosition == setPosition("segmentSetPosition", segment.offset, "allocatePages")

\* Variant: pages for the bytes in the file only.
AllocateSegmentPagesShort ==
  /\ pc = "allocatePages"
  /\ LET wanted == pagesOf([segment EXCEPT !.memsz = segment.filesz])
     IN  IF segment.paddr % PageSize = 0 /\ wanted \subseteq free \ allocated
           THEN /\ allocated' = allocated \cup wanted
                /\ goto(IF segment.filesz > 0 THEN "segmentAllocate" ELSE "zeroFill")
           ELSE return("error") /\ UNCHANGED <<allocated, failed>>
  /\ UNCHANGED <<file, memory, free, pools, open, position, buffer, entry, ph, loaded>>

(* AllocatePages at the address itself: pages in use, or an address inside  *)
(* a page, are refused.                                                     *)
AllocateSegmentPages ==
  /\ pc = "allocatePages"
  /\ IF segment.paddr % PageSize = 0 /\ pagesOf(segment) \subseteq free \ allocated
       THEN /\ allocated' = allocated \cup pagesOf(segment)
            /\ goto(IF segment.filesz > 0 THEN "segmentAllocate" ELSE "zeroFill")
       ELSE return("error") /\ UNCHANGED <<allocated, failed>>
  /\ UNCHANGED <<file, memory, free, pools, open, position, buffer, entry, ph, loaded>>

(* At the end of the file Read succeeds with fewer bytes than were asked    *)
(* for, and loadSegment does not look at the number.                        *)
ReadSegment ==
  /\ pc = "segmentRead"
  /\ buffer' = [i \in 1..segment.filesz |->
                  IF position + i <= Len(file.data) THEN file.data[position + i] ELSE Old]
  /\ goto("segmentCopy")
  /\ UNCHANGED <<file, memory, free, allocated, pools, open, position, entry, ph, loaded>>

(* write(start, bytes, next): CopyMem and SetMem, which return nothing.     *)
(* The loader takes what the register happens to hold for a status.  A      *)
(* write that leaves physical memory does not return.                       *)
write(start, bytes, next) ==
  /\ memory' = [a \in Addresses |->
                  IF a - start + 1 \in DOMAIN bytes THEN bytes[a - start + 1] ELSE memory[a]]
  /\ IF start + Len(bytes) > PageSize * Pages
       THEN pc' = "crashed" /\ UNCHANGED <<status, failed>>
       ELSE \/ goto(next)
            \/ return("error") /\ failed' = TRUE

CopySegment ==
  /\ pc = "segmentCopy"
  /\ write(segment.paddr, buffer, "segmentFree")
  /\ UNCHANGED <<file, free, allocated, pools, open, position, buffer, entry, ph, loaded>>

\* Variant: the count in the place of the value, as in the C memset.
zeroFillCountSwapped == 0

zeroFillCount == (segment.memsz - segment.filesz) % Word

(* SetMem, if it is called, and back to the loop of loadProgramSegments.    *)
ZeroFill ==
  /\ pc = "zeroFill"
  /\ IF zeroFillCount > 0
       THEN write(segment.paddr + segment.filesz, [n \in 1..zeroFillCount |-> 0],
                  "programSegments")
       ELSE goto("programSegments") /\ UNCHANGED memory
  /\ ph' = ph + 1
  /\ loaded' = loaded + 1
  /\ UNCHANGED <<file, free, allocated, pools, open, position, buffer, entry>>

\* Variant: the buffer is not freed.
LoadSegmentLeaking ==
  \/ SetSegmentPosition
  \/ AllocateSegmentPages
  \/ allocatePool("segmentAllocate", "segment", "segmentRead")
  \/ ReadSegment
  \/ CopySegment
  \/ readWhole("segmentFree", "zeroFill")
  \/ ZeroFill

LoadSegment ==
  \/ SetSegmentPosition
  \/ AllocateSegmentPages
  \/ allocatePool("segmentAllocate", "segment", "segmentRead")
  \/ ReadSegment
  \/ CopySegment
  \/ freePool("segmentFree", "segment", "zeroFill")
  \/ ZeroFill

CloseFile ==
  /\ pc = "closeFile"
  /\ open' = FALSE
  /\ goto("headerFree")
  /\ UNCHANGED <<file, memory, free, allocated, pools, position, buffer, entry, ph, loaded>>

FreeHeader == freePool("headerFree", "header", "programHeadersFree")

FreeProgramHeaders == freePool("programHeadersFree", "programHeaders", "return")

Return ==
  /\ pc = "return"
  /\ return("success")
  /\ UNCHANGED failed
  /\ unchangedData

LoadKernelImage ==
  \/ OpenFile
  \/ ReadELFIdentity
  \/ ValidateELFIdentity
  \/ FreeIdentity
  \/ ReadELFFile
  \/ SetEntry
  \/ LoadProgramSegments
  \/ LoadSegment
  \/ CloseFile
  \/ FreeHeader
  \/ FreeProgramHeaders
  \/ Return

Next == LoadKernelImage \/ ServiceFails

Spec == Init /\ [][Next]_vars

(* The firmware answers every call. *)
FairSpec == Spec /\ WF_vars(Next)

-----------------------------------------------------------------------------
loadSegments == {n \in DOMAIN file.segments : file.segments[n].type = PT_LOAD}

(* No segment has more bytes in the file than in memory. *)
wellFormed ==
  \A n \in loadSegments : file.segments[n].filesz <= file.segments[n].memsz

(* The file has all the bytes its headers promise. *)
complete ==
  \A n \in loadSegments :
    file.segments[n].offset + file.segments[n].filesz <= Len(file.data)

(* If loadKernelImage succeeds on an intact file, memory holds the program: *)
(* every segment at its address, its bytes first and zeros to its end, and  *)
(* no later segment has damaged an earlier one.                             *)
LoadedFaithfully ==
  status = "success" /\ wellFormed /\ complete =>
    /\ entry = file.entry
    /\ \A n \in loadSegments :
         LET s == file.segments[n]
         IN  \A i \in 0..(s.memsz - 1) :
               memory[s.paddr + i] =
                 IF i < s.filesz THEN file.data[s.offset + i + 1] ELSE 0

(* The loader writes to pages it has allocated, never to the firmware's and *)
(* never past the end of memory, unless a segment has more bytes in the     *)
(* file than in memory: then zeroFillCount wraps around.                    *)
WritesStayInAllocatedPages ==
  [][ wellFormed =>
        /\ \A a \in Addresses : memory'[a] # memory[a] => a \div PageSize \in allocated
        /\ pc' # "crashed" ]_vars

(* Success means that no service reported an error, and that nothing is     *)
(* held but the pages of the segments: the file is closed and every buffer  *)
(* is freed.                                                                *)
SuccessIsClean == status = "success" => ~failed /\ pools = {} /\ ~open

(* An image that is valid, has something to load, and whose segments fit    *)
(* side by side in free pages is refused only if a service fails.           *)
ErrorHasCause ==
  status = "error" =>
    \/ failed
    \/ ~file.magic \/ file.class \notin {32, 64} \/ ~file.lsb
    \/ loadSegments = {}
    \/ \E n \in loadSegments :
         LET s == file.segments[n]
         IN  \/ s.paddr % PageSize # 0
             \/ ~(pagesOf(s) \subseteq free)
             \/ \E m \in loadSegments \ {n} : pagesOf(s) \cap pagesOf(file.segments[m]) # {}

(* Whatever fails, and whatever the file, the loader comes to an end.       *)
LoaderEnds == <>(pc \in {"done", "crashed"})
=============================================================================
