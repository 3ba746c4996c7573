------------------------------ MODULE Handoff ------------------------------
(***************************************************************************)
(* Memory, from the boot loader's hands into the kernel's: what efi_main,  *)
(* loadSegment, loadPSD1Font and getMemoryMap allocate (boot/src), and the *)
(* firmware beside them, the memory map as a snapshot of that, and the     *)
(* kernel's calls of the page frame allocator (PageFrame), which it builds *)
(* on the map.  The firmware gives and takes frame by frame; the bitmap    *)
(* lies in frames, too, wherever the largest free segment happens to be.   *)
(* PageFrame's MemoryMaps and Calls, any map and any caller, are not used  *)
(* here: the map is the loader's and the caller kernel_main.               *)
(***************************************************************************)
EXTENDS PageFrame

CONSTANTS
  Memories,     \* the memory efi_main starts in: functions from frames to types
  KernelFrames, \* the frames the kernel is linked for
  ChangeLimit,  \* bound: changes of the memory map by the firmware itself
  RequestLimit  \* bound: pages the kernel requests

EfiLoaderData == 2
EfiBootServicesData == 4
Absent == 15 \* no memory, and no descriptor

Types == {EfiLoaderData, EfiBootServicesData, EfiConventionalMemory, Absent}

(* There is memory, and far less than the 64-bit address space holds.       *)
ASSUME HandoffAssumption ==
  /\ \A m \in Memories : \E last \in 0..(Word - 10) : m \in [0..last -> Types]
  /\ KernelFrames \in (SUBSET Nat) \ {{}}
  /\ ChangeLimit \in Nat /\ RequestLimit \in Nat

VARIABLES
  pc,       \* the call to make next, or "returned"
  memory,   \* the type of each frame
  key,      \* the firmware's key of the memory map
  map,      \* the map in efi_main's buffer, which the kernel gets
  mapKey,   \* memoryMapKey
  changes,  \* changes the firmware has made
  granted   \* what requestPage has returned, in order

handoffVars == <<vars, pc, memory, key, map, mapKey, changes, granted>>

HandoffInit ==
  /\ Init
  /\ pc = "loadKernelImage"
  /\ memory \in Memories
  /\ key = 0
  /\ map = << >>
  /\ mapKey = 0
  /\ changes = 0
  /\ granted = << >>

free == {f \in DOMAIN memory : memory[f] = EfiConventionalMemory}

-----------------------------------------------------------------------------
(* The firmware. *)
allocate(F, type) ==
  /\ F \subseteq free
  /\ memory' = [f \in DOMAIN memory |-> IF f \in F THEN type ELSE memory[f]]
  /\ key' = key + 1

(* AllocatePool takes a frame, or has room in one that it took before. *)
allocatePool ==
  \/ \E f \in free : allocate({f}, EfiLoaderData)
  \/ UNCHANGED memory /\ key' = key + 1

FirmwareChangesMap ==
  /\ pc \in {"loadKernelImage", "loadFont", "mapAllocate", "getMap", "exitBootServices"}
  /\ changes < ChangeLimit
  /\ changes' = changes + 1
  /\ \/ \E f \in free : allocate({f}, EfiBootServicesData)
     \/ \E f \in DOMAIN memory :
          /\ memory[f] = EfiBootServicesData
          /\ memory' = [memory EXCEPT ![f] = EfiConventionalMemory]
          /\ key' = key + 1
  /\ UNCHANGED <<vars, pc, map, mapKey, granted>>

(* A descriptor for each run of frames of one type. *)
describe ==
  LET starts == {f \in DOMAIN memory :
                   memory[f] # Absent /\ (f = 0 \/ memory[f - 1] # memory[f])}
      end(f) == CHOOSE e \in f..Cardinality(DOMAIN memory) :
                  /\ \A g \in f..(e - 1) : memory[g] = memory[f]
                  /\ e \in DOMAIN memory => memory[e] # memory[f]
      nth(n) == CHOOSE f \in starts : Cardinality({g \in starts : g < f}) = n - 1
  IN  [n \in 1..Cardinality(starts) |->
         [type |-> memory[nth(n)], start |-> nth(n), count |-> end(nth(n)) - nth(n)]]

-----------------------------------------------------------------------------
(* efi_main *)
loaderStep(label, next) ==
  /\ pc = label
  /\ pc' = next
  /\ UNCHANGED <<vars, changes, granted>>

(* AllocatePages at the address of the segment, or an error. *)
LoadKernelImage ==
  \/ /\ loaderStep("loadKernelImage", "loadFont")
     /\ allocate(KernelFrames, EfiLoaderData)
     /\ UNCHANGED <<map, mapKey>>
  \/ /\ ~(KernelFrames \subseteq free)
     /\ loaderStep("loadKernelImage", "returned")
     /\ UNCHANGED <<memory, key, map, mapKey>>

(* Three buffers, in up to as many frames. *)
LoadPSD1Font ==
  /\ loaderStep("loadFont", "mapAllocate")
  /\ \E F \in SUBSET free : Cardinality(F) <= 3 /\ allocate(F, EfiLoaderData)
  /\ UNCHANGED <<map, mapKey>>

AllocateMemoryMap ==
  /\ loaderStep("mapAllocate", "getMap")
  /\ allocatePool
  /\ UNCHANGED <<map, mapKey>>

GetMemoryMap ==
  /\ loaderStep("getMap", "exitBootServices")
  /\ map' = describe
  /\ mapKey' = key
  /\ UNCHANGED <<memory, key>>

\* Variant: the kernel is entered whatever ExitBootServices returns.
ExitBootServicesUnchecked ==
  /\ loaderStep("exitBootServices", "initializeMemory")
  /\ UNCHANGED <<memory, key, map, mapKey>>

ExitBootServices ==
  /\ \/ mapKey = key /\ loaderStep("exitBootServices", "initializeMemory")
     \/ mapKey # key /\ loaderStep("exitBootServices", "returned")
  /\ UNCHANGED <<memory, key, map, mapKey>>

-----------------------------------------------------------------------------
(* kernel_main *)
kernelStep(label, next) ==
  /\ pc = label
  /\ pc' = next
  /\ UNCHANGED <<memory, key, map, mapKey, changes>>

ReadMap ==
  /\ kernelStep("initializeMemory", "initializePageFrame")
  /\ InitializeMemory(map)
  /\ UNCHANGED granted

MakeBitmap ==
  /\ kernelStep("initializePageFrame", "lockKernel")
  /\ \E g \in 0..1 : InitializePageFrame(g)
  /\ UNCHANGED granted

(* kernelSize / 4096 + 1 pages, one too many if the last is full *)
kernelCount == Cardinality(KernelFrames) + 1

LockKernel ==
  /\ kernelStep("lockKernel", "run")
  /\ LockPages(Min(KernelFrames), kernelCount)
  /\ UNCHANGED granted

(* For PML4 and in mapMemory, which zero the frame and fill it. *)
TakePage ==
  /\ kernelStep("run", "run")
  /\ Len(granted) < RequestLimit
  /\ RequestPage
  /\ granted' = Append(granted, requestedPage(pf))

HandoffNext ==
  \/ LoadKernelImage
  \/ LoadPSD1Font
  \/ AllocateMemoryMap
  \/ GetMemoryMap
  \/ ExitBootServices
  \/ ReadMap
  \/ MakeBitmap
  \/ LockKernel
  \/ TakePage
  \/ FirmwareChangesMap

HandoffSpec == HandoffInit /\ [][HandoffNext]_handoffVars

-----------------------------------------------------------------------------
(* The frames initializeBitmap and every later setBitmap write to. *)
bitmapFrames == {pf.base + b \div PageSize : b \in 0..(pf.size - 1)}

(* The longest free run in memory as it is: what the kernel has for its     *)
(* bitmap, whether or not it looks at the length.                           *)
longestFree ==
  Max({0} \cup {n \in 1..Cardinality(DOMAIN memory) :
                  \E f \in free : f..(f + n - 1) \subseteq free})

memoryPages == getMemorySize(map)

(* What the kernel keeps for itself: up to a page more than the bitmap and  *)
(* the kernel take.                                                         *)
kept ==
  0..(LowPages - 1) \cup PageRun(pf.base, pf.size \div PageSize + 1)
    \cup PageRun(Min(KernelFrames), kernelCount)

(* Whatever the firmware did to memory while efi_main ran, the kernel never *)
(* writes to a frame somebody needs: its own image, the font, the memory    *)
(* map, the stack and the firmware's tables stay whole, and so does what it *)
(* has taken for itself.  The bitmap lies in free frames, if any free run   *)
(* is long enough for it; then every page it is granted was free, is not    *)
(* the bitmap's, and is granted once, until free memory is used up: then it *)
(* gets frame 0 or one behind the memory size.                              *)
NothingInUseIsTouched ==
  pf.size > 0 /\ longestFree * PageSize >= pf.size =>
    /\ bitmapFrames \subseteq free
    /\ \A n \in DOMAIN granted :
         LET before == {granted[m] : m \in 1..(n - 1)}
         IN  \/ granted[n] \in free \ (kept \cup before)
             \/ /\ granted[n] = NULL \/ granted[n] >= memoryPages
                /\ free \cap 0..(memoryPages - 1) \subseteq kept \cup before

=============================================================================
