---------------------------- MODULE MCKernelBoot ----------------------------
(***************************************************************************)
(* Machines for KernelBoot, with tables of four entries and pages of four  *)
(* bytes.                                                                  *)
(***************************************************************************)
EXTENDS KernelBoot

segment(type, start, count) == [type |-> type, start |-> start, count |-> count]

deadEntry == [present |-> TRUE, writable |-> FALSE, address |-> 5]

(* Low memory, the kernel image (type 2) at frame 2, free memory, a gap     *)
(* that no descriptor mentions, and boot services data (type 4), which ends *)
(* with the stack.                                                          *)
memoryMap(free, gap) ==
  << segment(7, 0, 2), segment(2, 2, 2), segment(7, 4, free),
     segment(4, 4 + free + gap, 2) >>

MCMachine(free, gap, fb, junk, stray) ==
  [map |-> memoryMap(free, gap), kernelStart |-> 2, kernelSize |-> 7,
   inUse |-> {5 + free + gap}, fbStart |-> fb, fbPages |-> 3, junk |-> junk,
   stray |-> stray]

(* A machine with low memory, free memory, the stack, and the kernel image  *)
(* behind a gap, above the memory size and partly under the bitmap's end.   *)
HighKernel(free, gap, stray) ==
  [map |-> << segment(7, 0, 2), segment(7, 2, free), segment(4, 2 + free, 2),
              segment(2, 4 + free + gap, 2) >>,
   kernelStart |-> 4 + free + gap, kernelSize |-> 7, inUse |-> {3 + free},
   fbStart |-> 40, fbPages |-> 3, junk |-> deadEntry, stray |-> stray]

(* From memory that runs out to memory with a frame to spare, on both sides *)
(* of enoughMemory; frame buffers inside the tables of memory, across a     *)
(* top-level slot, and in a slot of their own.  A gap of one page puts the  *)
(* stack above the memory size.                                             *)
MCMachines ==
  { MCMachine(free, gap, fb, junk, stray) :
      free \in {3, 12, 14, 15, 17, 18}, gap \in {0, 1}, fb \in {40, 62, 130},
      junk \in {ZeroEntry, deadEntry}, stray \in BOOLEAN }
    \cup { HighKernel(free, gap, stray) :
             free \in {17, 20}, gap \in {2, 3}, stray \in BOOLEAN }

(* Bound: once a table has been built in frame 0, what the next mapMemory   *)
(* writes where is not explored.                                            *)
MCBeforeRefusal == ~refused

=============================================================================
