---------------------------- MODULE PageTableOps ----------------------------
(***************************************************************************)
(* The four-level page tables of the kernel (kernel/src/pageTable.c), as   *)
(* functions on the contents of physical memory.                           *)
(*                                                                         *)
(* Memory is seen as page tables only: ram[f][i] is entry i of frame f,    *)
(* whatever f is used for, so a frame nobody has cleared holds entries     *)
(* too.  Of an entry's bits the code sets Present, ReadWrite and the       *)
(* address; the others are 0 in every table it has cleared.  A virtual     *)
(* address is the number of its page, as a physical one is its frame.      *)
(***************************************************************************)
EXTENDS PageFrameOps

CONSTANTS
  Fanout,      \* entries in a table: 512
  EntryFrames  \* frames an entry can name in its 40 address bits: 2^40

ASSUME FanoutAssumption == Fanout \in Nat \ {0}
ASSUME EntryFramesAssumption == EntryFrames \in Nat \ {0}

Slots == 0..(Fanout - 1)

Entry == [present : BOOLEAN, writable : BOOLEAN, address : 0..(EntryFrames - 1)]

\* Variant: one index short of the nine bits of its level.
getPageTableIndexShort(page) ==
  LET page1 == page \div Fanout
      page2 == page1 \div Fanout
      page3 == page2 \div Fanout
  IN  [P_i   |-> page % (Fanout - 1),  PT_i  |-> page1 % (Fanout - 1),
       PD_i  |-> page2 % (Fanout - 1), PDP_i |-> page3 % (Fanout - 1)]

(* getPageTableIndex: nine bits for each level, from the lowest on.  Bits   *)
(* above the 48 of a virtual address drop out.                              *)
getPageTableIndex(page) ==
  LET page1 == page \div Fanout
      page2 == page1 \div Fanout
      page3 == page2 \div Fanout
  IN  [P_i   |-> page % Fanout,  PT_i  |-> page1 % Fanout,
       PD_i  |-> page2 % Fanout, PDP_i |-> page3 % Fanout]

(* What mapMemory makes of an entry: setPageTableAddress, then              *)
(* setPageTableFlag for Present and for ReadWrite.                          *)
pointedAt(entry, frame) ==
  [entry EXCEPT !.address = frame % EntryFrames,
                !.present = TRUE,
                !.writable = TRUE]

ZeroEntry == [present |-> FALSE, writable |-> FALSE, address |-> 0]

\* Variant: the new table is used as it was found.
memsetTableForgotten(ram, frame) == [ram EXCEPT ![frame] = @]

(* memset(table, 0, PAGE_SIZE). *)
memsetTable(ram, frame) == [ram EXCEPT ![frame] = [i \in Slots |-> ZeroEntry]]

(* One level of mapMemory.  s is where the walk stands: the allocator, the  *)
(* memory, the table reached and whether requestPage has returned NULL on   *)
(* the way.  An absent table is requested, cleared and hung into slot i, in *)
(* this order and whatever requestPage returned: after NULL the walk goes   *)
(* on in frame 0.                                                           *)
descend(s, i) ==
  LET entry == s.ram[s.table][i]
      new   == requestedPage(s.pf)
  IN  IF entry.present
        THEN [s EXCEPT !.table = entry.address]
        ELSE [pf      |-> requestPage(s.pf),
              ram     |-> [memsetTable(s.ram, new) EXCEPT
                             ![s.table][i] = pointedAt(entry, new)],
              table   |-> new,
              refused |-> s.refused \/ new = NULL]

(* mapMemory(virtualMemory, physicalMemory). *)
mapMemory(pf, ram, pageTable, page, frame) ==
  LET index == getPageTableIndex(page)
      start == [pf |-> pf, ram |-> ram, table |-> pageTable, refused |-> FALSE]
      PDP   == descend(start, index.PDP_i)
      PD    == descend(PDP, index.PD_i)
      PT    == descend(PD, index.PT_i)
  IN  [PT EXCEPT !.ram[PT.table][index.P_i] = pointedAt(@, frame)]

-----------------------------------------------------------------------------
(* What the processor makes of the tables, for the properties.              *)

Unmapped == -1

(* The frame a walk from the root ends in, or Unmapped: a page fault.       *)
translate(ram, root, page) ==
  LET index == getPageTableIndex(page)
      pml4e == ram[root][index.PDP_i]
      pdpe  == ram[pml4e.address][index.PD_i]
      pde   == ram[pdpe.address][index.PT_i]
      pte   == ram[pde.address][index.P_i]
  IN  IF pml4e.present /\ pdpe.present /\ pde.present /\ pte.present
        THEN pte.address
        ELSE Unmapped

(* The present entries of some tables, as pairs of a table and a slot, and  *)
(* where they lead.                                                         *)
links(ram, T) == { l \in T \X Slots : ram[l[1]][l[2]].present }

target(ram, l) == ram[l[1]][l[2]].address

below(ram, T) == { target(ram, l) : l \in links(ram, T) }

(* The tables of each level under the root. *)
PDPs(ram, root) == below(ram, {root})
PDs(ram, root)  == below(ram, PDPs(ram, root))
PTs(ram, root)  == below(ram, PDs(ram, root))

upperTables(ram, root) == {root} \cup PDPs(ram, root) \cup PDs(ram, root)
=============================================================================
