---------------------------- MODULE MCPageTable ----------------------------
(***************************************************************************)
(* Small instances of PageTable: tables of two entries, so that sixteen    *)
(* virtual pages already need four levels.                                 *)
(***************************************************************************)
EXTENDS PageTable

segment(type, start, count) == [type |-> type, start |-> start, count |-> count]

(* Thirteen pages of memory under sixteen bits, enough for every table; and *)
(* seven, of which five remain: the tables run out on the second subtree.   *)
MCMemoryMaps ==
  { << segment(7, 0, 2), segment(2, 2, 1), segment(7, 3, 10) >>,
    << segment(7, 0, 6), segment(2, 6, 1) >> }

(* What a frame holds that nobody has cleared: entries that look like       *)
(* pointers to tables.                                                      *)
MCJunk == { [present |-> TRUE, writable |-> FALSE, address |-> 5] }

(* Two neighbours, a page in the next table, and one under another root slot. *)
MCPages == {0, 1, 2, 8}

(* Bound: what happens after the first refusal is not explored, for nothing  *)
(* is promised any more and every entry may come to point anywhere.         *)
MCBeforeRefusal == ~exhausted

(* A frame that becomes a table, and one that does not. *)
MCFrames == {3, 7}
=============================================================================
