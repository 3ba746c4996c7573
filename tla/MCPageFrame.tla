---------------------------- MODULE MCPageFrame ----------------------------
(***************************************************************************)
(* Small memory maps for PageFrame: frames are single digits, types are    *)
(* those of UEFI (2 loader data, 3 boot services code, 7 conventional).    *)
(***************************************************************************)
EXTENDS PageFrame

segment(type, start, count) == [type |-> type, start |-> start, count |-> count]

(* A contiguous machine; one with a hole at frames 3..4 whose last          *)
(* conventional frames lie above the end of the bitmap (7 pages, 8 bits);   *)
(* one without conventional memory, whose bitmap lands at the null pointer. *)
MCMemoryMaps ==
  { << segment(3, 0, 1), segment(7, 1, 4) >>,
    << segment(7, 0, 2), segment(2, 2, 1), segment(7, 5, 4) >>,
    << segment(2, 1, 3) >> }

(* Single frames, a run across the tail of the bitmap, and a run that wraps *)
(* around the address space.                                                *)
MCCalls == {<<0, 1>>, <<3, 1>>, <<6, 3>>, <<11, 3>>}
=============================================================================
