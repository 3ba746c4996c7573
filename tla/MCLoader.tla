------------------------------ MODULE MCLoader ------------------------------
(***************************************************************************)
(* Small kernels for Loader: pages of two bytes, eight pages.              *)
(***************************************************************************)
EXTENDS Loader

MCSegment(type, offset, filesz, memsz, paddr) ==
  [type |-> type, offset |-> offset, filesz |-> filesz, memsz |-> memsz, paddr |-> paddr]

(* Text; text and data with a longer tail in memory; a note (type 4) before *)
(* them; only zeros; data that shares a page with the text; data that       *)
(* starts inside a page; a segment longer in the file than in memory; no    *)
(* segment to load; no header at all.                                       *)
text == MCSegment(1, 1, 3, 3, 4)
MCSegments ==
  { << text >>,
    << text, MCSegment(1, 4, 2, 5, 8) >>,
    << MCSegment(4, 0, 1, 1, 4), text, MCSegment(1, 4, 1, 4, 10) >>,
    << MCSegment(1, 1, 0, 3, 6) >>,
    << text, MCSegment(1, 4, 2, 2, 6) >>,
    << text, MCSegment(1, 4, 2, 2, 9) >>,
    << MCSegment(1, 1, 4, 2, 4) >>,
    << MCSegment(4, 1, 1, 1, 4) >>,
    << >> }

MCFile(magic, class, lsb, segments, length) ==
  [magic |-> magic, class |-> class, lsb |-> lsb, entry |-> 5, phoff |-> 1,
   segments |-> segments, data |-> [i \in 1..length |-> 10 + i]]

(* Intact files of both classes, files that were cut short, and files that  *)
(* are no kernel.                                                           *)
MCFiles ==
  { MCFile(TRUE, class, TRUE, s, length) :
      class \in {32, 64}, s \in MCSegments, length \in {4, 6} }
  \cup { MCFile(magic, class, lsb, << text >>, 6) :
           magic \in BOOLEAN, class \in {0, 64}, lsb \in BOOLEAN }

(* The firmware uses page 0 and nothing else, or page 4 too. *)
MCFreePages == { 1..7, (1..7) \ {4} }
=============================================================================
