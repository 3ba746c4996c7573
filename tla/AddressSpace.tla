---------------------------- MODULE AddressSpace ----------------------------
(***************************************************************************)
(* What mapping one page at a time promises: the page asked for leads to   *)
(* the frame asked for, and no other page notices.  The promise lapses,    *)
(* for good, the first time there is no memory left for a table; that      *)
(* first time, the pages already mapped are still spared.                  *)
(***************************************************************************)
CONSTANTS
  Pages,   \* virtual pages
  Frames,  \* physical frames
  Nowhere  \* where a page leads that is not mapped

VARIABLES
  mapping, \* the frame each page leads to
  intact   \* FALSE once a table could not be allocated

vars == <<mapping, intact>>

Init ==
  /\ mapping = [p \in Pages |-> Nowhere]
  /\ intact = TRUE

Map(page, frame) ==
  /\ intact
  /\ mapping' = [mapping EXCEPT ![page] = frame]
  /\ UNCHANGED intact

RunOut(page) ==
  /\ intact' = FALSE
  /\ intact => \A p \in Pages \ {page} :
                 mapping[p] # Nowhere => mapping'[p] = mapping[p]

Next ==
  \/ \E page \in Pages, frame \in Frames : Map(page, frame)
  \/ \E page \in Pages : RunOut(page)

Spec == Init /\ [][Next]_vars
=============================================================================
