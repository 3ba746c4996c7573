--------------------------- MODULE FrameAllocator ---------------------------
(***************************************************************************)
(* What a physical page allocator promises its callers, whatever its data  *)
(* structure: a request is answered with a frame that was free, and which  *)
(* is taken from then on, and it is refused only when nothing is free.     *)
(***************************************************************************)
CONSTANTS
  Frames,    \* every frame there could be
  Refused,   \* the answer to a request that cannot be met
  NoRequest  \* the last operation was not a request

VARIABLES
  available, \* frames no one holds
  answer     \* the answer to the last operation, if it was a request

vars == <<available, answer>>

Init == available = {} /\ answer = NoRequest

Grant(f) ==
  /\ f \in available
  /\ available' = available \ {f}
  /\ answer' = f

Refuse ==
  /\ available = {}
  /\ answer' = Refused
  /\ UNCHANGED available

(* Frames are taken out of the pool without a request (reserve, lock). *)
Withdraw ==
  /\ available' \subseteq available
  /\ answer' = NoRequest

(* Frames come back, or enter the pool for the first time. *)
GiveBack ==
  /\ available \subseteq available'
  /\ available' \subseteq Frames
  /\ answer' = NoRequest

Next ==
  \/ \E f \in Frames : Grant(f)
  \/ Refuse
  \/ Withdraw
  \/ GiveBack

Spec == Init /\ [][Next]_vars
=============================================================================
