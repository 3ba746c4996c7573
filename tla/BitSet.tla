------------------------------- MODULE BitSet -------------------------------
(***************************************************************************)
(* What a bitmap promises: a set of numbers that can be asked for a member *)
(* and told to gain or lose one, while nothing else in memory changes.     *)
(***************************************************************************)
CONSTANTS
  Numbers, \* what callers may name
  Capacity \* the numbers the set can hold

VARIABLES
  members, \* the set
  others,  \* everything else in memory
  answer   \* what the last call has returned

vars == <<members, others, answer>>

Init ==
  /\ members \subseteq Capacity
  /\ answer = FALSE

(* A number the set cannot hold is refused. *)
Put(number, value) ==
  /\ answer' = (number \in Capacity)
  /\ members' = IF value THEN members \cup ({number} \cap Capacity) ELSE members \ {number}
  /\ UNCHANGED others

Get(number) ==
  /\ answer' = (number \in members)
  /\ UNCHANGED <<members, others>>

Next == \E number \in Numbers : Get(number) \/ \E value \in BOOLEAN : Put(number, value)

Spec == Init /\ [][Next]_vars
=============================================================================
