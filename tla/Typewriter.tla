----------------------------- MODULE Typewriter -----------------------------
(***************************************************************************)
(* What a text console promises: characters appear one after the other in  *)
(* the last line, never one over another, and lines come one after the     *)
(* other.  The promise lapses, for good, when its users get into each      *)
(* other's way or the page is full.                                        *)
(***************************************************************************)
EXTENDS Sequences, Naturals

CONSTANT Chars \* the characters

VARIABLES
  width, \* characters in a line
  lines, \* the lines, each a sequence of places, each with what is in it
  intact \* FALSE once the promise has lapsed

vars == <<width, lines, intact>>

Init == width \in Nat /\ lines = << << >> >> /\ intact = TRUE

Type(c) ==
  /\ intact
  /\ Len(lines[Len(lines)]) < width
  /\ lines' = [lines EXCEPT ![Len(lines)] = Append(@, {c})]
  /\ UNCHANGED <<width, intact>>

NewLine ==
  /\ intact
  /\ lines' = Append(lines, << >>)
  /\ UNCHANGED <<width, intact>>

(* What is on the page stays there in the moment the promise lapses.        *)
Lapse == intact /\ intact' = FALSE /\ UNCHANGED <<width, lines>>

Lapsed == ~intact /\ ~intact'

Next ==
  \/ \E c \in Chars : Type(c)
  \/ NewLine
  \/ Lapse
  \/ Lapsed

Spec == Init /\ [][Next]_vars
=============================================================================
