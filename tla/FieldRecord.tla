---------------------------- MODULE FieldRecord ----------------------------
(***************************************************************************)
(* What bit fields promise: each holds what it was given last, whatever    *)
(* happens to the others, and a question is answered with what it holds.   *)
(***************************************************************************)
CONSTANT Questions \* what may be asked for together: sets of names

VARIABLES
  offers, \* what may be assigned together: functions from names to values
  fields, \* the value of each field
  answer  \* to the last question

vars == <<offers, fields, answer>>

Assign(new) ==
  /\ DOMAIN new \subseteq DOMAIN fields
  /\ fields' = [name \in DOMAIN fields |-> IF name \in DOMAIN new THEN new[name] ELSE fields[name]]
  /\ UNCHANGED <<offers, answer>>

Read(names) ==
  /\ names \subseteq DOMAIN fields
  /\ answer' = [name \in names |-> fields[name]]
  /\ UNCHANGED <<offers, fields>>

Next ==
  \/ \E new \in offers : Assign(new)
  \/ \E names \in Questions : Read(names)

Spec == [][Next]_vars
=============================================================================
