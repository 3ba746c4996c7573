------------------------------ MODULE Numerals ------------------------------
(***************************************************************************)
(* Place values, for the two modules whose properties speak of the digits  *)
(* of numbers.                                                             *)
(***************************************************************************)
EXTENDS Integers

power(base, k) ==
  LET powers[j \in 0..k] == IF j = 0 THEN 1 ELSE base * powers[j - 1]
  IN  powers[k]

=============================================================================
