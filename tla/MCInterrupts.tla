---------------------------- MODULE MCInterrupts ----------------------------
(***************************************************************************)
(* Values for Interrupts: the timer (line 0), the keyboard (1) and the     *)
(* clock of the second controller (8).                                     *)
(***************************************************************************)
EXTENDS Interrupts

(* Everything masked; only the keyboard open; timer and keyboard open; all  *)
(* open, the second controller too.                                         *)
MCMasks == { <<255, 255>>, <<253, 255>>, <<252, 255>>, <<248, 254>> }

(* The bases of a PC BIOS, where line 0 is the double fault and line 1 a    *)
(* vector without a handler, and bases the kernel has no handlers for.      *)
MCBases == { <<8, 112>>, <<104, 112>> }

(* Everything masked: a firmware that leaves the machine quiet.             *)
MCAllMasked == { <<255, 255>> }
=============================================================================
