------------------------------- MODULE MCBoot -------------------------------
(***************************************************************************)
(* Machines for Boot: no video mode, one of either kind, and three of      *)
(* which the last but one is wanted.                                       *)
(***************************************************************************)
EXTENDS Boot

MCModes == { << >>, <<FALSE>>, <<TRUE>>, <<FALSE, TRUE, FALSE>> }
=============================================================================
