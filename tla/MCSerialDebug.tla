--------------------------- MODULE MCSerialDebug ---------------------------
(***************************************************************************)
(* Three errors for SerialDebug: the two the code tells apart, and another.*)
(***************************************************************************)
EXTENDS SerialDebug

MCStatuses == {"not found", "device error", "timeout"}
=============================================================================
