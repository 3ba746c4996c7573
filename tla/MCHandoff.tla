----------------------------- MODULE MCHandoff -----------------------------
(***************************************************************************)
(* Memories for Handoff, of fourteen frames: two low ones, two the kernel  *)
(* is linked for, and behind them free runs of many lengths, between       *)
(* frames of the firmware's and with or without a hole.                    *)
(***************************************************************************)
EXTENDS Handoff

memoryOf(firmware, absent) ==
  [f \in 0..13 |-> IF f \in firmware THEN EfiBootServicesData
                   ELSE IF f \in absent THEN Absent ELSE EfiConventionalMemory]

MCMemories ==
  { memoryOf(firmware, absent) :
      firmware \in {{0, 13}, {0, 6, 9, 12}, {1, 2, 13}, {0, 5, 7, 9, 11, 13}},
      absent \in {{}, {10, 11}} }
=============================================================================
