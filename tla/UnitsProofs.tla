----------------------------- MODULE UnitsProofs -----------------------------
(***************************************************************************)
(* Five components that share no state.  In Boot, what the kernel finds    *)
(* when it is entered and why efi_main returns, for every machine and any  *)
(* number of changes of the memory map.  No message of SerialDebug         *)
(* vanishes or shows another's status, on any device, with any errors of   *)
(* the firmware and any number of nested calls.  The bytes of Bitmap       *)
(* implement the set of BitSet, for every size of the bitmap, every place  *)
(* of it in memory and all indexes.  The texts put on the port of Uart     *)
(* arrive, whatever the texts, the depth of the device's queues and what   *)
(* the firmware has left in it.  And the words of Descriptors implement    *)
(* the records of FieldRecord, for all words, numbers and orders of calls. *)
(***************************************************************************)
EXTENDS Boot, SerialDebug, Bitmap, Descriptors, Uart, SequenceTheorems, TLAPS

-----------------------------------------------------------------------------

(* Labels before a point of efi_main, and from one on to the kernel. *)
BeforeModes ==
  {"watchdog", "resetConsole", "locateSerial", "configureSerial", "locateGraphics", "openGraphics"}
FromGetMap  == {"getMap", "exitBootServices", "kernel"}
FromMapSize == {"mapSize", "mapAllocate"} \cup FromGetMap
FromFont    == {"loadFont"} \cup FromMapSize
FromClose   == {"closeGraphics"} \cup FromFont
FromVideo   == {"videoModeInfo"} \cup FromClose
FromVolume  == {"openVolume", "loadKernelImage"} \cup FromVideo

Fonts == {FontBuffers[n] : n \in 1..3}

FlagsOK ==
  /\ handles \in BOOLEAN /\ gop \in BOOLEAN /\ font \in BOOLEAN
  /\ exited \in BOOLEAN /\ failed \in BOOLEAN

NumbersOK ==
  /\ modes \in Seq(BOOLEAN)
  /\ i \in Nat \ {0}
  /\ size \in Int /\ key \in Int /\ room \in Int /\ mapKey \in Int
  /\ changes \in Nat

(* What is allocated stays: the segments, the font, the memory map. *)
BuffersKept ==
  /\ pc \in FromVideo => "segments" \in live
  /\ pc \in FromMapSize => (font => Fonts \subseteq live)
  /\ pc \in FromGetMap => "memoryMap" \in live

(* The key tells whether the map in the buffer is the current one. *)
MapAndKey ==
  /\ pc = "exitBootServices" => mapKey <= key /\ (mapKey = key => described = live)
  /\ pc = "kernel" => exited /\ described = live

(* Without changes by the firmware the slack is enough and the key is good. *)
Undisturbed ==
  changes = 0 =>
    /\ pc = "mapAllocate" => room = size
    /\ pc = "getMap" => size <= room
    /\ pc = "exitBootServices" => mapKey = key

(* The loop over the modes has passed none that fits, and ends on one. *)
ModesSearched ==
  /\ pc \in BeforeModes => i = 1
  /\ pc = "findVideoMode" => gop /\ \A n \in DOMAIN modes : n < i => ~modes[n]
  /\ pc \in FromVolume /\ gop => i \in DOMAIN modes /\ modes[i]
  /\ pc \in FromClose => video = IF gop THEN "mode" ELSE "garbage"
  /\ pc \in FromFont => handles

BootInv ==
  /\ FlagsOK
  /\ NumbersOK
  /\ BuffersKept
  /\ MapAndKey
  /\ Undisturbed
  /\ ModesSearched
  /\ ReturnHasCause

-----------------------------------------------------------------------------
(* efi_main starts with nothing allocated and no mode passed. *)
LEMMA BootStarts == Init => BootInv
<1> SUFFICES ASSUME Init PROVE BootInv
  OBVIOUS
<1> USE DEF BeforeModes, FromGetMap, FromMapSize, FromFont, FromClose, FromVideo, FromVolume, Fonts
<1>1. FlagsOK
  BY DEF Init, FlagsOK
<1>2. NumbersOK
  BY BootAssumption DEF Init, NumbersOK
<1>3. BuffersKept
  BY DEF Init, BuffersKept
<1>4. MapAndKey
  BY DEF Init, MapAndKey
<1>5. Undisturbed
  BY DEF Init, Undisturbed
<1>6. ModesSearched
  BY BootAssumption DEF Init, ModesSearched
<1>7. ReturnHasCause
  BY DEF Init, ReturnHasCause
<1>8. QED
  BY <1>1, <1>2, <1>3, <1>4, <1>5, <1>6, <1>7 DEF BootInv

(* Every call of efi_main, and the firmware beside it, keeps the invariant. *)
LEMMA BootSteps == BootInv /\ [Next]_vars => BootInv'
<1> SUFFICES ASSUME BootInv, [Next]_vars
             PROVE  BootInv'
  OBVIOUS
<1> USE DEF BootInv, BuffersKept, MapAndKey, Undisturbed, ModesSearched, ReturnHasCause
<1> USE DEF BeforeModes, FromGetMap, FromMapSize, FromFont, FromClose, FromVideo, FromVolume, Fonts
<1>1. CASE Prepare
  <2>1. FlagsOK'
    BY <1>1 DEF FlagsOK, Prepare, checked, goto, loopVars, mapVars, return, videoVars
  <2>2. NumbersOK'
    BY <1>1 DEF NumbersOK, Prepare, checked, goto, loopVars, mapVars, return, videoVars
  <2>3. QED
    BY <1>1, <2>1, <2>2 DEF FlagsOK, NumbersOK, Prepare, checked, goto, loopVars, mapVars,
         return, videoVars
<1>2. CASE InitSerialService
  <2>1. FlagsOK'
    BY <1>2 DEF FlagsOK, InitSerialService, checked, goto, loopVars, mapVars, return, videoVars
  <2>2. NumbersOK'
    BY <1>2 DEF NumbersOK, InitSerialService, checked, goto, loopVars, mapVars, return,
         videoVars
  <2>3. QED
    BY <1>2, <2>1, <2>2 DEF FlagsOK, NumbersOK, InitSerialService, checked, goto, loopVars,
         mapVars, return, videoVars
<1>3. CASE InitGraphicsOutputService
  <2>1. FlagsOK'
    BY <1>3 DEF FlagsOK, InitGraphicsOutputService, allocate, goto, loopVars, return
  <2>2. NumbersOK'
    BY <1>3 DEF NumbersOK, InitGraphicsOutputService, allocate, goto, loopVars, return
  <2>3. QED
    BY <1>3, <2>1, <2>2 DEF FlagsOK, NumbersOK, InitGraphicsOutputService, allocate, goto,
         loopVars, return
<1>4. CASE OpenGraphicsProtocol
  <2>1. FlagsOK'
    BY <1>4 DEF FlagsOK, OpenGraphicsProtocol, goto, loopVars, mapVars
  <2>2. NumbersOK'
    BY <1>4 DEF NumbersOK, OpenGraphicsProtocol, goto, loopVars, mapVars
  <2>3. QED
    BY <1>4, <2>1, <2>2 DEF FlagsOK, NumbersOK, OpenGraphicsProtocol, goto, loopVars, mapVars
<1>5. CASE FindVideoMode
  <2>1. FlagsOK'
    BY <1>5 DEF FlagsOK, FindVideoMode, QueryMode, allocate, checked, goto, return, videoVars
  <2>2. NumbersOK'
    BY <1>5 DEF NumbersOK, FindVideoMode, QueryMode, allocate, checked, goto, return, videoVars
  <2>3. QED
    BY <1>5, <2>1, <2>2 DEF FlagsOK, NumbersOK, FindVideoMode, QueryMode, allocate, checked,
         goto, return, videoVars
<1>6. CASE OpenVolume
  <2>1. FlagsOK'
    BY <1>6 DEF FlagsOK, OpenVolume, checked, goto, loopVars, mapVars, return, videoVars
  <2>2. NumbersOK'
    BY <1>6 DEF NumbersOK, OpenVolume, checked, goto, loopVars, mapVars, return, videoVars
  <2>3. QED
    BY <1>6, <2>1, <2>2 DEF FlagsOK, NumbersOK, OpenVolume, checked, goto, loopVars, mapVars,
         return, videoVars
<1>7. CASE LoadKernelImage
  <2>1. FlagsOK'
    BY <1>7 DEF FlagsOK, LoadKernelImage, allocate, checked, goto, loopVars, return, videoVars
  <2>2. NumbersOK'
    BY <1>7 DEF NumbersOK, LoadKernelImage, allocate, checked, goto, loopVars, return,
         videoVars
  <2>3. QED
    BY <1>7, <2>1, <2>2 DEF FlagsOK, NumbersOK, LoadKernelImage, allocate, checked, goto,
         loopVars, return, videoVars
<1>8. CASE SetVideoModeInfo
  <2>1. FlagsOK'
    BY <1>8 DEF FlagsOK, SetVideoModeInfo, goto, loopVars, mapVars
  <2>2. NumbersOK'
    BY <1>8 DEF NumbersOK, SetVideoModeInfo, goto, loopVars, mapVars
  <2>3. QED
    BY <1>8, <2>1, <2>2 DEF FlagsOK, NumbersOK, SetVideoModeInfo, goto, loopVars, mapVars
<1>9. CASE CloseGraphicOutputService
  <2>1. FlagsOK'
    BY <1>9 DEF FlagsOK, CloseGraphicOutputService, freed, goto, loopVars, return, videoVars
  <2>2. NumbersOK'
    BY <1>9 DEF NumbersOK, CloseGraphicOutputService, freed, goto, loopVars, return, videoVars
  <2>3. QED
    BY <1>9, <2>1, <2>2 DEF FlagsOK, NumbersOK, CloseGraphicOutputService, freed, goto,
         loopVars, return, videoVars
<1>10. CASE LoadPSD1Font
  <2>1. FlagsOK'
    BY <1>10 DEF FlagsOK, LoadPSD1Font, FontBuffers, allocate, goto, loopVars, videoVars
  <2>2. NumbersOK'
    BY <1>10 DEF NumbersOK, LoadPSD1Font, FontBuffers, allocate, goto, loopVars, videoVars
  <2>3. QED
    BY <1>10, <2>1, <2>2 DEF FlagsOK, NumbersOK, LoadPSD1Font, FontBuffers, allocate, goto,
         loopVars, videoVars
<1>11. CASE GetMemoryMapSize
  <2>1. FlagsOK'
    BY <1>11 DEF FlagsOK, GetMemoryMapSize, goto, loopVars, return, videoVars
  <2>2. NumbersOK'
    BY <1>11 DEF NumbersOK, GetMemoryMapSize, goto, loopVars, return, videoVars
  <2>3. QED
    BY <1>11, <2>1, <2>2 DEF FlagsOK, NumbersOK, GetMemoryMapSize, goto, loopVars, return,
         videoVars
<1>12. CASE AllocateMemoryMap
  <2>1. FlagsOK'
    BY <1>12 DEF FlagsOK, AllocateMemoryMap, allocate, goto, loopVars, return, slack, videoVars
  <2>2. NumbersOK'
    BY <1>12 DEF NumbersOK, AllocateMemoryMap, allocate, goto, loopVars, return, slack,
         videoVars
  <2>3. QED
    BY <1>12, <2>1, <2>2 DEF FlagsOK, NumbersOK, AllocateMemoryMap, allocate, goto, loopVars,
         return, slack, videoVars
<1>13. CASE GetMemoryMap
  <2>1. FlagsOK'
    BY <1>13 DEF FlagsOK, GetMemoryMap, goto, loopVars, return, videoVars
  <2>2. NumbersOK'
    BY <1>13 DEF NumbersOK, GetMemoryMap, goto, loopVars, return, videoVars
  <2>3. QED
    BY <1>13, <2>1, <2>2 DEF FlagsOK, NumbersOK, GetMemoryMap, goto, loopVars, return,
         videoVars
<1>14. CASE ExitBootServices
  <2>1. FlagsOK'
    BY <1>14 DEF FlagsOK, ExitBootServices, goto, loopVars, return, videoVars
  <2>2. NumbersOK'
    BY <1>14 DEF NumbersOK, ExitBootServices, goto, loopVars, return, videoVars
  <2>3. QED
    BY <1>14, <2>1, <2>2 DEF FlagsOK, NumbersOK, ExitBootServices, goto, loopVars, return,
         videoVars
<1>15. CASE FirmwareChangesMap
  <2>1. FlagsOK'
    BY <1>15 DEF FlagsOK, FirmwareChangesMap, allocate, ends, loopVars, videoVars
  <2>2. NumbersOK'
    BY <1>15 DEF NumbersOK, FirmwareChangesMap, allocate, ends, loopVars, videoVars
  <2>3. QED
    BY <1>15, <2>1, <2>2 DEF FlagsOK, NumbersOK, FirmwareChangesMap, allocate, ends, loopVars,
         videoVars
<1>16. CASE UNCHANGED vars
  BY <1>16 DEF FlagsOK, NumbersOK, vars
<1>17. QED
  BY <1>1, <1>2, <1>3, <1>4, <1>5, <1>6, <1>7, <1>8, <1>9, <1>10, <1>11, <1>12, <1>13, <1>14,
       <1>15, <1>16 DEF Next, EfiMain

(* The inductive invariant holds in every state of every machine, whatever  *)
(* fails and however often the firmware changes the map.                    *)
THEOREM BootInvariant == Spec => []BootInv
<1>1. Init => BootInv
  BY BootStarts
<1>2. BootInv /\ [Next]_vars => BootInv'
  BY BootSteps
<1>3. QED
  BY <1>1, <1>2, PTL DEF Spec

(* When the kernel is entered, boot services have been left with the key    *)
(* of a map that shows the segments, the font and the map itself.           *)
THEOREM MapIsCurrent == Spec => []KernelSeesCurrentMap
<1>1. BootInv => KernelSeesCurrentMap
  BY DEF BootInv, BuffersKept, MapAndKey, Fonts, FromVideo, FromMapSize, FromGetMap, FromFont,
     FromClose, KernelSeesCurrentMap
<1>2. QED
  BY <1>1, BootInvariant, PTL

(* efi_main returns for a cause: the slack of two descriptors and the key   *)
(* of the last GetMemoryMap do, as long as the firmware leaves the map      *)
(* alone.                                                                   *)
THEOREM ReturnsForACause == Spec => []ReturnHasCause
<1>1. BootInv => ReturnHasCause
  BY DEF BootInv
<1>2. QED
  BY <1>1, BootInvariant, PTL

(* The kernel runs in the wanted mode or, without a graphics protocol,      *)
(* with a garbage frame buffer, and never without graphics handles.         *)
THEOREM RunsInWantedMode == Spec => []KernelInWantedMode
<1>1. BootInv => KernelInWantedMode
  BY DEF BootInv, ModesSearched, FromVolume, FromVideo, FromClose, FromFont, FromMapSize,
     FromGetMap, KernelInWantedMode
<1>2. QED
  BY <1>1, BootInvariant, PTL

-----------------------------------------------------------------------------
Kinds == {"locating", "configuring", "initialising", "message", "writing", "partial"}
Labels == {"format", "write", "notice", "return"}

Call  == [kind : Kinds, status : Statuses \cup {"none"},
          result : Statuses \cup {"success", "under way"}]
Frame == [id : Nat, at : Labels, shows : Statuses \cup {"none"},
          result : Statuses \cup {"success"}]
Text  == [by : Nat, kind : Kinds \cup {"printing"}, shows : Statuses \cup {"none"}]

SerialTypeOK ==
  /\ buffer \in Statuses \cup {"none"}
  /\ calls \in Seq(Call)
  /\ stack \in Seq(Frame)
  /\ serial \in Seq(Text)
  /\ console \in Seq(Text)

Whole(id) == [by |-> id, kind |-> calls[id].kind, shows |-> calls[id].status]
Failure(id, status) == [by |-> id, kind |-> "printing", shows |-> status]
Written(id) == \E n \in DOMAIN serial : serial[n].by = id

(* What must be in the logs when a call ends with some result.              *)
Accounted(id, outcome) ==
  /\ outcome = "success" => Whole(id) \in entries(serial) \cup entries(console)
  /\ outcome \in Statuses => Failure(id, outcome) \in entries(console) /\ ~Written(id)

(* What is known of a call under way from what it does next: until its text *)
(* is formatted the buffer is its own, until then it is the last call, and  *)
(* until it is written it has written nothing.                              *)
FrameOK(f) ==
  /\ f.id \in DOMAIN calls /\ calls[f.id].result = "under way"
  /\ f.at \in {"format", "write"} => f.result = "success" /\ f.id = Len(calls)
  /\ f.at = "format" /\ calls[f.id].status # "none" => buffer = calls[f.id].status
  /\ f.at = "write" => f.shows = calls[f.id].status
  /\ f.at = "notice" => f.result \in Statuses
  /\ f.at = "return" => Accounted(f.id, f.result)
  /\ f.at # "return" => ~Written(f.id)

(* The calls under way are different ones, and all but the innermost wait   *)
(* to report that their write has failed.                                   *)
Nested(frames) ==
  /\ \A m, n \in DOMAIN frames : frames[m].id = frames[n].id => m = n
  /\ \A n \in DOMAIN frames : n # Len(frames) => frames[n].at = "notice"

StackOK ==
  /\ \A f \in entries(stack) : FrameOK(f)
  /\ Nested(stack)

CallOK(id) == Accounted(id, calls[id].result)

LogsOK ==
  /\ \A id \in DOMAIN calls : CallOK(id)
  /\ \A n \in DOMAIN serial : serial[n].by \in DOMAIN calls
  /\ \A m, n \in DOMAIN serial : m < n => serial[m].by < serial[n].by

SerialInv == SerialTypeOK /\ StackOK /\ LogsOK

LEMMA SerialStarts == SerialInit => SerialInv
  BY DEF SerialInit, SerialInv, SerialTypeOK, StackOK, Nested, LogsOK, entries

LEMMA Appended ==
  ASSUME NEW S, NEW log \in Seq(S), NEW e \in S
  PROVE  /\ Append(log, e) \in Seq(S) /\ Len(Append(log, e)) = Len(log) + 1
         /\ DOMAIN Append(log, e) = DOMAIN log \cup {Len(log) + 1}
         /\ Len(log) + 1 \notin DOMAIN log
         /\ \A n \in DOMAIN log : Append(log, e)[n] = log[n]
         /\ Append(log, e)[Len(log) + 1] = e
         /\ entries(Append(log, e)) = entries(log) \cup {e}
<1>1. /\ Append(log, e) \in Seq(S) /\ Len(Append(log, e)) = Len(log) + 1
      /\ DOMAIN Append(log, e) = DOMAIN log \cup {Len(log) + 1}
      /\ Len(log) + 1 \notin DOMAIN log
      /\ \A n \in DOMAIN log : Append(log, e)[n] = log[n]
      /\ Append(log, e)[Len(log) + 1] = e
  OBVIOUS
<1> QED
  BY <1>1 DEF entries

LEMMA Unchanged ==
  ASSUME SerialInv, UNCHANGED <<buffer, calls, stack, serial, console>>
  PROVE  SerialInv'
<1>1. SerialTypeOK'
  BY DEF SerialInv, SerialTypeOK
<1>2. \A f : FrameOK(f) => FrameOK(f)'
  BY DEF FrameOK, Accounted, Whole, Failure, Written, entries
<1>3. StackOK'
  BY <1>2 DEF SerialInv, StackOK, Nested, entries
<1>4. LogsOK'
  BY DEF SerialInv, LogsOK, CallOK, Accounted, Whole, Failure, Written, entries
<1> QED
  BY <1>1, <1>3, <1>4 DEF SerialInv

-----------------------------------------------------------------------------
(* A call: the buffer shows its status, and it is the last one.             *)
LEMMA Called ==
  ASSUME SerialInv, NEW purpose \in Kinds, NEW status \in Statuses \cup {"none"},
         NEW callers \in Seq(Frame),
         \A f \in entries(callers) : FrameOK(f) /\ f.at = "notice",
         Nested(callers),
         debugPrint(purpose, status, callers), UNCHANGED <<serial, console>>
  PROVE  SerialInv'
<1>t. /\ buffer \in Statuses \cup {"none"} /\ calls \in Seq(Call) /\ stack \in Seq(Frame)
      /\ serial \in Seq(Text) /\ console \in Seq(Text)
  BY DEF SerialInv, SerialTypeOK
<1>1. CASE UNCHANGED <<buffer, calls, stack>>
  BY <1>1, Unchanged
<1>2. CASE /\ buffer' = IF status = "none" THEN buffer ELSE status
           /\ calls' = Append(calls, [kind |-> purpose, status |-> status,
                                      result |-> "under way"])
           /\ stack' = Append(callers, [id |-> Len(calls) + 1, at |-> "format",
                                        shows |-> "none", result |-> "success"])
  <2>1. PICK c \in Call :
          /\ c.status = status /\ c.result = "under way"
          /\ calls' = Append(calls, c)
    <3> DEFINE new == [kind |-> purpose, status |-> status, result |-> "under way"]
    <3>1. new \in Call /\ new.status = status /\ new.result = "under way"
      BY DEF Call
    <3> QED
      BY <1>2, <3>1
  <2>2. PICK f \in Frame :
          /\ f.id = Len(calls) + 1 /\ f.at = "format" /\ f.result = "success"
          /\ stack' = Append(callers, f)
    <3> DEFINE new == [id |-> Len(calls) + 1, at |-> "format", shows |-> "none",
                       result |-> "success"]
    <3>1. /\ new \in Frame
          /\ new.id = Len(calls) + 1 /\ new.at = "format" /\ new.result = "success"
      BY <1>t DEF Frame, Labels
    <3> QED
      BY <1>2, <3>1
  <2>4. /\ calls' \in Seq(Call) /\ Len(calls') = Len(calls) + 1
        /\ DOMAIN calls' = DOMAIN calls \cup {Len(calls) + 1}
        /\ \A n \in DOMAIN calls : calls'[n] = calls[n]
        /\ calls'[Len(calls) + 1] = c
        /\ Len(calls) + 1 \notin DOMAIN calls
    <3>1. calls \in Seq(Call) /\ calls' = Append(calls, c)
      BY <1>t, <2>1
    <3> QED
      BY <3>1, Appended
  <2>5. /\ stack' \in Seq(Frame) /\ Len(stack') = Len(callers) + 1
        /\ DOMAIN stack' = DOMAIN callers \cup {Len(callers) + 1}
        /\ \A n \in DOMAIN callers : stack'[n] = callers[n]
        /\ stack'[Len(callers) + 1] = f
    BY <2>2, Appended
  <2>6. SerialTypeOK'
    BY <1>t, <1>2, <2>4, <2>5 DEF SerialTypeOK
  <2>7. \A n \in DOMAIN serial : serial[n].by # Len(calls) + 1
    BY <2>4 DEF SerialInv, LogsOK
  <2>8. FrameOK(f)'
    <3>1. f.id \in DOMAIN calls' /\ calls'[f.id] = c /\ f.id = Len(calls')
      BY <2>2, <2>4
    <3>2. ~Written(f.id)'
      BY <2>2, <2>7 DEF Written
    <3> QED
      BY <1>2, <2>1, <2>2, <3>1, <3>2 DEF FrameOK
  <2>9. \A id \in DOMAIN calls : \A outcome : Accounted(id, outcome) => Accounted(id, outcome)'
    BY <2>4 DEF Accounted, Whole, Failure, Written
  <2>10. ASSUME NEW g \in entries(callers) PROVE FrameOK(g)'
    <3>1. FrameOK(g) /\ g.at = "notice"
      BY <2>10
    <3>2. /\ g.id \in DOMAIN calls /\ calls[g.id].result = "under way"
          /\ g.result \in Statuses /\ ~Written(g.id)
      BY <3>1 DEF FrameOK
    <3>3. g.id \in DOMAIN calls' /\ calls'[g.id] = calls[g.id]
      BY <2>4, <3>2
    <3>4. ~Written(g.id)'
      BY <3>2 DEF Written
    <3> QED
      BY <3>1, <3>2, <3>3, <3>4 DEF FrameOK
  <2>11. entries(stack)' = entries(callers) \cup {f}
    BY <2>2, Appended DEF entries
  <2>12. Nested(stack)'
    <3>1. ASSUME NEW n \in DOMAIN callers PROVE callers[n].id # f.id
      <4>1. FrameOK(callers[n])
        BY DEF entries
      <4>2. callers[n].id \in DOMAIN calls
        BY <4>1 DEF FrameOK
      <4> QED
        BY <2>2, <2>4, <4>2
    <3> QED
      BY <2>5, <3>1 DEF Nested, entries
  <2>13. StackOK'
    BY <2>8, <2>10, <2>11, <2>12 DEF StackOK
  <2>14. LogsOK'
    <3>1. \A id : Accounted(id, "under way")'
      BY SerialDebugAssumption DEF Accounted
    <3>2. ASSUME NEW id \in DOMAIN calls' PROVE CallOK(id)'
      <4>1. CASE id \in DOMAIN calls
        BY <2>4, <2>9, <4>1 DEF SerialInv, LogsOK, CallOK
      <4>2. CASE id = Len(calls) + 1
        BY <2>1, <2>4, <3>1, <4>2 DEF CallOK
      <4> QED
        BY <2>4, <4>1, <4>2
    <3>3. \A n \in DOMAIN serial : serial[n].by \in DOMAIN calls'
      BY <2>4 DEF SerialInv, LogsOK
    <3> QED
      BY <3>2, <3>3 DEF SerialInv, LogsOK
  <2> QED
    BY <2>6, <2>13, <2>14 DEF SerialInv
<1> QED
  BY <1>1, <1>2 DEF debugPrint, getEFIErrorMessage

(* The calls of efi_main start on an empty stack. *)
LEMMA CalledFromMain ==
  ASSUME SerialInv, NEW purpose \in Kinds, NEW status \in Statuses \cup {"none"},
         debugPrint(purpose, status, << >>), UNCHANGED <<serial, console>>
  PROVE  SerialInv'
<1>1. << >> \in Seq(Frame) /\ entries(<< >>) = {} /\ Nested(<< >>)
  BY DEF entries, Nested
<1> QED
  BY <1>1, Called

LEMMA MainStep ==
  ASSUME SerialInv, LocateProtocol \/ ConfigureSerialProtocol \/ FatalError \/ PrintMessage
  PROVE  SerialInv'
<1>1. UNCHANGED <<serial, console>>
  BY DEF LocateProtocol, ConfigureSerialProtocol, FatalError, PrintMessage
<1>2. CASE noCall
  BY <1>1, <1>2, Unchanged DEF noCall
<1>3. CASE \E purpose \in Kinds, status \in Statuses \cup {"none"} : debugPrint(purpose, status, << >>)
  BY <1>1, <1>3, CalledFromMain
<1> QED
  BY <1>2, <1>3 DEF LocateProtocol, ConfigureSerialProtocol, FatalError, PrintMessage, Kinds

-----------------------------------------------------------------------------
(* What the innermost call does next concerns its frame and one log.        *)
LEMMA Innermost ==
  ASSUME SerialInv, stack # << >>
  PROVE  /\ Len(stack) \in DOMAIN stack /\ stack \in Seq(Frame)
         /\ top = stack[Len(stack)] /\ top \in Frame /\ FrameOK(top)
         /\ top.id \in DOMAIN calls /\ calls[top.id] \in Call
         /\ \A n \in DOMAIN stack \ {Len(stack)} :
              /\ stack[n] \in Frame /\ FrameOK(stack[n])
              /\ stack[n].id # top.id /\ stack[n].at = "notice"
<1>1. stack \in Seq(Frame) /\ calls \in Seq(Call)
  BY DEF SerialInv, SerialTypeOK
<1>2. Len(stack) \in DOMAIN stack /\ top = stack[Len(stack)]
  BY <1>1 DEF top
<1>3. \A n \in DOMAIN stack : stack[n] \in Frame /\ FrameOK(stack[n])
  BY <1>1 DEF SerialInv, StackOK, entries
<1>4. top.id \in DOMAIN calls
  BY <1>2, <1>3 DEF FrameOK
<1> QED
  BY <1>1, <1>2, <1>3, <1>4 DEF SerialInv, StackOK, Nested

LEMMA Replaced ==
  ASSUME SerialInv, stack # << >>, NEW g \in Frame, g.id = top.id
  PROVE  /\ with(g) \in Seq(Frame) /\ Len(with(g)) = Len(stack)
         /\ entries(with(g)) = {stack[n] : n \in DOMAIN stack \ {Len(stack)}} \cup {g}
         /\ Nested(with(g))
<1>1. /\ Len(stack) \in DOMAIN stack /\ stack \in Seq(Frame) /\ top = stack[Len(stack)]
      /\ \A n \in DOMAIN stack \ {Len(stack)} : stack[n].id # top.id
  BY Innermost
<1>2. /\ with(g) \in Seq(Frame) /\ Len(with(g)) = Len(stack) /\ DOMAIN with(g) = DOMAIN stack
      /\ \A n \in DOMAIN stack : with(g)[n] = IF n = Len(stack) THEN g ELSE stack[n]
  BY <1>1 DEF with
<1>3. entries(with(g)) = {stack[n] : n \in DOMAIN stack \ {Len(stack)}} \cup {g}
  BY <1>1, <1>2 DEF entries
<1>4. Nested(with(g))
  BY <1>1, <1>2 DEF SerialInv, StackOK, Nested
<1> QED
  BY <1>2, <1>3, <1>4

(* The innermost call goes on, and no call but it writes to the device.     *)
LEMMA Moved ==
  ASSUME SerialInv, stack # << >>, NEW g \in Frame, g.id = top.id, stack' = with(g),
         calls' = calls, buffer' \in Statuses \cup {"none"},
         \/ serial' = serial
         \/ /\ top.at = "write"
            /\ \E e \in Text : e.by = top.id /\ serial' = Append(serial, e),
         console' = console \/ \E e \in Text : console' = Append(console, e),
         FrameOK(g)'
  PROVE  SerialInv'
<1>t. /\ calls \in Seq(Call) /\ serial \in Seq(Text) /\ console \in Seq(Text)
  BY DEF SerialInv, SerialTypeOK
<1>1. /\ top.id \in DOMAIN calls /\ calls[top.id].result = "under way"
      /\ top.at = "write" => top.id = Len(calls) /\ ~Written(top.id)
  BY Innermost DEF FrameOK
<1>2. PICK id \in Nat : id = top.id
  BY Innermost DEF Frame
<1>3. /\ serial' \in Seq(Text)
      /\ entries(serial) \subseteq entries(serial)'
      /\ \A n \in DOMAIN serial' :
           \/ n \in DOMAIN serial /\ serial'[n] = serial[n]
           \/ /\ top.at = "write" /\ n = Len(serial) + 1 /\ DOMAIN serial = 1..Len(serial)
              /\ serial'[n].by = id
  <2>1. CASE serial' = serial
    BY <1>t, <2>1 DEF entries
  <2>2. ASSUME top.at = "write", NEW e \in Text, e.by = top.id, serial' = Append(serial, e)
        PROVE  /\ serial' \in Seq(Text)
               /\ entries(serial) \subseteq entries(serial)'
               /\ \A n \in DOMAIN serial' :
                    \/ n \in DOMAIN serial /\ serial'[n] = serial[n]
                    \/ n = Len(serial) + 1 /\ DOMAIN serial = 1..Len(serial) /\ serial'[n].by = id
    BY <1>t, <1>2, <2>2, Appended DEF entries
  <2> QED
    BY <2>1, <2>2
<1>4. console' \in Seq(Text) /\ entries(console) \subseteq entries(console)'
  <2>1. ASSUME NEW e \in Text, console' = Append(console, e)
        PROVE  console' \in Seq(Text) /\ entries(console) \subseteq entries(console')
    BY <1>t, <2>1, Appended
  <2> QED
    BY <1>t, <2>1 DEF entries
<1>5. ASSUME NEW x, x # id, ~Written(x) PROVE ~Written(x)'
  BY <1>3, <1>5 DEF Written
<1>6. ASSUME NEW x \in DOMAIN calls, x # id, NEW outcome, Accounted(x, outcome)
      PROVE  Accounted(x, outcome)'
  BY <1>3, <1>4, <1>5, <1>6 DEF Accounted, Whole, Failure
<1>7. SerialTypeOK'
  BY <1>t, <1>3, <1>4, Replaced DEF SerialTypeOK
<1>8. ASSUME NEW f, FrameOK(f), f.at = "notice", f.id # id PROVE FrameOK(f)'
  <2>1. ~Written(f.id)'
    BY <1>5, <1>8 DEF FrameOK
  <2> QED
    BY <1>8, <2>1 DEF FrameOK
<1>9. StackOK'
  <2>1. entries(stack)' = {stack[n] : n \in DOMAIN stack \ {Len(stack)}} \cup {g}
    BY Replaced DEF entries
  <2>2. ASSUME NEW f \in {stack[n] : n \in DOMAIN stack \ {Len(stack)}} PROVE FrameOK(f)'
    BY <1>2, <1>8, <2>2, Innermost
  <2>3. Nested(stack)'
    BY Replaced DEF Nested
  <2> QED
    BY <2>1, <2>2, <2>3 DEF StackOK
<1>10. LogsOK'
  <2>1. ASSUME NEW x \in DOMAIN calls PROVE CallOK(x)'
    <3>1. CASE x = id
      BY <1>1, <1>2, <3>1, SerialDebugAssumption DEF CallOK, Accounted
    <3>2. CASE x # id
      BY <1>6, <3>2 DEF SerialInv, LogsOK, CallOK
    <3> QED
      BY <3>1, <3>2
  <2>2. ASSUME NEW n \in DOMAIN serial' PROVE serial'[n].by \in DOMAIN calls
    BY <1>1, <1>2, <1>3 DEF SerialInv, LogsOK
  <2>3. ASSUME NEW m \in DOMAIN serial', NEW n \in DOMAIN serial', m < n
        PROVE  serial'[m].by < serial'[n].by
    <3>1. m \in Nat /\ n \in Nat /\ DOMAIN serial \subseteq 1..Len(serial) /\ Len(serial) \in Nat
      BY <1>t, <1>3
    <3>2. CASE m \in DOMAIN serial /\ n \in DOMAIN serial
      <4>1. serial'[m] = serial[m] /\ serial'[n] = serial[n]
        BY <1>3, <3>1, <3>2
      <4> QED
        BY <2>3, <3>2, <4>1 DEF SerialInv, LogsOK
    <3>3. CASE n \notin DOMAIN serial
      <4>1. m \in DOMAIN serial /\ serial'[m] = serial[m] /\ serial'[n].by = id
        BY <1>3, <2>3, <3>1, <3>3
      <4>2. serial[m].by \in DOMAIN calls /\ serial[m].by # id
        BY <1>1, <1>2, <1>3, <3>3, <4>1 DEF SerialInv, LogsOK, Written
      <4>3. id = Len(calls)
        BY <1>1, <1>2, <1>3, <3>3
      <4>4. DOMAIN calls = 1..Len(calls) /\ Len(calls) \in Nat
        BY <1>t
      <4> QED
        BY <4>1, <4>2, <4>3, <4>4
    <3>4. CASE m \notin DOMAIN serial
      BY <1>3, <2>3, <3>1, <3>4
    <3> QED
      BY <3>2, <3>3, <3>4
  <2> QED
    BY <2>1, <2>2, <2>3 DEF LogsOK
<1> QED
  BY <1>7, <1>9, <1>10 DEF SerialInv

LEMMA FormatStep == ASSUME SerialInv, Format PROVE SerialInv'
<1>1. /\ stack # << >> /\ top.at = "format"
      /\ UNCHANGED <<buffer, calls, serial>>
  BY DEF Format, at
<1>2. /\ top \in Frame /\ FrameOK(top) /\ top.id \in DOMAIN calls /\ calls[top.id] \in Call
      /\ top.result = "success" /\ ~Written(top.id) /\ top.id = Len(calls)
  BY <1>1, Innermost DEF FrameOK
<1>3. shown = calls[top.id].status /\ shown \in Statuses \cup {"none"}
  BY <1>1, <1>2 DEF shown, FrameOK, Call
<1>4. PICK id \in Nat : id = top.id
  BY <1>2 DEF Frame
<1>5. CASE protocol
  <2> DEFINE g == [top EXCEPT !.at = "write", !.shows = shown]
  <2>1. /\ g \in Frame /\ g.id = id /\ g.at = "write" /\ g.shows = shown
        /\ g.result = "success"
    BY <1>2, <1>3, <1>4 DEF Frame, Labels
  <2>2. stack' = with(g) /\ UNCHANGED console
    BY <1>5 DEF Format
  <2> HIDE DEF g
  <2>3. PICK f \in Frame : f = g
    BY <2>1
  <2>4. FrameOK(f)'
    BY <1>1, <1>2, <1>3, <1>4, <2>1, <2>3 DEF FrameOK, Written
  <2> QED
    BY <1>1, <1>4, <2>1, <2>2, <2>3, <2>4, Moved DEF SerialInv, SerialTypeOK
<1>6. CASE ~protocol
  <2> DEFINE g == [top EXCEPT !.at = "return"]
             e == [text EXCEPT !.shows = shown]
  <2>1. g \in Frame /\ g.id = id /\ g.at = "return" /\ g.result = "success"
    BY <1>2, <1>4 DEF Frame, Labels
  <2>2. e \in Text /\ e = Whole(id)
    <3>1. e = [by |-> top.id, kind |-> calls[top.id].kind, shows |-> shown]
      BY DEF text
    <3>2. calls[top.id].kind \in Kinds
      BY <1>2 DEF Call
    <3> HIDE DEF e
    <3> QED
      BY <1>3, <1>4, <3>1, <3>2 DEF Whole, Text
  <2>3. stack' = with(g) /\ console' = Append(console, e)
    BY <1>6 DEF Format
  <2> HIDE DEF g, e
  <2>4. PICK f \in Frame : f = g
    BY <2>1
  <2>5. Whole(id)' \in entries(console)'
    <3>1. entries(console)' = entries(console) \cup {e}
      BY <2>2, <2>3, Appended DEF SerialInv, SerialTypeOK, entries
    <3> QED
      BY <1>1, <2>2, <3>1 DEF Whole
  <2>6. FrameOK(f)'
    BY <1>1, <1>2, <1>4, <2>1, <2>4, <2>5, SerialDebugAssumption DEF FrameOK, Accounted
  <2> QED
    BY <1>1, <1>4, <2>1, <2>2, <2>3, <2>4, <2>6, Moved DEF SerialInv, SerialTypeOK
<1> QED
  BY <1>5, <1>6

LEMMA WriteStep == ASSUME SerialInv, Write PROVE SerialInv'
<1> DEFINE g == [top EXCEPT !.at = "return"]
<1>1. /\ stack # << >> /\ top.at = "write"
      /\ UNCHANGED <<buffer, calls, console>>
      /\ stack' = with(g) /\ serial' = Append(serial, text)
  BY DEF Write, at
<1>2. /\ top \in Frame /\ FrameOK(top) /\ top.id \in DOMAIN calls /\ calls[top.id] \in Call
      /\ top.result = "success" /\ top.shows = calls[top.id].status
      /\ calls[top.id].result = "under way"
  BY <1>1, Innermost DEF FrameOK
<1>3. PICK id \in Nat : id = top.id
  BY <1>2 DEF Frame
<1>4. g \in Frame /\ g.id = id /\ g.at = "return" /\ g.result = "success"
  BY <1>2, <1>3 DEF Frame, Labels
<1>5. text \in Text /\ text = Whole(id) /\ text.by = top.id
  BY <1>2, <1>3 DEF text, Whole, Text, Call
<1> HIDE DEF g
<1>6. PICK f \in Frame : f = g
  BY <1>4
<1>7. Whole(id)' \in entries(serial)'
  <2>1. entries(serial)' = entries(serial) \cup {text}
    BY <1>1, <1>5, Appended DEF SerialInv, SerialTypeOK, entries
  <2> QED
    BY <1>1, <1>5, <2>1 DEF Whole
<1>8. FrameOK(f)'
  BY <1>1, <1>2, <1>3, <1>4, <1>6, <1>7, SerialDebugAssumption DEF FrameOK, Accounted
<1> QED
  BY <1>1, <1>3, <1>4, <1>5, <1>6, <1>8, Moved DEF SerialInv, SerialTypeOK

LEMMA NoticeStep == ASSUME SerialInv, Notice PROVE SerialInv'
<1> DEFINE g == [top EXCEPT !.at = "return"]
           e == [by |-> top.id, kind |-> "printing", shows |-> buffer']
<1>1. /\ stack # << >> /\ top.at = "notice"
      /\ UNCHANGED <<calls, serial>>
      /\ getEFIErrorMessage(top.result)
      /\ stack' = with(g) /\ console' = Append(console, e)
  BY DEF Notice, at
<1>2. /\ top \in Frame /\ FrameOK(top) /\ top.id \in DOMAIN calls
      /\ top.result \in Statuses /\ ~Written(top.id)
      /\ calls[top.id].result = "under way"
  BY <1>1, Innermost DEF FrameOK
<1>3. buffer' = top.result
  BY <1>1, <1>2, SerialDebugAssumption DEF getEFIErrorMessage
<1>4. PICK id \in Nat : id = top.id
  BY <1>2 DEF Frame
<1>5. g \in Frame /\ g.id = id /\ g.at = "return" /\ g.result = top.result
  BY <1>2, <1>4 DEF Frame, Labels
<1>6. e \in Text /\ e = Failure(id, top.result)
  BY <1>2, <1>3, <1>4 DEF Failure, Text
<1> HIDE DEF g, e
<1>7. PICK f \in Frame : f = g
  BY <1>5
<1>8. Failure(id, f.result) \in entries(console)'
  <2>1. entries(console)' = entries(console) \cup {e}
    BY <1>1, <1>6, Appended DEF SerialInv, SerialTypeOK, entries
  <2> QED
    BY <1>5, <1>6, <1>7, <2>1
<1>9. FrameOK(f)'
  <2>1. ~Written(id)'
    BY <1>1, <1>2, <1>4 DEF Written
  <2>2. Accounted(id, f.result)'
    BY <1>2, <1>5, <1>7, <1>8, <2>1, SerialDebugAssumption DEF Accounted, Failure
  <2> QED
    BY <1>1, <1>2, <1>4, <1>5, <1>7, <2>2 DEF FrameOK
<1> QED
  BY <1>1, <1>2, <1>3, <1>4, <1>5, <1>6, <1>7, <1>9, Moved DEF SerialInv, SerialTypeOK

(* A write that fails leaves the call waiting to report it, with another    *)
(* call on top.                                                             *)
LEMMA FailingStep == ASSUME SerialInv, WriteFails \/ WritesPart PROVE SerialInv'
<1>1. /\ stack # << >> /\ top.at = "write"
      /\ UNCHANGED <<serial, console>>
  BY DEF WriteFails, WritesPart, at
<1>2. PICK purpose \in Kinds, status \in Statuses \cup {"none"}, outcome \in Statuses :
        debugPrint(purpose, status, with([top EXCEPT !.at = "notice", !.result = outcome]))
  BY SerialDebugAssumption DEF WriteFails, WritesPart, Kinds
<1> DEFINE g == [top EXCEPT !.at = "notice", !.result = outcome]
<1>3. /\ top \in Frame /\ FrameOK(top) /\ ~Written(top.id)
  BY <1>1, Innermost DEF FrameOK
<1>4. /\ g \in Frame /\ g.id = top.id /\ g.at = "notice" /\ g.result = outcome
  BY <1>3 DEF Frame, Labels
<1>5. debugPrint(purpose, status, with(g))
  BY <1>2
<1> HIDE DEF g
<1>6. FrameOK(g)
  BY <1>3, <1>4 DEF FrameOK
<1>7. /\ with(g) \in Seq(Frame) /\ Nested(with(g))
      /\ entries(with(g)) = {stack[n] : n \in DOMAIN stack \ {Len(stack)}} \cup {g}
  BY <1>1, <1>4, Replaced
<1>8. \A f \in entries(with(g)) : FrameOK(f) /\ f.at = "notice"
  BY <1>1, <1>4, <1>6, <1>7, Innermost
<1> QED
  BY <1>1, <1>5, <1>7, <1>8, Called

(* A call ends: what its frame says becomes what is known of the call.      *)
LEMMA ReturnStep == ASSUME SerialInv, Return PROVE SerialInv'
<1>1. /\ stack # << >> /\ top.at = "return"
      /\ UNCHANGED <<buffer, serial, console>>
      /\ calls' = [calls EXCEPT ![top.id].result = top.result]
      /\ stack' = SubSeq(stack, 1, Len(stack) - 1)
  BY DEF Return, at
<1>2. /\ top \in Frame /\ FrameOK(top) /\ top.id \in DOMAIN calls /\ calls[top.id] \in Call
      /\ stack \in Seq(Frame) /\ Len(stack) \in DOMAIN stack
      /\ \A n \in DOMAIN stack \ {Len(stack)} :
           FrameOK(stack[n]) /\ stack[n].id # top.id /\ stack[n].at = "notice"
  BY <1>1, Innermost
<1>3. PICK id \in Nat : id = top.id
  BY <1>2 DEF Frame
<1>4. calls \in Seq(Call) /\ top.result \in Statuses \cup {"success"}
  BY <1>2 DEF SerialInv, SerialTypeOK, Frame
<1>5. /\ calls' \in Seq(Call) /\ Len(calls') = Len(calls) /\ DOMAIN calls' = DOMAIN calls
      /\ \A n \in DOMAIN calls : n # id => calls'[n] = calls[n]
      /\ calls'[id].result = top.result
      /\ \A n \in DOMAIN calls :
           calls'[n].kind = calls[n].kind /\ calls'[n].status = calls[n].status
  <2> DEFINE c == [calls[id] EXCEPT !.result = top.result]
  <2>1. /\ c \in Call /\ c.result = top.result
        /\ c.kind = calls[id].kind /\ c.status = calls[id].status
    BY <1>2, <1>3, <1>4 DEF Call
  <2>2. calls' = [calls EXCEPT ![id] = c]
    BY <1>1, <1>3
  <2> HIDE DEF c
  <2> QED
    BY <1>2, <1>3, <1>4, <2>1, <2>2
<1>6. /\ stack' \in Seq(Frame) /\ Len(stack') = Len(stack) - 1
      /\ \A n \in DOMAIN stack' : n \in DOMAIN stack \ {Len(stack)} /\ stack'[n] = stack[n]
  <2>1. PICK l \in Nat : l = Len(stack) - 1 /\ DOMAIN stack = 1..(l + 1)
    BY <1>2
  <2>2. /\ SubSeq(stack, 1, l) \in Seq(Frame) /\ Len(SubSeq(stack, 1, l)) = l
        /\ \A n \in 1..l : SubSeq(stack, 1, l)[n] = stack[n]
    BY <1>2, <2>1, SubSeqProperties
  <2>3. stack' = SubSeq(stack, 1, l) /\ Len(stack) = l + 1
    BY <1>1, <1>2, <2>1
  <2>4. DOMAIN stack' = 1..l
    BY <2>2, <2>3
  <2> QED
    BY <2>1, <2>2, <2>3, <2>4
<1>7. \A x \in DOMAIN calls : \A outcome : Accounted(x, outcome) => Accounted(x, outcome)'
  BY <1>1, <1>5 DEF Accounted, Whole, Failure, Written, entries
<1>8. SerialTypeOK'
  BY <1>1, <1>5, <1>6 DEF SerialInv, SerialTypeOK
<1>9. StackOK'
  <2>1. ASSUME NEW f, FrameOK(f), f.id # id, f.at = "notice" PROVE FrameOK(f)'
    <3>1. f.id \in DOMAIN calls' /\ calls'[f.id] = calls[f.id]
      BY <1>5, <2>1 DEF FrameOK
    <3> QED
      BY <1>1, <2>1, <3>1 DEF FrameOK, Written
  <2>2. \A f \in entries(stack)' : FrameOK(f)'
    BY <1>2, <1>3, <1>6, <2>1 DEF entries
  <2>3. Nested(stack)'
    BY <1>2, <1>6 DEF SerialInv, StackOK, Nested
  <2> QED
    BY <2>2, <2>3 DEF StackOK
<1>10. LogsOK'
  <2>1. ASSUME NEW x \in DOMAIN calls PROVE CallOK(x)'
    <3>1. CASE x = id
      <4>1. Accounted(id, top.result)
        BY <1>1, <1>2, <1>3 DEF FrameOK
      <4>2. PICK outcome : outcome = top.result
        OBVIOUS
      <4>3. Accounted(id, outcome)'
        BY <1>2, <1>3, <1>7, <4>1, <4>2
      <4> QED
        BY <1>5, <3>1, <4>2, <4>3 DEF CallOK
    <3>2. CASE x # id
      BY <1>5, <1>7, <3>2 DEF SerialInv, LogsOK, CallOK
    <3> QED
      BY <3>1, <3>2
  <2> QED
    BY <1>1, <1>5, <2>1 DEF SerialInv, LogsOK
<1> QED
  BY <1>8, <1>9, <1>10 DEF SerialInv

-----------------------------------------------------------------------------
LEMMA SerialSteps == SerialInv /\ [SerialNext]_serialVars => SerialInv'
<1> SUFFICES ASSUME SerialInv, [SerialNext]_serialVars PROVE SerialInv'
  OBVIOUS
<1>1. CASE UNCHANGED serialVars
  BY <1>1, Unchanged DEF serialVars
<1>2. CASE DebugPrint
  BY <1>2, FormatStep, WriteStep, FailingStep, NoticeStep, ReturnStep DEF DebugPrint
<1> QED
  BY <1>1, <1>2, MainStep DEF SerialNext

(* What is known of the calls under way and of those that have ended holds  *)
(* in every reachable state, whatever fails and however often.              *)
THEOREM SerialInvariant == SerialSpec => []SerialInv
  BY SerialStarts, SerialSteps, PTL DEF SerialSpec

(* No message of the boot loader vanishes, none shows another's status, and *)
(* the device has them in the order of the calls.                           *)
THEOREM NoMessageVanishes == SerialSpec => []MessagesAccountedFor
<1>1. SerialInv => MessagesAccountedFor
  <2> SUFFICES ASSUME SerialInv PROVE MessagesAccountedFor
    OBVIOUS
  <2>1. ASSUME NEW id \in DOMAIN calls, calls[id].result = "success"
        PROVE  Whole(id) \in entries(serial) \cup entries(console)
    BY <2>1 DEF SerialInv, LogsOK, CallOK, Accounted
  <2>2. ASSUME NEW id \in DOMAIN calls, calls[id].result \in Statuses
        PROVE  /\ Failure(id, calls[id].result) \in entries(console)
               /\ Whole(id) \notin entries(serial)
    <3>1. Failure(id, calls[id].result) \in entries(console) /\ ~Written(id)
      BY <2>2 DEF SerialInv, LogsOK, CallOK, Accounted
    <3>2. Whole(id).by = id
      BY DEF Whole
    <3> QED
      BY <3>1, <3>2 DEF Written, entries
  <2> QED
    BY <2>1, <2>2 DEF SerialInv, LogsOK, MessagesAccountedFor, Whole, Failure
<1> QED
  BY <1>1, SerialInvariant, PTL

-----------------------------------------------------------------------------
USE BitmapAssumption

-----------------------------------------------------------------------------
(* Memory keeps its bytes, and a call returns true or false. *)
MemoryOK ==
  /\ memory \in [Addresses -> Byte]
  /\ result \in BOOLEAN

LEMMA Division ==
  ASSUME NEW n \in Nat
  PROVE  /\ n \div 8 \in Nat
         /\ n % 8 \in 0..7
         /\ n = 8 * (n \div 8) + (n % 8)
  OBVIOUS

(* No two indexes share a bit. *)
LEMMA BitsAreDistinct ==
  ASSUME NEW m \in Nat, NEW n \in Nat, bit(m) = bit(n)
  PROVE  m = n
<1>1. m \div 8 = n \div 8 /\ m % 8 = n % 8
  BY Division DEF bit
<1>2. QED
  BY <1>1, Division

(* The bits of the bitmap, the one too many included, lie in memory. *)
LEMMA BitsInMemory ==
  ASSUME NEW n \in Held
  PROVE  /\ byteIndex(n) \in Addresses
         /\ bitIndexer(n) \in 0..7
         /\ bit(n) = <<byteIndex(n), bitIndexer(n)>>
<1>1. n \in Nat /\ n <= Size * 8
  BY DEF Held
<1>2. n \div 8 <= Size
  BY <1>1, Division
<1>3. QED
  BY <1>1, <1>2, Division DEF byteIndex, bitIndexer, bit, Addresses

(* The range check refuses what the set cannot hold. *)
LEMMA RefusedOutsideHeld ==
  ASSUME NEW n \in Nat
  PROVE  refused(n) <=> n \notin Held
  BY DEF refused, Held

(* Both kinds of call keep the bytes bytes. *)
LEMMA MemoryKept == BitmapSpec => []MemoryOK
<1>1. BitmapInit => MemoryOK
  BY DEF BitmapInit, BitmapStart, MemoryOK, initializeBitmap, Byte
<1>2. MemoryOK /\ [BitmapNext]_bitmapVars => MemoryOK'
  <2> SUFFICES ASSUME MemoryOK, [BitmapNext]_bitmapVars
               PROVE  MemoryOK'
    OBVIOUS
  <2>1. ASSUME NEW index \in Indexes, getBitmap(index)
        PROVE  MemoryOK'
    BY <2>1 DEF MemoryOK, getBitmap
  <2>2. ASSUME NEW index \in Indexes, NEW value \in BOOLEAN, setBitmap(index, value)
        PROVE  MemoryOK'
    <3>1. result' \in BOOLEAN
      BY <2>2 DEF setBitmap
    <3>2. CASE refused(index)
      BY <2>2, <3>1, <3>2 DEF MemoryOK, setBitmap
    <3>3. CASE ~refused(index)
      <4>1. index \in Held
        BY <3>3, RefusedOutsideHeld
      <4> DEFINE byte == (memory[byteIndex(index)] \ {bitIndexer(index)})
                           \cup (IF value THEN {bitIndexer(index)} ELSE {})
      <4>2. memory' = [memory EXCEPT ![byteIndex(index)] = byte]
        BY <2>2, <3>3 DEF setBitmap
      <4>3. byte \in Byte
        BY <4>1, BitsInMemory DEF MemoryOK, Byte
      <4>4. QED
        BY <3>1, <4>2, <4>3 DEF MemoryOK
    <3>4. QED
      BY <3>2, <3>3
  <2>3. CASE UNCHANGED bitmapVars
    BY <2>3 DEF MemoryOK, bitmapVars
  <2>4. QED
    BY <2>1, <2>2, <2>3 DEF BitmapNext
<1>3. QED
  BY <1>1, <1>2, PTL DEF BitmapSpec

-----------------------------------------------------------------------------
(* A question is answered with what the set holds. *)
LEMMA GetBitmapIsGet ==
  ASSUME MemoryOK, NEW index \in Indexes, getBitmap(index)
  PROVE  AbstractSet!Get(index)
<1>1. UNCHANGED <<members, others>>
  BY DEF getBitmap, members, others
<1>2. result' = (index \in members)
  <2>1. CASE refused(index)
    BY <2>1, RefusedOutsideHeld DEF getBitmap, members
  <2>2. CASE ~refused(index)
    <3>1. index \in Held
      BY <2>2, RefusedOutsideHeld
    <3>2. bit(index)[1] = byteIndex(index) /\ bit(index)[2] = bitIndexer(index)
      BY DEF bit, byteIndex, bitIndexer
    <3>3. QED
      BY <2>2, <3>1, <3>2 DEF getBitmap, members
  <2>3. QED
    BY <2>1, <2>2
<1>3. QED
  BY <1>1, <1>2 DEF AbstractSet!Get

(* What setBitmap writes, place by place. *)
LEMMA PlacesAfterSet ==
  ASSUME MemoryOK, NEW index \in Held, NEW value \in BOOLEAN, setBitmap(index, value),
         NEW b \in Addresses, NEW p \in 0..7
  PROVE  p \in memory'[b] <=>
           IF <<b, p>> = bit(index) THEN value ELSE p \in memory[b]
<1>1. ~refused(index)
  BY RefusedOutsideHeld DEF Held
<1>2. /\ byteIndex(index) \in Addresses
      /\ bit(index) = <<byteIndex(index), bitIndexer(index)>>
  BY BitsInMemory
<1> DEFINE byte == (memory[byteIndex(index)] \ {bitIndexer(index)})
                     \cup (IF value THEN {bitIndexer(index)} ELSE {})
<1>3. memory' = [memory EXCEPT ![byteIndex(index)] = byte]
  BY <1>1 DEF setBitmap
<1>4. CASE b = byteIndex(index)
  <2>1. memory'[b] = byte
    BY <1>2, <1>3, <1>4 DEF MemoryOK
  <2>2. QED
    BY <1>2, <1>4, <2>1
<1>5. CASE b # byteIndex(index)
  <2>1. memory'[b] = memory[b]
    BY <1>3, <1>5 DEF MemoryOK
  <2>2. QED
    BY <1>2, <1>5, <2>1
<1>6. QED
  BY <1>4, <1>5

(* A call of setBitmap puts one number into the set or takes it out. *)
LEMMA SetBitmapIsPut ==
  ASSUME MemoryOK, NEW index \in Indexes, NEW value \in BOOLEAN, setBitmap(index, value)
  PROVE  AbstractSet!Put(index, value)
<1>1. result' = (index \in Held)
  <2>1. refused(index) <=> index \notin Held
    BY RefusedOutsideHeld
  <2>2. CASE index \in Held
    BY <2>1, <2>2 DEF setBitmap
  <2>3. CASE index \notin Held
    BY <2>1, <2>3 DEF setBitmap
  <2> QED
    BY <2>2, <2>3
<1>2. CASE index \notin Held
  <2>1. memory' = memory
    BY <1>2, RefusedOutsideHeld DEF setBitmap
  <2>2. UNCHANGED <<members, others>>
    BY <2>1 DEF members, others
  <2>3. members' = IF value THEN members \cup ({index} \cap Held) ELSE members \ {index}
    BY <1>2, <2>2 DEF members
  <2>4. QED
    BY <1>1, <2>2, <2>3 DEF AbstractSet!Put
<1>3. CASE index \in Held
  <2>1. ASSUME NEW n \in Held
        PROVE  n \in members' <=> IF n = index THEN value ELSE n \in members
    <3>1. bit(n) = <<byteIndex(n), bitIndexer(n)>> /\ byteIndex(n) \in Addresses
            /\ bitIndexer(n) \in 0..7
      BY BitsInMemory
    <3>2. bit(n) = bit(index) <=> n = index
      BY BitsAreDistinct, <1>3 DEF Held
    <3>3. bitIndexer(n) \in memory'[byteIndex(n)] <=>
            IF n = index THEN value ELSE bitIndexer(n) \in memory[byteIndex(n)]
      BY <1>3, <3>1, <3>2, PlacesAfterSet
    <3>4. n \in members' <=> bitIndexer(n) \in memory'[byteIndex(n)]
      BY <3>1 DEF members
    <3>5. n \in members <=> bitIndexer(n) \in memory[byteIndex(n)]
      BY <3>1 DEF members
    <3>6. QED
      BY <3>3, <3>4, <3>5
  <2>2. members \subseteq Held /\ members' \subseteq Held
    BY DEF members
  <2>3. members' = IF value THEN members \cup ({index} \cap Held) ELSE members \ {index}
    BY <1>3, <2>1, <2>2
  <2>4. ASSUME NEW place \in (Addresses \X (0..7)) \ bits
        PROVE  place[2] \in memory'[place[1]] <=> place[2] \in memory[place[1]]
    <3>1. place # bit(index)
      BY <1>3, <2>4 DEF bits
    <3>2. place = <<place[1], place[2]>> /\ place[1] \in Addresses /\ place[2] \in 0..7
      BY <2>4
    <3>3. QED
      BY <1>3, <3>1, <3>2, PlacesAfterSet
  <2>5. others' = others
    BY <2>4 DEF others
  <2>6. QED
    BY <1>1, <2>3, <2>5 DEF AbstractSet!Put
<1>4. QED
  BY <1>2, <1>3

(* Every call is a call on the set of numbers, whatever lies around the     *)
(* bitmap: what the allocator's model assumes of getBitmap and setBitmap.   *)
THEOREM Implementation == BitmapSpec => ImplementsBitSet
<1>1. BitmapInit => AbstractSet!Init
  BY DEF BitmapInit, BitmapStart, AbstractSet!Init, members
<1>2. MemoryOK /\ [BitmapNext]_bitmapVars => [AbstractSet!Next]_(AbstractSet!vars)
  <2> SUFFICES ASSUME MemoryOK, [BitmapNext]_bitmapVars
               PROVE  [AbstractSet!Next]_(AbstractSet!vars)
    OBVIOUS
  <2>1. ASSUME NEW index \in Indexes, getBitmap(index)
        PROVE  AbstractSet!Next
    BY <2>1, GetBitmapIsGet DEF AbstractSet!Next
  <2>2. ASSUME NEW index \in Indexes, NEW value \in BOOLEAN, setBitmap(index, value)
        PROVE  AbstractSet!Next
    BY <2>2, SetBitmapIsPut DEF AbstractSet!Next
  <2>3. CASE UNCHANGED bitmapVars
    BY <2>3 DEF bitmapVars, AbstractSet!vars, members, others
  <2>4. QED
    BY <2>1, <2>2, <2>3 DEF BitmapNext
<1>3. QED
  BY <1>1, <1>2, MemoryKept, PTL DEF BitmapSpec, ImplementsBitSet, AbstractSet!Spec

HIDE BitmapAssumption

-----------------------------------------------------------------------------
(* The bytes and formats of the device's registers, and what it puts on the *)
(* line.                                                                    *)
Bytes == {"0", "3"} \cup UNION {{rate[1], rate[2]} : rate \in Divisors}
Frames == {"8N1", "7E1"}
Sent == [char : Chars, divisor : Bytes \X Bytes, frame : Frames]

(* The port's variables keep their types. *)
UartTypeOK ==
  /\ present \in BOOLEAN /\ dlab \in BOOLEAN /\ k \in 1..8
  /\ pending \in Seq(Chars) /\ put \in Seq(Chars)
  /\ transmit \in Seq(Chars) /\ line \in Seq(Sent)
  /\ divisor \in Bytes \X Bytes /\ frame \in Frames

(* What the writes before the next one have made of the registers.          *)
Programmed ==
  /\ k \in 3..5 => dlab
  /\ k >= 4 => divisor[1] = "3"
  /\ k >= 5 => divisor[2] = "0"
  /\ k >= 6 => ~dlab /\ frame = "8N1"
  /\ k <= 7 => pending = << >> /\ put = << >>

(* Until the queue is cleared what was left of the firmware's text is in it. *)
FirmwaresText ==
  k <= 6 =>
    \E left \in Left :
      /\ Len(line) + Len(transmit) = Len(left)
      /\ \A n \in 1..Len(line) : line[n].char = left[n]
      /\ \A n \in 1..Len(transmit) : transmit[n] = left[Len(line) + n]

(* From then on all in the queue is the kernel's, and so is all on the line *)
(* behind the first characters.                                             *)
Split(first) ==
  /\ first <= Len(line)
  /\ Len(line) + Len(transmit) = first + Len(put)
  /\ \A n \in (first + 1)..Len(line) :
       /\ line[n].char = put[n - first]
       /\ line[n].divisor = <<"3", "0">> /\ line[n].frame = "8N1"
  /\ \A n \in 1..Len(transmit) : transmit[n] = put[(Len(line) - first) + n]
  /\ \E left \in Left : first <= Len(left) /\ \A n \in 1..first : line[n].char = left[n]

KernelsText == present /\ k >= 7 => \E first \in Nat : Split(first)

(* The inductive invariant. *)
UartInv == UartTypeOK /\ Programmed /\ FirmwaresText /\ KernelsText

(* A port as the firmware leaves it: in its queue is all that is left. *)
LEMMA UartStarts == UartInit => UartInv
<1> SUFFICES ASSUME UartInit PROVE UartInv
  OBVIOUS
<1>1. PICK there \in BOOLEAN, latch \in BOOLEAN, rate \in Divisors,
           format \in {"8N1", "7E1"}, left \in Left :
             UartStart(there, latch, rate, format, left)
  BY DEF UartInit
<1>2. rate \in Bytes \X Bytes
  BY UartAssumption DEF Bytes
<1>3. left \in Seq(Chars)
  BY UartAssumption
<1>4. UartTypeOK
  BY <1>1, <1>2, <1>3 DEF UartStart, UartTypeOK, Frames
<1>5. FirmwaresText
  BY <1>1, <1>3 DEF UartStart, FirmwaresText
<1> QED
  BY <1>1, <1>4, <1>5 DEF UartStart, UartInv, Programmed, KernelsText

(* What uartInitialize writes, and where. *)
LEMMA UartWrites ==
  /\ DOMAIN uartInitializeWrites = 1..7 /\ Len(uartInitializeWrites) = 7
  /\ uartInitializeWrites[1].offset = 1 /\ uartInitializeWrites[1].value = "0"
  /\ uartInitializeWrites[2].offset = 3 /\ uartInitializeWrites[2].value = "DLAB"
  /\ uartInitializeWrites[3].offset = 0 /\ uartInitializeWrites[3].value = "3"
  /\ uartInitializeWrites[4].offset = 1 /\ uartInitializeWrites[4].value = "0"
  /\ uartInitializeWrites[5].offset = 3 /\ uartInitializeWrites[5].value = "8N1"
  /\ uartInitializeWrites[6].offset = 2 /\ uartInitializeWrites[6].value = "clear"
  /\ uartInitializeWrites[7].offset = 4 /\ uartInitializeWrites[7].value = "modem"
  BY DEF uartInitializeWrites, write

(* The registers after a write to one of them.                              *)
LEMMA Register ==
  ASSUME NEW offset \in Nat, NEW val, dlab \in BOOLEAN, present \in BOOLEAN, outb(offset, val)
  PROVE  /\ present' = present /\ line' = line
         /\ dlab' \in BOOLEAN
         /\ offset = 0 /\ dlab => divisor' = [divisor EXCEPT ![1] = val]
         /\ offset = 1 /\ dlab => divisor' = [divisor EXCEPT ![2] = val]
         /\ ~dlab \/ offset > 1 => divisor' = divisor
         /\ offset # 3 => (dlab' <=> dlab) /\ frame' = frame
         /\ offset = 3 /\ val = "DLAB" => dlab' /\ frame' = frame
         /\ offset = 3 /\ val # "DLAB" => ~dlab' /\ frame' = val
         /\ offset = 2 => transmit' = << >>
         /\ offset = 0 /\ ~dlab /\ present => transmit' = enqueue(val)
         /\ offset # 2 /\ (offset # 0 \/ dlab \/ ~present) => transmit' = transmit
<1>1. /\ present' = present /\ line' = line
      /\ divisor' = IF dlab /\ offset \in {0, 1} THEN [divisor EXCEPT ![offset + 1] = val]
                    ELSE divisor
      /\ dlab' = IF offset = 3 THEN val = "DLAB" ELSE dlab
      /\ frame' = IF offset = 3 /\ val # "DLAB" THEN val ELSE frame
      /\ transmit' = IF offset = 2 THEN << >>
                     ELSE IF offset = 0 /\ ~dlab /\ present THEN enqueue(val) ELSE transmit
  BY DEF outb
<1>2. /\ offset = 0 /\ dlab => divisor' = [divisor EXCEPT ![1] = val]
      /\ offset = 1 /\ dlab => divisor' = [divisor EXCEPT ![2] = val]
      /\ ~dlab \/ offset > 1 => divisor' = divisor
  <2>1. CASE offset = 0
    BY <1>1, <2>1
  <2>2. CASE offset = 1
    BY <1>1, <2>2
  <2>3. CASE offset > 1
    BY <1>1, <2>3
  <2> QED
    BY <2>1, <2>2, <2>3
<1>3. /\ dlab' \in BOOLEAN
      /\ offset # 3 => (dlab' <=> dlab)
      /\ offset = 3 /\ val = "DLAB" => dlab'
      /\ offset = 3 /\ val # "DLAB" => ~dlab'
  <2>1. CASE offset = 3
    BY <1>1, <2>1
  <2>2. CASE offset # 3
    BY <1>1, <2>2
  <2> QED
    BY <2>1, <2>2
<1>4. /\ offset # 3 => frame' = frame
      /\ offset = 3 /\ val = "DLAB" => frame' = frame
      /\ offset = 3 /\ val # "DLAB" => frame' = val
  BY <1>1
<1>5. /\ offset = 2 => transmit' = << >>
      /\ offset = 0 /\ ~dlab /\ present => transmit' = enqueue(val)
      /\ offset # 2 /\ (offset # 0 \/ dlab \/ ~present) => transmit' = transmit
  BY <1>1
<1> QED
  BY <1>1, <1>2, <1>3, <1>4, <1>5

(* One write of uartInitialize; the sixth clears the queue, and the text of *)
(* the firmware ends with what is on the line by then.                      *)
LEMMA InitializeStep == ASSUME UartInv, UartInitialize PROVE UartInv'
<1>1. /\ k \in 1..7 /\ k' = k + 1 /\ pending' = pending /\ put' = put
      /\ UartTypeOK /\ Programmed
  BY UartWrites DEF UartInv, UartInitialize
<1>0. PICK offset, val :
        /\ offset = uartInitializeWrites[k].offset
        /\ val = uartInitializeWrites[k].value
        /\ outb(offset, val)
  BY DEF UartInitialize
<1>2. /\ k \in 1..8 /\ k' \in 1..8 /\ pending' \in Seq(Chars) /\ put' \in Seq(Chars)
      /\ divisor \in Bytes \X Bytes /\ frame \in Frames /\ present \in BOOLEAN
      /\ dlab \in BOOLEAN /\ transmit \in Seq(Chars) /\ line \in Seq(Sent)
      /\ pending' = << >> /\ put' = << >>
      /\ "0" \in Bytes /\ "3" \in Bytes
  BY <1>1 DEF UartTypeOK, Programmed, Bytes
<1>3. /\ present' = present /\ line' = line
      /\ divisor' \in Bytes \X Bytes /\ frame' \in Frames /\ dlab' \in BOOLEAN
      /\ k # 6 => transmit' = transmit
      /\ k = 6 => transmit' = << >>
      /\ Programmed'
  <2>1. CASE k = 1
    <3>0. offset = 1 /\ val = "0"
      BY <1>0, <2>1, UartWrites
    <3>1. outb(1, "0")
      BY <1>0, <3>0
    <3>2. /\ present' = present /\ line' = line /\ frame' = frame /\ transmit' = transmit /\ dlab' \in BOOLEAN /\ (dlab' <=> dlab)
          /\ divisor' = [divisor EXCEPT ![2] = "0"] \/ divisor' = divisor
      BY <1>1, <1>2, <3>1, Register
    <3>4. Programmed'
      BY <1>1, <2>1, <3>2 DEF Programmed
    <3> QED
      BY <1>2, <2>1, <3>2, <3>4 DEF Frames
  <2>2. CASE k = 2
    <3>0. offset = 3 /\ val = "DLAB"
      BY <1>0, <2>2, UartWrites
    <3>1. outb(3, "DLAB")
      BY <1>0, <3>0
    <3>2. present' = present /\ line' = line /\ frame' = frame /\ transmit' = transmit /\ divisor' = divisor /\ dlab' /\ dlab' \in BOOLEAN
      BY <1>1, <1>2, <3>1, Register
    <3>4. Programmed'
      BY <1>1, <2>2, <3>2 DEF Programmed
    <3> QED
      BY <1>2, <2>2, <3>2, <3>4 DEF Frames
  <2>3. CASE k = 3
    <3>0. offset = 0 /\ val = "3"
      BY <1>0, <2>3, UartWrites
    <3>1. outb(0, "3")
      BY <1>0, <3>0
    <3>3. dlab
      BY <1>1, <2>3 DEF Programmed
    <3>2. /\ present' = present /\ line' = line /\ frame' = frame /\ transmit' = transmit /\ dlab' \in BOOLEAN /\ (dlab' <=> dlab)
          /\ divisor' = [divisor EXCEPT ![1] = "3"]
      BY <1>1, <1>2, <3>1, Register, <3>3
    <3>4. Programmed'
      BY <1>1, <2>3, <1>2, <3>2, <3>3 DEF Programmed
    <3> QED
      BY <1>2, <2>3, <3>2, <3>4 DEF Frames
  <2>4. CASE k = 4
    <3>0. offset = 1 /\ val = "0"
      BY <1>0, <2>4, UartWrites
    <3>1. outb(1, "0")
      BY <1>0, <3>0
    <3>3. dlab /\ divisor[1] = "3"
      BY <1>1, <2>4 DEF Programmed
    <3>2. /\ present' = present /\ line' = line /\ frame' = frame /\ transmit' = transmit /\ dlab' \in BOOLEAN /\ (dlab' <=> dlab)
          /\ divisor' = [divisor EXCEPT ![2] = "0"]
      BY <1>1, <1>2, <3>1, Register, <3>3
    <3>4. Programmed'
      BY <1>1, <2>4, <1>2, <3>2, <3>3 DEF Programmed
    <3> QED
      BY <1>2, <2>4, <3>2, <3>4 DEF Frames
  <2>5. CASE k = 5
    <3>0. offset = 3 /\ val = "8N1"
      BY <1>0, <2>5, UartWrites
    <3>1. outb(3, "8N1")
      BY <1>0, <3>0
    <3>3. divisor[1] = "3" /\ divisor[2] = "0"
      BY <1>1, <2>5 DEF Programmed
    <3>2. present' = present /\ line' = line /\ transmit' = transmit /\ divisor' = divisor /\ ~dlab' /\ dlab' \in BOOLEAN /\ frame' = "8N1"
      BY <1>1, <1>2, <3>1, Register, <3>3
    <3>4. Programmed'
      BY <1>1, <2>5, <1>2, <3>2, <3>3 DEF Programmed
    <3> QED
      BY <1>2, <2>5, <3>2, <3>4 DEF Frames
  <2>6. CASE k = 6
    <3>0. offset = 2 /\ val = "clear"
      BY <1>0, <2>6, UartWrites
    <3>1. outb(2, "clear")
      BY <1>0, <3>0
    <3>3. ~dlab
      BY <1>1, <2>6 DEF Programmed
    <3>2. present' = present /\ line' = line /\ divisor' = divisor /\ dlab' \in BOOLEAN /\ (dlab' <=> dlab) /\ frame' = frame /\ transmit' = << >>
      BY <1>1, <1>2, <3>1, Register, <3>3
    <3>4. Programmed'
      BY <1>1, <2>6, <1>2, <3>2, <3>3 DEF Programmed
    <3> QED
      BY <1>2, <2>6, <3>2, <3>4 DEF Frames
  <2>7. CASE k = 7
    <3>0. offset = 4 /\ val = "modem"
      BY <1>0, <2>7, UartWrites
    <3>1. outb(4, "modem")
      BY <1>0, <3>0
    <3>3. ~dlab
      BY <1>1, <2>7 DEF Programmed
    <3>2. present' = present /\ line' = line /\ divisor' = divisor /\ dlab' \in BOOLEAN /\ (dlab' <=> dlab) /\ frame' = frame /\ transmit' = transmit
      BY <1>1, <1>2, <3>1, Register, <3>3
    <3>4. Programmed'
      BY <1>1, <2>7, <1>2, <3>2, <3>3 DEF Programmed
    <3> QED
      BY <1>2, <2>7, <3>2, <3>4 DEF Frames
  <2> QED
    BY <1>1, <2>1, <2>2, <2>3, <2>4, <2>5, <2>6, <2>7
<1>4. UartTypeOK'
  BY <1>2, <1>3 DEF UartTypeOK
<1>5. FirmwaresText'
  <2>1. CASE k = 6 \/ k = 7
    BY <1>1, <2>1 DEF FirmwaresText
  <2>2. CASE k < 6
    <3>1. FirmwaresText /\ k <= 6 /\ transmit' = transmit /\ line' = line
      BY <1>1, <1>3, <2>2 DEF UartInv
    <3> QED
      BY <3>1 DEF FirmwaresText
  <2> QED
    BY <1>1, <2>1, <2>2
<1>6. KernelsText'
  <2>1. CASE k = 6
    <3>1. PICK left \in Left :
            /\ Len(line) + Len(transmit) = Len(left)
            /\ \A n \in 1..Len(line) : line[n].char = left[n]
      BY <2>1 DEF UartInv, FirmwaresText
    <3>2. Len(transmit) \in Nat /\ Len(line) \in Nat /\ Len(line) <= Len(left)
      BY <1>2, <3>1
    <3>3. Split(Len(line))'
      BY <1>2, <1>3, <2>1, <3>1, <3>2 DEF Split
    <3> QED
      BY <1>3, <3>2, <3>3 DEF KernelsText
  <2>2. CASE k = 7
    BY <1>1, <1>2, <1>3, <2>2 DEF UartInv, KernelsText, Split, Programmed
  <2> QED
    BY <1>1, <2>1, <2>2 DEF KernelsText
<1> QED
  BY <1>3, <1>4, <1>5, <1>6 DEF UartInv

(* What the calls and the arrivals leave alone is all the invariant is about. *)
LEMMA QuietStep ==
  ASSUME UartInv, UNCHANGED <<k, pending, put, present, dlab, divisor, frame, transmit, line>>
  PROVE  UartInv'
<1>1. k' = k /\ pending' = pending /\ put' = put
  OBVIOUS
<1>2. present' = present /\ dlab' = dlab /\ divisor' = divisor /\ frame' = frame
  OBVIOUS
<1>3. transmit' = transmit /\ line' = line
  OBVIOUS
<1>4. UartTypeOK' /\ Programmed'
  BY <1>1, <1>2, <1>3 DEF UartInv, UartTypeOK, Programmed
<1>5. FirmwaresText'
  BY <1>1, <1>3 DEF UartInv, FirmwaresText
<1>6. KernelsText'
  BY <1>1, <1>2, <1>3 DEF UartInv, KernelsText, Split
<1> QED
  BY <1>4, <1>5, <1>6 DEF UartInv

(* uartPuts is called with a text. *)
LEMMA PutsStep == ASSUME UartInv, UartPuts PROVE UartInv'
<1>1. k = 8 /\ k' = 8
  BY UartWrites DEF UartInv, UartTypeOK, UartPuts, ready
<1>2. pending' \in Seq(Chars)
  BY UartAssumption DEF UartPuts
<1>3. /\ put' = put /\ present' = present /\ dlab' = dlab /\ divisor' = divisor
      /\ frame' = frame /\ transmit' = transmit /\ line' = line
  BY DEF UartPuts, port
<1>4. UartTypeOK'
  BY <1>1, <1>2, <1>3 DEF UartInv, UartTypeOK
<1>5. Programmed' /\ FirmwaresText'
  BY <1>1, <1>3 DEF UartInv, Programmed, FirmwaresText
<1>6. KernelsText'
  BY <1>1, <1>3 DEF UartInv, KernelsText, Split
<1> QED
  BY <1>4, <1>5, <1>6 DEF UartInv

(* uartPutChar waits until the queue is empty, so that the character fits. *)
LEMMA PutCharStep == ASSUME UartInv, UartPutChar PROVE UartInv'
<1>1. /\ k = 8 /\ k' = 8 /\ UartTypeOK /\ Programmed /\ KernelsText
      /\ put' = Append(put, Head(pending)) /\ pending' = Tail(pending)
      /\ outb(0, Head(pending))
  BY UartWrites DEF UartInv, UartTypeOK, UartPutChar, ready
<1>2. /\ ~dlab /\ dlab \in BOOLEAN /\ present \in BOOLEAN
      /\ put \in Seq(Chars) /\ transmit \in Seq(Chars) /\ line \in Seq(Sent)
      /\ divisor \in Bytes \X Bytes /\ frame \in Frames
  BY <1>1 DEF UartTypeOK, Programmed
<1>3. Head(pending) \in Chars /\ pending' \in Seq(Chars)
  BY <1>1 DEF UartTypeOK, UartPutChar
<1>4. put' \in Seq(Chars) /\ Len(put') = Len(put) + 1 /\ put'[Len(put) + 1] = Head(pending)
      /\ \A n \in 1..Len(put) : put'[n] = put[n]
  BY <1>1, <1>2, <1>3, AppendProperties
<1>5. /\ present' = present /\ line' = line /\ frame' = frame /\ divisor' = divisor
      /\ dlab' \in BOOLEAN /\ ~dlab'
      /\ present => transmit' = enqueue(Head(pending))
      /\ ~present => transmit' = transmit
  BY <1>1, <1>2, Register
<1>6. present => transmit = << >> /\ transmit' = <<Head(pending)>>
  BY <1>5, UartAssumption DEF enqueue, UartPutChar, uartIsTransmitBufferEmpty
<1>7. transmit' \in Seq(Chars)
  <2>1. CASE present
    <3>1. \A first \in Chars : <<first>> \in Seq(Chars)
      OBVIOUS
    <3> QED
      BY <1>3, <1>6, <2>1, <3>1
  <2>2. CASE ~present
    BY <1>2, <1>5, <2>2
  <2> QED
    BY <2>1, <2>2
<1>8. UartTypeOK'
  BY <1>1, <1>2, <1>3, <1>4, <1>5, <1>7 DEF UartTypeOK
<1>9. Programmed' /\ FirmwaresText'
  BY <1>1, <1>5 DEF Programmed, FirmwaresText
<1>10. KernelsText'
  <2>1. SUFFICES ASSUME present PROVE \E first \in Nat : Split(first)'
    BY <1>5 DEF KernelsText
  <2>2. PICK first \in Nat : Split(first)
    BY <1>1, <2>1 DEF KernelsText
  <2>3. /\ Len(transmit) = 0 /\ Len(transmit') = 1 /\ transmit'[1] = Head(pending)
        /\ Len(line) \in Nat /\ Len(put) \in Nat
    BY <1>2, <1>6, <2>1
  <2>4. Len(line) = first + Len(put)
    BY <2>2, <2>3 DEF Split
  <2>5. \A n \in (first + 1)..Len(line) : put'[n - first] = put[n - first]
    BY <1>4, <2>3, <2>4
  <2>6. transmit'[1] = put'[(Len(line) - first) + 1]
    BY <1>4, <2>3, <2>4
  <2>7. Split(first)'
    BY <1>4, <1>5, <2>2, <2>3, <2>4, <2>5, <2>6 DEF Split
  <2> QED
    BY <2>7
<1> QED
  BY <1>8, <1>9, <1>10 DEF UartInv

(* The first character of the queue becomes the last one on the line. *)
LEMMA TransmitStep == ASSUME UartInv, Transmit PROVE UartInv'
<1> DEFINE char == Head(transmit)
           item == [char |-> char, divisor |-> divisor, frame |-> frame]
<1>1. /\ UartTypeOK /\ Programmed /\ FirmwaresText /\ KernelsText
      /\ line' = Append(line, item) /\ transmit' = Tail(transmit) /\ transmit # << >>
      /\ k' = k /\ pending' = pending /\ put' = put
      /\ present' = present /\ dlab' = dlab /\ divisor' = divisor /\ frame' = frame
  BY DEF UartInv, Transmit, software
<1>2. /\ put \in Seq(Chars) /\ transmit \in Seq(Chars) /\ line \in Seq(Sent)
      /\ divisor \in Bytes \X Bytes /\ frame \in Frames /\ k \in 1..8
  BY <1>1 DEF UartTypeOK
<1>3. char \in Chars /\ char = transmit[1] /\ item \in Sent
  BY <1>1, <1>2 DEF Sent
<1>4. /\ item.char = transmit[1] /\ item.divisor = divisor /\ item.frame = frame
  BY <1>3
<1> HIDE DEF item, char
<1>5. /\ line' \in Seq(Sent) /\ Len(line') = Len(line) + 1 /\ line'[Len(line) + 1] = item
      /\ \A n \in 1..Len(line) : line'[n] = line[n]
  BY <1>1, <1>2, <1>3, AppendProperties
<1>6. /\ transmit' \in Seq(Chars) /\ Len(transmit') = Len(transmit) - 1 /\ Len(transmit) >= 1
      /\ \A n \in 1..Len(transmit') : transmit'[n] = transmit[n + 1]
      /\ Len(line) \in Nat /\ Len(transmit) \in Nat /\ Len(put) \in Nat
  BY <1>1, <1>2
<1>11. /\ Len(line) \in Nat /\ Len(transmit) \in Nat /\ Len(put) \in Nat /\ put' = put
       /\ Len(line') = Len(line) + 1 /\ Len(transmit') = Len(transmit) - 1
  BY <1>1, <1>5, <1>6
<1>7. UartTypeOK'
  BY <1>1, <1>2, <1>5, <1>6 DEF UartTypeOK
<1>8. Programmed'
  BY <1>1 DEF Programmed
<1>9. FirmwaresText'
  <2>1. SUFFICES ASSUME k <= 6 PROVE FirmwaresText'
    BY <1>1 DEF FirmwaresText
  <2>2. PICK left \in Left :
          /\ Len(line) + Len(transmit) = Len(left)
          /\ \A n \in 1..Len(line) : line[n].char = left[n]
          /\ \A n \in 1..Len(transmit) : transmit[n] = left[Len(line) + n]
    BY <1>1, <2>1 DEF FirmwaresText
  <2>3. Len(line') + Len(transmit') = Len(left)
    BY <1>11, <2>2
  <2>4. \A n \in 1..Len(line') : line'[n].char = left[n]
    <3> SUFFICES ASSUME NEW n \in 1..Len(line') PROVE line'[n].char = left[n]
      OBVIOUS
    <3>1. CASE n = Len(line) + 1
      <4>1. transmit[1] = left[Len(line) + 1]
        BY <1>6, <2>2
      <4> QED
        BY <1>4, <1>5, <3>1, <4>1
    <3>2. CASE n # Len(line) + 1
      <4>1. n \in 1..Len(line)
        BY <1>11, <3>2
      <4> QED
        BY <1>5, <2>2, <4>1
    <3> QED
      BY <3>1, <3>2
  <2>5. \A n \in 1..Len(transmit') : transmit'[n] = left[Len(line') + n]
    BY <1>5, <1>6, <2>2
  <2> QED
    BY <2>3, <2>4, <2>5 DEF FirmwaresText
<1>10. KernelsText'
  <2>1. SUFFICES ASSUME present, k >= 7 PROVE \E first \in Nat : Split(first)'
    BY <1>1 DEF KernelsText
  <2>2. PICK first \in Nat : Split(first)
    BY <1>1, <2>1 DEF KernelsText
  <2>3. /\ first <= Len(line) /\ Len(line) + Len(transmit) = first + Len(put)
    BY <2>2 DEF Split
  <2>4. /\ \A n \in (first + 1)..Len(line) :
             /\ line[n].char = put[n - first]
             /\ line[n].divisor = <<"3", "0">> /\ line[n].frame = "8N1"
        /\ \A n \in 1..Len(transmit) : transmit[n] = put[(Len(line) - first) + n]
    BY <2>2 DEF Split
  <2>5. PICK left \in Left : first <= Len(left) /\ \A n \in 1..first : line[n].char = left[n]
    BY <2>2 DEF Split
  <2>6. divisor[1] = "3" /\ divisor[2] = "0" /\ frame = "8N1"
    BY <1>1, <1>2, <2>1 DEF Programmed
  <2>7. divisor = <<"3", "0">>
    BY <1>2, <2>6
  <2>8. first <= Len(line') /\ Len(line') + Len(transmit') = first + Len(put')
    BY <1>11, <2>3
  <2>9. item.char = put[(Len(line) + 1) - first]
    <3>1. transmit[1] = put[(Len(line) - first) + 1]
      BY <1>6, <2>4
    <3>2. (Len(line) - first) + 1 = (Len(line) + 1) - first
      BY <1>6
    <3> QED
      BY <1>4, <3>1, <3>2
  <2>10. \A n \in (first + 1)..Len(line') :
           /\ line'[n].char = put'[n - first]
           /\ line'[n].divisor = <<"3", "0">> /\ line'[n].frame = "8N1"
    <3> SUFFICES ASSUME NEW n \in (first + 1)..Len(line')
                 PROVE  /\ line'[n].char = put'[n - first]
                        /\ line'[n].divisor = <<"3", "0">> /\ line'[n].frame = "8N1"
      OBVIOUS
    <3>1. CASE n = Len(line) + 1
      BY <1>1, <1>4, <1>5, <2>6, <2>7, <2>9, <3>1
    <3>2. CASE n # Len(line) + 1
      <4>1. n \in (first + 1)..Len(line) /\ n \in 1..Len(line)
        BY <1>5, <1>6, <2>3, <3>2
      <4> QED
        BY <1>1, <1>5, <2>4, <4>1
    <3> QED
      BY <3>1, <3>2
  <2>11. \A n \in 1..Len(transmit') : transmit'[n] = put'[(Len(line') - first) + n]
    <3> SUFFICES ASSUME NEW n \in 1..Len(transmit')
                 PROVE  transmit'[n] = put'[(Len(line') - first) + n]
      OBVIOUS
    <3>1. n + 1 \in 1..Len(transmit) /\ transmit'[n] = transmit[n + 1]
      BY <1>6
    <3>2. transmit[n + 1] = put[(Len(line) - first) + (n + 1)]
      BY <2>4, <3>1
    <3>3. (Len(line) - first) + (n + 1) = (Len(line') - first) + n
      BY <1>5, <1>6
    <3> QED
      BY <1>1, <3>1, <3>2, <3>3
  <2>12. \A n \in 1..first : line'[n].char = left[n]
    BY <1>5, <1>6, <2>3, <2>5
  <2>13. Split(first)'
    BY <2>5, <2>8, <2>10, <2>11, <2>12 DEF Split
  <2> QED
    BY <2>13
<1> QED
  BY <1>7, <1>8, <1>9, <1>10 DEF UartInv

(* The registers, the queue and the line are those of the invariant, before, *)
(* during and after uartInitialize.                                         *)
THEOREM UartInvariant == UartSpec => []UartInv
<1>1. UartInv /\ [UartNext]_uartVars => UartInv'
  <2> SUFFICES ASSUME UartInv, [UartNext]_uartVars PROVE UartInv'
    OBVIOUS
  <2>1. CASE UartInitialize
    BY <2>1, InitializeStep
  <2>2. CASE UartPuts
    BY <2>2, PutsStep
  <2>3. CASE UartPutChar
    BY <2>3, PutCharStep
  <2>4. CASE UartGetChar
    <3>1. UNCHANGED <<k, pending, put, present, dlab, divisor, frame, transmit, line>>
      BY <2>4 DEF UartGetChar
    <3> QED
      BY <3>1, QuietStep
  <2>5. CASE Transmit
    BY <2>5, TransmitStep
  <2>6. CASE Receive
    <3>1. UNCHANGED <<k, pending, put, present, dlab, divisor, frame, transmit, line>>
      BY <2>6 DEF Receive, software
    <3> QED
      BY <3>1, QuietStep
  <2>7. CASE UNCHANGED uartVars
    <3>1. UNCHANGED <<k, pending, put, present, dlab, divisor, frame, transmit, line>>
      BY <2>7 DEF uartVars, software, port
    <3> QED
      BY <3>1, QuietStep
  <2> QED
    BY <2>1, <2>2, <2>3, <2>4, <2>5, <2>6, <2>7 DEF UartNext
<1> QED
  BY UartStarts, <1>1, PTL DEF UartSpec

(* Sequences with the same elements are the same. *)
LEMMA SameSequence ==
  ASSUME NEW S, NEW s \in Seq(S), NEW t \in Seq(S), Len(s) = Len(t),
         \A n \in 1..Len(t) : s[n] = t[n]
  PROVE  s = t
  OBVIOUS

(* What is on the line behind the firmware's characters, and then the      *)
(* queue, are the kernel's characters.                                     *)
LEMMA InvariantArrives == UartInv => TextsArrive
<1> SUFFICES ASSUME UartInv, present, ready PROVE TextsArrive
  BY DEF TextsArrive
<1>1. k = 8 /\ KernelsText
  BY UartWrites DEF UartInv, UartTypeOK, ready
<1>2. PICK first \in Nat : Split(first)
  BY <1>1 DEF KernelsText
<1>3. PICK l \in Seq(Sent), q \in Seq(Chars), p \in Seq(Chars) :
        l = line /\ q = transmit /\ p = put
  BY DEF UartInv, UartTypeOK
<1>4. /\ first <= Len(l) /\ Len(l) + Len(q) = first + Len(p)
      /\ Len(l) \in Nat /\ Len(q) \in Nat /\ Len(p) \in Nat
  BY <1>2, <1>3 DEF Split
<1>5. /\ \A n \in (first + 1)..Len(l) :
           /\ l[n].char = p[n - first]
           /\ l[n].divisor = <<"3", "0">> /\ l[n].frame = "8N1"
      /\ \A n \in 1..Len(q) : q[n] = p[(Len(l) - first) + n]
  BY <1>2, <1>3 DEF Split
<1>6. PICK left \in Left : first <= Len(left) /\ \A n \in 1..first : l[n].char = left[n]
  BY <1>2, <1>3 DEF Split
<1> DEFINE sent == SubSeq(l, first + 1, Len(l))
           mine == SubSeq(l, 1, first)
<1>7. /\ sent \in Seq(Sent) /\ Len(sent) = Len(l) - first
      /\ \A n \in 1..Len(sent) : sent[n] = l[first + n]
  <2>1. \A n \in (first + 1)..Len(l) : l[n] \in Sent
    BY <1>4
  <2>2. /\ SubSeq(l, first + 1, Len(l)) \in Seq(Sent)
        /\ Len(SubSeq(l, first + 1, Len(l)))
             = IF first + 1 <= Len(l) THEN Len(l) - (first + 1) + 1 ELSE 0
        /\ \A n \in 1..(Len(l) - (first + 1) + 1) :
             SubSeq(l, first + 1, Len(l))[n] = l[(first + 1) + n - 1]
    BY <1>4, <2>1, SubSeqProperties
  <2>3. Len(sent) = Len(l) - first
    BY <1>4, <2>2
  <2>4. ASSUME NEW n \in 1..Len(sent) PROVE sent[n] = l[first + n]
    <3>1. n \in 1..(Len(l) - (first + 1) + 1) /\ (first + 1) + n - 1 = first + n
      BY <1>4, <2>3
    <3> QED
      BY <2>2, <3>1
  <2> QED
    BY <2>2, <2>3, <2>4
<1>8. /\ mine \in Seq(Sent) /\ Len(mine) = first
      /\ \A n \in 1..first : mine[n] = l[n]
  <2>1. \A n \in 1..first : l[n] \in Sent
    BY <1>4
  <2>2. /\ SubSeq(l, 1, first) \in Seq(Sent)
        /\ Len(SubSeq(l, 1, first)) = IF 1 <= first THEN first - 1 + 1 ELSE 0
        /\ \A n \in 1..(first - 1 + 1) : SubSeq(l, 1, first)[n] = l[1 + n - 1]
    BY <1>4, <2>1, SubSeqProperties
  <2>3. Len(mine) = first
    BY <1>4, <2>2
  <2>4. ASSUME NEW n \in 1..first PROVE mine[n] = l[n]
    <3>1. n \in 1..(first - 1 + 1) /\ 1 + n - 1 = n
      BY <1>4
    <3> QED
      BY <2>2, <3>1
  <2> QED
    BY <2>2, <2>3, <2>4
<1> HIDE DEF sent, mine
<1>9. ASSUME NEW log \in Seq(Sent)
      PROVE  /\ charsOf(log) \in Seq(Chars) /\ Len(charsOf(log)) = Len(log)
             /\ \A n \in 1..Len(log) : charsOf(log)[n] = log[n].char
  <2>1. DOMAIN log = 1..Len(log) /\ Len(log) \in Nat
    OBVIOUS
  <2>2. \A n \in 1..Len(log) : log[n].char \in Chars
    <3>1. \A item \in Sent : item.char \in Chars
      BY DEF Sent
    <3>2. \A n \in 1..Len(log) : log[n] \in Sent
      OBVIOUS
    <3> QED
      BY <3>1, <3>2
  <2> DEFINE chars == [n \in 1..Len(log) |-> log[n].char]
  <2>3. charsOf(log) = chars
    BY <2>1 DEF charsOf
  <2>4. chars \in [1..Len(log) -> Chars]
    BY <2>2
  <2>5. chars \in Seq(Chars) /\ Len(chars) = Len(log)
    BY <2>1, <2>4
  <2>6. \A n \in 1..Len(log) : chars[n] = log[n].char
    OBVIOUS
  <2> HIDE DEF chars
  <2> QED
    BY <2>3, <2>5, <2>6
<1>10. charsOf(sent) \o q = p
  <2>1. /\ charsOf(sent) \in Seq(Chars) /\ Len(charsOf(sent)) = Len(l) - first
        /\ \A n \in 1..Len(sent) : charsOf(sent)[n] = sent[n].char
    BY <1>7, <1>9
  <2> DEFINE c == charsOf(sent)
  <2> HIDE DEF c
  <2>2. /\ c \in Seq(Chars) /\ Len(c) = Len(l) - first
        /\ \A n \in 1..(Len(l) - first) : c[n] = l[first + n].char
    BY <1>7, <2>1 DEF c
  <2>3. \A n \in 1..(Len(l) - first) : c[n] = p[n]
    <3> SUFFICES ASSUME NEW n \in 1..(Len(l) - first) PROVE c[n] = p[n]
      OBVIOUS
    <3>1. first + n \in (first + 1)..Len(l) /\ (first + n) - first = n
      BY <1>4
    <3> QED
      BY <1>5, <2>2, <3>1
  <2>4. /\ c \o q \in Seq(Chars) /\ Len(c \o q) = Len(c) + Len(q)
        /\ \A n \in 1..(Len(c) + Len(q)) :
             (c \o q)[n] = IF n <= Len(c) THEN c[n] ELSE q[n - Len(c)]
    BY <2>2, ConcatProperties
  <2>5. Len(c) + Len(q) = Len(p) /\ Len(c) \in Nat
    BY <1>4, <2>2
  <2>6. ASSUME NEW n \in 1..Len(p) PROVE (c \o q)[n] = p[n]
    <3>1. CASE n <= Len(c)
      BY <1>4, <2>2, <2>3, <2>4, <2>5, <3>1
    <3>2. CASE n > Len(c)
      <4>1. n - Len(c) \in 1..Len(q) /\ (Len(l) - first) + (n - Len(c)) = n
        BY <1>4, <2>2, <2>5, <3>2
      <4>2. q[n - Len(c)] = p[n]
        BY <1>5, <4>1
      <4> QED
        BY <2>4, <2>5, <3>2, <4>2
    <3> QED
      BY <2>5, <3>1, <3>2
  <2> DEFINE all == c \o q
  <2>7. all \in Seq(Chars) /\ Len(all) = Len(p) /\ \A n \in 1..Len(p) : all[n] = p[n]
    BY <2>4, <2>5, <2>6
  <2> HIDE DEF all
  <2>8. all = p
    BY <2>7, SameSequence
  <2> QED
    BY <2>8 DEF c, all
<1>11. SubSeq(q, 1 + Len(q) - (Len(p) - Len(sent)), Len(q)) = q
  <2>1. 1 + Len(q) - (Len(p) - Len(sent)) = 1
    <3>1. Len(sent) = Len(l) - first
      BY <1>7
    <3> QED
      BY <1>4, <3>1
  <2>2. SubSeq(q, 1, Len(q)) = q
    BY SubSeqFull
  <2> QED
    BY <2>1, <2>2
<1>12. \A n \in DOMAIN sent : sent[n].divisor = <<"3", "0">> /\ sent[n].frame = "8N1"
  <2> SUFFICES ASSUME NEW n \in DOMAIN sent
               PROVE  sent[n].divisor = <<"3", "0">> /\ sent[n].frame = "8N1"
    OBVIOUS
  <2>1. n \in 1..Len(sent)
    BY <1>7
  <2>2. first + n \in (first + 1)..Len(l)
    BY <1>4, <1>7, <2>1
  <2> QED
    BY <1>5, <1>7, <2>1, <2>2
<1>13. IsPrefix(charsOf(mine), left)
  <2> DEFINE c == charsOf(mine)
  <2>1. c \in Seq(Chars) /\ Len(c) = first /\ \A n \in 1..first : c[n] = left[n]
    BY <1>6, <1>8, <1>9
  <2> HIDE DEF c
  <2>2. left \in Seq(Chars) /\ Len(left) \in Nat
    BY UartAssumption
  <2>3. \A n \in 1..first : left[n] \in Chars
    BY <1>6, <2>2
  <2>4. /\ SubSeq(left, 1, first) \in Seq(Chars)
        /\ Len(SubSeq(left, 1, first)) = IF 1 <= first THEN first - 1 + 1 ELSE 0
        /\ \A n \in 1..(first - 1 + 1) : SubSeq(left, 1, first)[n] = left[1 + n - 1]
    BY <2>3, SubSeqProperties
  <2>5. \A n \in 1..first : SubSeq(left, 1, first)[n] = left[n]
    <3> SUFFICES ASSUME NEW n \in 1..first PROVE SubSeq(left, 1, first)[n] = left[n]
      OBVIOUS
    <3>1. n \in 1..(first - 1 + 1) /\ 1 + n - 1 = n
      OBVIOUS
    <3> QED
      BY <2>4, <3>1
  <2>6. Len(SubSeq(left, 1, first)) = first
    BY <2>4
  <2>7. SubSeq(left, 1, first) = c
    BY <2>1, <2>4, <2>5, <2>6
  <2>8. SubSeq(c, 1, Len(c)) = c
    BY <2>1, SubSeqFull
  <2>9. IsPrefix(c, left)
    BY <1>6, <2>1, <2>7, <2>8 DEF IsPrefix
  <2> QED
    BY <2>9 DEF c
<1>14. Len(l) + Len(q) - Len(p) = first
  BY <1>4
<1>15. /\ charsOf(sent) \o SubSeq(q, 1 + Len(q) - (Len(p) - Len(sent)), Len(q)) = p
       /\ \E chars \in Left : IsPrefix(charsOf(mine), chars)
  BY <1>10, <1>11, <1>13
<1>16. /\ sent = SubSeq(line, first + 1, Len(line)) /\ mine = SubSeq(line, 1, first)
       /\ Len(line) + Len(transmit) - Len(put) = first /\ first >= 0
  BY <1>3, <1>14 DEF sent, mine
<1> QED
  BY <1>3, <1>12, <1>15, <1>16, Zenon DEF TextsArrive

(* The other end gets each character that uartPutChar puts, once, in order, *)
(* at the speed and in the format of uartInitialize, behind what the        *)
(* firmware's text had got to.                                              *)
THEOREM KernelsTextsArrive == UartSpec => []TextsArrive
  BY UartInvariant, InvariantArrives, PTL

-----------------------------------------------------------------------------
(* Words, as the sets of their bits. *)
Bits == SUBSET Nat

(* What a shift does, bit by bit. *)
LEMMA ShiftBits ==
  ASSUME NEW S \in Bits, NEW amount \in Nat
  PROVE  /\ shiftLeft(S, amount) = {y \in Nat : y >= amount /\ y - amount \in S}
         /\ shiftRight(S, amount) = {x \in Nat : x + amount \in S}
<1>1. ASSUME NEW y \in Nat, y >= amount, y - amount \in S
      PROVE  y \in shiftLeft(S, amount)
  <2>1. (y - amount) + amount = y
    BY <1>1
  <2> QED
    BY <1>1, <2>1 DEF shiftLeft
<1>2. ASSUME NEW y \in shiftLeft(S, amount)
      PROVE  y \in Nat /\ y >= amount /\ y - amount \in S
  <2>1. PICK b \in S : y = b + amount
    BY DEF shiftLeft
  <2>2. b \in Nat
    BY DEF Bits
  <2> QED
    BY <2>1, <2>2
<1>3. ASSUME NEW x \in Nat, x + amount \in S
      PROVE  x \in shiftRight(S, amount)
  <2>1. x + amount \in {c \in S : c >= amount} /\ (x + amount) - amount = x
    BY <1>3
  <2> QED
    BY <2>1 DEF shiftRight
<1>4. ASSUME NEW x \in shiftRight(S, amount)
      PROVE  x \in Nat /\ x + amount \in S
  <2>1. PICK b \in S : b >= amount /\ x = b - amount
    BY DEF shiftRight
  <2>2. b \in Nat
    BY DEF Bits
  <2>3. x \in Nat /\ x + amount = b
    BY <2>1, <2>2
  <2> QED
    BY <2>3
<1> QED
  BY <1>1, <1>2, <1>3, <1>4

(* What reading and assigning a field does, bit by bit. *)
LEMMA FieldBits ==
  ASSUME NEW w \in Bits, NEW value \in Bits, NEW low \in Nat, NEW width \in Nat
  PROVE  /\ member(w, low, width) = {x \in 0..(width - 1) : x + low \in w}
         /\ assign(w, low, width, value) =
              {y \in Nat : IF y \in low..(low + width - 1) THEN y - low \in value ELSE y \in w}
<1>1. w \cap low..(low + width - 1) \in Bits /\ value \cap 0..(width - 1) \in Bits
  BY DEF Bits
<1>2. member(w, low, width) = {x \in Nat : x + low \in w \cap low..(low + width - 1)}
  BY <1>1, ShiftBits DEF member
<1>3. \A x \in Nat : x + low \in low..(low + width - 1) <=> x \in 0..(width - 1)
  OBVIOUS
<1>4. member(w, low, width) = {x \in 0..(width - 1) : x + low \in w}
  <2>1. 0..(width - 1) \subseteq Nat
    OBVIOUS
  <2> QED
    BY <1>2, <1>3, <2>1
<1>5. shiftLeft(value \cap 0..(width - 1), low)
        = {y \in Nat : y >= low /\ y - low \in value \cap 0..(width - 1)}
  BY <1>1, ShiftBits
<1>6. \A y \in Nat : (y >= low /\ y - low \in value \cap 0..(width - 1))
                       <=> (y \in low..(low + width - 1) /\ y - low \in value)
  OBVIOUS
<1>7. w \subseteq Nat
  BY DEF Bits
<1>8. assign(w, low, width, value)
        = (w \ low..(low + width - 1)) \cup {y \in Nat : y \in low..(low + width - 1) /\ y - low \in value}
  BY <1>5, <1>6 DEF assign
<1> QED
  BY <1>4, <1>7, <1>8

(* The same as facts about one bit. *)
LEMMA FieldBit ==
  ASSUME NEW w \in Bits, NEW value \in Bits, NEW low \in Nat, NEW width \in Nat
  PROVE  /\ assign(w, low, width, value) \in Bits
         /\ member(w, low, width) \in Bits
         /\ \A y \in Nat : y \in assign(w, low, width, value) <=>
              IF low <= y /\ y < low + width THEN y - low \in value ELSE y \in w
         /\ \A x \in Nat : x \in member(w, low, width) <=> x < width /\ x + low \in w
<1>1. assign(w, low, width, value) =
        {y \in Nat : IF y \in low..(low + width - 1) THEN y - low \in value ELSE y \in w}
  BY FieldBits
<1>2. member(w, low, width) = {x \in 0..(width - 1) : x + low \in w}
  BY FieldBits
<1>3. \A y \in Nat : y \in low..(low + width - 1) <=> low <= y /\ y < low + width
  OBVIOUS
<1>4. \A x \in Nat : x \in 0..(width - 1) <=> x < width
  OBVIOUS
<1>5. assign(w, low, width, value) \in Bits /\ member(w, low, width) \in Bits
  <2>1. 0..(width - 1) \subseteq Nat
    OBVIOUS
  <2> QED
    BY <1>1, <1>2, <2>1 DEF Bits
<1> QED
  BY <1>1, <1>2, <1>3, <1>4, <1>5

(* A part of a number, moved down to where it is stored from. *)
LEMMA PartBit ==
  ASSUME NEW number \in Bits, NEW low \in Nat, NEW high \in Nat
  PROVE  /\ shiftRight(number \cap low..high, low) \in Bits
         /\ \A x \in Nat : x \in shiftRight(number \cap low..high, low)
                             <=> x + low <= high /\ x + low \in number
<1>1. number \cap low..high \in Bits
  BY DEF Bits
<1>2. shiftRight(number \cap low..high, low) = {x \in Nat : x + low \in number \cap low..high}
  BY <1>1, ShiftBits
<1>3. \A x \in Nat : x + low \in low..high <=> x + low <= high
  OBVIOUS
<1> QED
  BY <1>2, <1>3 DEF Bits

(* The flags lie at places of their own, outside the address. *)
LEMMA FlagPlaces ==
  /\ \A f \in DOMAIN PTFlag : PTFlag[f] \in 0..63 /\ PTFlag[f] \notin 12..51
  /\ \A f, g \in DOMAIN PTFlag : PTFlag[f] = PTFlag[g] => f = g
  /\ "address" \notin DOMAIN PTFlag /\ "rest" \notin DOMAIN PTFlag
  BY DEF PTFlag

(* The setters of an entry, bit by bit. *)
LEMMA EntryBits ==
  ASSUME NEW w \in SUBSET (0..63)
  PROVE  /\ \A flag \in DOMAIN PTFlag, enabled \in BOOLEAN :
              setPageTableFlag(w, flag, enabled) =
                {y \in 0..63 : IF y = PTFlag[flag] THEN enabled ELSE y \in w}
         /\ \A number \in SUBSET (0..63) :
              setPageTableAddress(w, number) =
                {y \in 0..63 : IF y \in 12..51 THEN y - 12 \in number ELSE y \in w}
         /\ getPageTableAddress(w) = member(w, 12, 40)
<1>1. ASSUME NEW flag \in DOMAIN PTFlag, NEW enabled \in BOOLEAN
      PROVE  setPageTableFlag(w, flag, enabled) =
               {y \in 0..63 : IF y = PTFlag[flag] THEN enabled ELSE y \in w}
  <2>1. PTFlag[flag] \in 0..63
    BY FlagPlaces
  <2>2. CASE enabled = TRUE
    <3>1. setPageTableFlag(w, flag, enabled) = (w \ {PTFlag[flag]}) \cup {PTFlag[flag]}
      BY <2>2 DEF setPageTableFlag
    <3> QED
      BY <2>1, <2>2, <3>1
  <2>3. CASE enabled = FALSE
    <3>1. setPageTableFlag(w, flag, enabled) = w \ {PTFlag[flag]}
      BY <2>3 DEF setPageTableFlag
    <3> QED
      BY <2>1, <2>3, <3>1
  <2> QED
    BY <2>2, <2>3
<1>2. ASSUME NEW number \in SUBSET (0..63)
      PROVE  setPageTableAddress(w, number) =
               {y \in 0..63 : IF y \in 12..51 THEN y - 12 \in number ELSE y \in w}
  <2>1. number \cap 0..39 \in Bits
    BY DEF Bits
  <2>2. shiftLeft(number \cap 0..39, 12) = {y \in Nat : y >= 12 /\ y - 12 \in number \cap 0..39}
    BY <2>1, ShiftBits
  <2>3. \A y \in Nat : (y >= 12 /\ y - 12 \in number \cap 0..39) <=> (y \in 12..51 /\ y - 12 \in number)
    OBVIOUS
  <2>4. \A y \in 0..63 : y \in 0..11 \cup 52..63 <=> y \notin 12..51
    OBVIOUS
  <2>5. w \cap (0..11 \cup 52..63) = {y \in 0..63 : y \notin 12..51 /\ y \in w}
    BY <2>4
  <2>6. 12..51 \subseteq 0..63 /\ 0..63 \subseteq Nat
    OBVIOUS
  <2> QED
    BY <2>2, <2>3, <2>5, <2>6 DEF setPageTableAddress
<1>3. getPageTableAddress(w) = member(w, 12, 40)
  <2>1. 12 + 40 - 1 = 51
    OBVIOUS
  <2> QED
    BY <2>1 DEF getPageTableAddress, member, PAGE_MASK
<1> QED
  BY <1>1, <1>2, <1>3

-----------------------------------------------------------------------------
(* A flag is a field of one bit. *)
LEMMA OneBit ==
  ASSUME NEW w \in Bits, NEW place \in Nat
  PROVE  member(w, place, 1) = IF place \in w THEN {0} ELSE {}
<1>1. member(w, place, 1) = {x \in 0..0 : x + place \in w}
  <2>1. 1 - 1 = 0 /\ 1 \in Nat
    OBVIOUS
  <2> QED
    BY <2>1, FieldBits
<1> QED
  BY <1>1

-----------------------------------------------------------------------------
(* The handler of a gate, and the base of a segment, by the bits of the *)
(* word.                                                                *)
handlerOf(w) == {b \in 0..63 : (IF b < 16 THEN b ELSE b + 32) \in w}
baseOf(w) == {b \in 0..63 : (IF b < 24 THEN b + 16 ELSE b + 32) \in w}

(* A gate's setter, bit by bit: the handler goes to three places.           *)
LEMMA GateBits ==
  ASSUME NEW w \in Bits, NEW handler \in SUBSET (0..63), NEW type \in SUBSET (0..7),
         NEW selector \in SUBSET (0..15)
  PROVE  /\ setIRQ(w, handler, type, selector) \in Bits
         /\ \A y \in Nat :
              y \in setIRQ(w, handler, type, selector) <=>
                IF y < 16 THEN y \in handler
                ELSE IF y < 32 THEN y - 16 \in selector
                ELSE IF 40 <= y /\ y < 48 THEN y - 40 \in type
                ELSE IF 48 <= y /\ y < 96 THEN y - 32 \in handler
                ELSE y \in w
<1> DEFINE first  == handler \cap 0..15
           low    == assign(w, 0, 16, first)
           second == shiftRight(handler \cap 16..31, 16)
           middle == assign(low, 48, 16, second)
           third  == shiftRight(handler \cap 32..63, 32)
           high   == assign(middle, 64, 32, third)
           typed  == assign(high, 40, 8, type)
<1>1. /\ first \in Bits /\ handler \in Bits
      /\ \A y \in Nat : y \in first <=> y < 16 /\ y \in handler
      /\ type \in Bits /\ selector \in Bits
  BY DEF Bits
<1>2. /\ second \in Bits
      /\ \A x \in Nat : x \in second <=> x + 16 <= 31 /\ x + 16 \in handler
  BY <1>1, PartBit
<1>3. /\ third \in Bits
      /\ \A x \in Nat : x \in third <=> x + 32 <= 63 /\ x + 32 \in handler
  BY <1>1, PartBit
<1> HIDE DEF first, second, third
<1>4. /\ low \in Bits
      /\ \A y \in Nat : y \in low <=> IF y < 16 THEN y \in handler ELSE y \in w
  <2>1. PICK zero \in Nat : zero = 0
    OBVIOUS
  <2>2. /\ assign(w, zero, 16, first) \in Bits
        /\ \A y \in Nat : y \in assign(w, zero, 16, first) <=>
             IF zero <= y /\ y < zero + 16 THEN y - zero \in first ELSE y \in w
    BY <1>1, FieldBit
  <2> QED
    BY <1>1, <2>1, <2>2
<1> HIDE DEF low
<1>5. /\ middle \in Bits
      /\ \A y \in Nat : y \in middle <=>
           IF 48 <= y /\ y < 48 + 16 THEN y - 48 \in second ELSE y \in low
  BY <1>2, <1>4, FieldBit
<1> HIDE DEF middle
<1>6. /\ high \in Bits
      /\ \A y \in Nat : y \in high <=>
           IF 64 <= y /\ y < 64 + 32 THEN y - 64 \in third ELSE y \in middle
  BY <1>3, <1>5, FieldBit
<1> HIDE DEF high
<1>7. /\ typed \in Bits
      /\ \A y \in Nat : y \in typed <=>
           IF 40 <= y /\ y < 40 + 8 THEN y - 40 \in type ELSE y \in high
  BY <1>1, <1>6, FieldBit
<1>8. setIRQ(w, handler, type, selector) = assign(typed, 16, 16, selector)
  BY DEF setIRQ, setIDTOffset, typed, high, middle, low, first, second, third
<1> HIDE DEF typed
<1>9. /\ assign(typed, 16, 16, selector) \in Bits
      /\ \A y \in Nat : y \in assign(typed, 16, 16, selector) <=>
           IF 16 <= y /\ y < 16 + 16 THEN y - 16 \in selector ELSE y \in typed
  BY <1>1, <1>7, FieldBit
<1>10. \A y \in Nat : y \in middle <=>
         IF 48 <= y /\ y < 64 THEN y - 32 \in handler ELSE y \in low
  <2> SUFFICES ASSUME NEW y \in Nat, 48 <= y, y < 64
               PROVE  y - 48 \in second <=> y - 32 \in handler
    BY <1>5
  <2>1. y - 48 \in Nat /\ (y - 48) + 16 = y - 32 /\ y - 32 <= 31
    OBVIOUS
  <2> QED
    BY <1>2, <2>1
<1>11. \A y \in Nat : y \in high <=>
         IF 64 <= y /\ y < 96 THEN y - 32 \in handler ELSE y \in middle
  <2> SUFFICES ASSUME NEW y \in Nat, 64 <= y, y < 96
               PROVE  y - 64 \in third <=> y - 32 \in handler
    BY <1>6
  <2>1. y - 64 \in Nat /\ (y - 64) + 32 = y - 32 /\ y - 32 <= 63
    OBVIOUS
  <2> QED
    BY <1>3, <2>1
<1>12. \A y \in Nat : y \in typed <=> IF 40 <= y /\ y < 48 THEN y - 40 \in type ELSE y \in high
  BY <1>7
<1>13. \A y \in Nat : y \in assign(typed, 16, 16, selector) <=>
         IF 16 <= y /\ y < 32 THEN y - 16 \in selector ELSE y \in typed
  BY <1>9
<1>14. \A y \in Nat :
         y \in typed <=>
           IF y < 16 THEN y \in handler
           ELSE IF 40 <= y /\ y < 48 THEN y - 40 \in type
           ELSE IF 48 <= y /\ y < 96 THEN y - 32 \in handler
           ELSE y \in w
  BY <1>4, <1>10, <1>11, <1>12
<1> QED
  BY <1>8, <1>9, <1>13, <1>14

(* What the processor and getIDTOffset find in a gate.                      *)
LEMMA GateFields ==
  ASSUME NEW w \in SUBSET (0..127), NEW handler \in SUBSET (0..63), NEW type \in SUBSET (0..7)
  PROVE  LET new == setIRQ(w, handler, type, KernelCode)
         IN  /\ new \in SUBSET (0..127)
             /\ handlerOf(new) = handler
             /\ member(new, 40, 8) = type
             /\ member(new, 16, 16) = KernelCode
             /\ member(new, 32, 8) = member(w, 32, 8)
<1> DEFINE new == setIRQ(w, handler, type, KernelCode)
<1>1. w \in Bits /\ KernelCode \in SUBSET (0..15)
  BY DEF Bits, KernelCode
<1>2. /\ new \in Bits
      /\ \A y \in Nat :
           y \in new <=>
             IF y < 16 THEN y \in handler
             ELSE IF y < 32 THEN y - 16 \in KernelCode
             ELSE IF 40 <= y /\ y < 48 THEN y - 40 \in type
             ELSE IF 48 <= y /\ y < 96 THEN y - 32 \in handler
             ELSE y \in w
  BY <1>1, GateBits
<1> HIDE DEF new
<1>3. new \in SUBSET (0..127)
  <2>1. \A y \in new : y \in Nat
    BY <1>2 DEF Bits
  <2>2. \A y \in w : y \in 0..127
    OBVIOUS
  <2>3. \A y \in new : y < 128
    BY <1>2, <2>1, <2>2
  <2> QED
    BY <2>1, <2>3
<1>4. handlerOf(new) = handler
  <2>1. \A b \in 0..63 : (IF b < 16 THEN b ELSE b + 32) \in new <=> b \in handler
    <3> SUFFICES ASSUME NEW b \in 0..63
                 PROVE  (IF b < 16 THEN b ELSE b + 32) \in new <=> b \in handler
      OBVIOUS
    <3>1. b + 32 \in Nat /\ (b + 32) - 32 = b /\ b \in Nat
      OBVIOUS
    <3>2. CASE b < 16
      BY <1>2, <3>1, <3>2
    <3>3. CASE ~(b < 16)
      <4>1. 48 <= b + 32 /\ b + 32 < 96
        BY <3>3
      <4> QED
        BY <1>2, <3>1, <3>3, <4>1
    <3> QED
      BY <3>2, <3>3
  <2> QED
    BY <2>1 DEF handlerOf
<1>5. member(new, 40, 8) = type
  <2>1. member(new, 40, 8) \in Bits /\ \A x \in Nat : x \in member(new, 40, 8) <=> x < 8 /\ x + 40 \in new
    BY <1>2, FieldBit
  <2>2. \A x \in Nat : x < 8 => (x + 40 \in new <=> x \in type)
    <3> SUFFICES ASSUME NEW x \in Nat, x < 8
                 PROVE  x + 40 \in new <=> x \in type
      OBVIOUS
    <3>1. x + 40 \in Nat /\ 40 <= x + 40 /\ x + 40 < 48 /\ (x + 40) - 40 = x
      OBVIOUS
    <3> QED
      BY <1>2, <3>1
  <2>3. \A x \in type : x \in Nat /\ x < 8
    OBVIOUS
  <2> QED
    BY <2>1, <2>2, <2>3 DEF Bits
<1>6. member(new, 16, 16) = KernelCode
  <2>1. /\ member(new, 16, 16) \in Bits
        /\ \A x \in Nat : x \in member(new, 16, 16) <=> x < 16 /\ x + 16 \in new
    BY <1>2, FieldBit
  <2>2. \A x \in Nat : x < 16 => (x + 16 \in new <=> x \in KernelCode)
    <3> SUFFICES ASSUME NEW x \in Nat, x < 16
                 PROVE  x + 16 \in new <=> x \in KernelCode
      OBVIOUS
    <3>1. x + 16 \in Nat /\ 16 <= x + 16 /\ x + 16 < 32 /\ (x + 16) - 16 = x
      OBVIOUS
    <3> QED
      BY <1>2, <3>1
  <2>3. \A x \in KernelCode : x \in Nat /\ x < 16
    BY <1>1
  <2> QED
    BY <2>1, <2>2, <2>3 DEF Bits
<1>7. member(new, 32, 8) = member(w, 32, 8)
  <2>1. /\ member(new, 32, 8) \in Bits
        /\ \A x \in Nat : x \in member(new, 32, 8) <=> x < 8 /\ x + 32 \in new
    BY <1>2, FieldBit
  <2>2. /\ member(w, 32, 8) \in Bits
        /\ \A x \in Nat : x \in member(w, 32, 8) <=> x < 8 /\ x + 32 \in w
    BY <1>1, FieldBit
  <2>3. \A x \in Nat : x < 8 => (x + 32 \in new <=> x + 32 \in w)
    <3> SUFFICES ASSUME NEW x \in Nat, x < 8
                 PROVE  x + 32 \in new <=> x + 32 \in w
      OBVIOUS
    <3>1. x + 32 \in Nat /\ 32 <= x + 32 /\ x + 32 < 40
      OBVIOUS
    <3> QED
      BY <1>2, <3>1
  <2> QED
    BY <2>1, <2>2, <2>3 DEF Bits
<1> QED
  BY <1>3, <1>4, <1>5, <1>6, <1>7 DEF new

(* getIDTOffset puts the three parts of the handler together again. *)
LEMMA OffsetRead ==
  ASSUME NEW w \in SUBSET (0..127)
  PROVE  getIDTOffset(w) = handlerOf(w)
<1> DEFINE low    == member(w, 0, 16)
           middle == member(w, 48, 16)
           high   == member(w, 64, 32)
<1>1. w \in Bits
  BY DEF Bits
<1>2. low \in Bits /\ \A x \in Nat : x \in low <=> x < 16 /\ x + 0 \in w
  BY <1>1, FieldBit
<1>3. middle \in Bits /\ \A x \in Nat : x \in middle <=> x < 16 /\ x + 48 \in w
  BY <1>1, FieldBit
<1>4. high \in Bits /\ \A x \in Nat : x \in high <=> x < 32 /\ x + 64 \in w
  BY <1>1, FieldBit
<1>5. getIDTOffset(w) = low \cup shiftLeft(middle, 16) \cup shiftLeft(high, 32)
  BY DEF getIDTOffset
<1> HIDE DEF low, middle, high
<1>6. /\ shiftLeft(middle, 16) = {y \in Nat : y >= 16 /\ y - 16 \in middle}
      /\ shiftLeft(high, 32) = {y \in Nat : y >= 32 /\ y - 32 \in high}
  BY <1>3, <1>4, ShiftBits
<1>7. \A y \in Nat : (y >= 16 /\ y - 16 \in middle) <=> (16 <= y /\ y < 32 /\ y + 32 \in w)
  <2> SUFFICES ASSUME NEW y \in Nat, y >= 16
               PROVE  y - 16 \in middle <=> (y < 32 /\ y + 32 \in w)
    OBVIOUS
  <2>1. (y - 16) + 48 = y + 32 /\ y - 16 \in Nat /\ (y - 16 < 16 <=> y < 32)
    OBVIOUS
  <2> QED
    BY <1>3, <2>1
<1>8. \A y \in Nat : (y >= 32 /\ y - 32 \in high) <=> (32 <= y /\ y < 64 /\ y + 32 \in w)
  <2> SUFFICES ASSUME NEW y \in Nat, y >= 32
               PROVE  y - 32 \in high <=> (y < 64 /\ y + 32 \in w)
    OBVIOUS
  <2>1. (y - 32) + 64 = y + 32 /\ y - 32 \in Nat /\ (y - 32 < 32 <=> y < 64)
    OBVIOUS
  <2> QED
    BY <1>4, <2>1
<1>9. \A y \in Nat : y \in low <=> y < 16 /\ y \in w
  BY <1>2
<1>10. getIDTOffset(w) \subseteq Nat
  BY <1>2, <1>5, <1>6 DEF Bits
<1>11. \A y \in Nat : y \in getIDTOffset(w) <=>
         \/ y < 16 /\ y \in w
         \/ 16 <= y /\ y < 32 /\ y + 32 \in w
         \/ 32 <= y /\ y < 64 /\ y + 32 \in w
  BY <1>5, <1>6, <1>7, <1>8, <1>9
<1>12. \A y \in Nat : y \in getIDTOffset(w) <=>
         y \in 0..63 /\ (IF y < 16 THEN y ELSE y + 32) \in w
  BY <1>11
<1> QED
  BY <1>10, <1>12 DEF handlerOf

(* The descriptor of the task state segment, bit by bit.                    *)
LEMMA SegmentBits ==
  ASSUME NEW w \in Bits, NEW base \in SUBSET (0..63)
  PROVE  /\ initializeGDT(w, base) \in Bits
         /\ \A y \in Nat :
              y \in initializeGDT(w, base) <=>
                IF y < 16 THEN y \in TssSize
                ELSE IF y < 40 THEN y - 16 \in base
                ELSE IF y < 48 THEN y \in {40, 43, 47}
                ELSE IF y < 52 \/ y = 55 THEN FALSE
                ELSE IF 56 <= y /\ y < 96 THEN y - 32 \in base
                ELSE y \in w
<1> DEFINE d1 == assign(w, 0, 16, TssSize)
           d2 == assign(d1, 48, 4, {})
           d3 == assign(d2, 40, 5, {0, 3})
           d4 == assign(d3, 45, 2, {})
           d5 == assign(d4, 47, 1, {0})
           d6 == assign(d5, 55, 1, {})
           d7 == assign(d6, 16, 24, base)
           upper == shiftRight(base, 24)
<1>1. /\ TssSize \in Bits /\ base \in Bits /\ {} \in Bits /\ {0, 3} \in Bits /\ {0} \in Bits
      /\ \A y \in TssSize : y < 16
  BY DescriptorsAssumption DEF Bits
<1>2. upper \in Bits /\ \A x \in Nat : x \in upper <=> x + 24 \in base
  <2>1. upper = {x \in Nat : x + 24 \in base}
    BY <1>1, ShiftBits
  <2> QED
    BY <2>1 DEF Bits
<1> HIDE DEF upper
<1>3. d1 \in Bits /\ \A y \in Nat : y \in d1 <=> IF y < 16 THEN y \in TssSize ELSE y \in w
  <2>1. PICK zero \in Nat : zero = 0
    OBVIOUS
  <2>2. /\ assign(w, zero, 16, TssSize) \in Bits
        /\ \A y \in Nat : y \in assign(w, zero, 16, TssSize) <=>
             IF zero <= y /\ y < zero + 16 THEN y - zero \in TssSize ELSE y \in w
    BY <1>1, FieldBit
  <2> QED
    BY <1>1, <2>1, <2>2
<1> HIDE DEF d1
<1>4. d2 \in Bits /\ \A y \in Nat : y \in d2 <=> IF 48 <= y /\ y < 52 THEN FALSE ELSE y \in d1
  <2>1. PICK part \in Bits : part = {}
    BY <1>1
  <2>2. /\ assign(d1, 48, 4, part) \in Bits
        /\ \A y \in Nat : y \in assign(d1, 48, 4, part) <=>
             IF 48 <= y /\ y < 48 + 4 THEN y - 48 \in part ELSE y \in d1
    BY <1>3, FieldBit
  <2> QED
    BY <2>1, <2>2
<1> HIDE DEF d2
<1>5. d3 \in Bits /\ \A y \in Nat : y \in d3 <=> IF 40 <= y /\ y < 45 THEN y \in {40, 43} ELSE y \in d2
  <2>1. PICK part \in Bits : part = {0, 3}
    BY <1>1
  <2>2. /\ assign(d2, 40, 5, part) \in Bits
        /\ \A y \in Nat : y \in assign(d2, 40, 5, part) <=>
             IF 40 <= y /\ y < 40 + 5 THEN y - 40 \in part ELSE y \in d2
    BY <1>4, FieldBit
  <2> QED
    BY <2>1, <2>2
<1> HIDE DEF d3
<1>6. d4 \in Bits /\ \A y \in Nat : y \in d4 <=> IF 45 <= y /\ y < 47 THEN FALSE ELSE y \in d3
  <2>1. PICK part \in Bits : part = {}
    BY <1>1
  <2>2. /\ assign(d3, 45, 2, part) \in Bits
        /\ \A y \in Nat : y \in assign(d3, 45, 2, part) <=>
             IF 45 <= y /\ y < 45 + 2 THEN y - 45 \in part ELSE y \in d3
    BY <1>5, FieldBit
  <2> QED
    BY <2>1, <2>2
<1> HIDE DEF d4
<1>7. d5 \in Bits /\ \A y \in Nat : y \in d5 <=> IF y = 47 THEN TRUE ELSE y \in d4
  <2>1. PICK part \in Bits : part = {0}
    BY <1>1
  <2>2. /\ assign(d4, 47, 1, part) \in Bits
        /\ \A y \in Nat : y \in assign(d4, 47, 1, part) <=>
             IF 47 <= y /\ y < 47 + 1 THEN y - 47 \in part ELSE y \in d4
    BY <1>6, FieldBit
  <2> QED
    BY <2>1, <2>2
<1> HIDE DEF d5
<1>8. d6 \in Bits /\ \A y \in Nat : y \in d6 <=> IF y = 55 THEN FALSE ELSE y \in d5
  <2>1. PICK part \in Bits : part = {}
    BY <1>1
  <2>2. /\ assign(d5, 55, 1, part) \in Bits
        /\ \A y \in Nat : y \in assign(d5, 55, 1, part) <=>
             IF 55 <= y /\ y < 55 + 1 THEN y - 55 \in part ELSE y \in d5
    BY <1>7, FieldBit
  <2> QED
    BY <2>1, <2>2
<1> HIDE DEF d6
<1>9. /\ d7 \in Bits
      /\ \A y \in Nat : y \in d7 <=> IF 16 <= y /\ y < 16 + 24 THEN y - 16 \in base ELSE y \in d6
  BY <1>1, <1>8, FieldBit
<1>10. initializeGDT(w, base) = assign(d7, 56, 40, upper)
  BY DEF initializeGDT, d7, d6, d5, d4, d3, d2, d1, upper
<1> HIDE DEF d7
<1>11. /\ assign(d7, 56, 40, upper) \in Bits
       /\ \A y \in Nat : y \in assign(d7, 56, 40, upper) <=>
            IF 56 <= y /\ y < 56 + 40 THEN y - 56 \in upper ELSE y \in d7
  BY <1>2, <1>9, FieldBit
<1>12. \A y \in Nat : y \in assign(d7, 56, 40, upper) <=>
         IF 56 <= y /\ y < 96 THEN y - 32 \in base ELSE y \in d7
  <2> SUFFICES ASSUME NEW y \in Nat, 56 <= y, y < 96
               PROVE  y - 56 \in upper <=> y - 32 \in base
    BY <1>11
  <2>1. y - 56 \in Nat /\ (y - 56) + 24 = y - 32
    OBVIOUS
  <2> QED
    BY <1>2, <2>1
<1>13. \A y \in Nat :
         y \in d5 <=>
           IF y < 16 THEN y \in TssSize
           ELSE IF 40 <= y /\ y < 48 THEN y \in {40, 43, 47}
           ELSE IF 48 <= y /\ y < 52 THEN FALSE
           ELSE y \in w
  BY <1>3, <1>4, <1>5, <1>6, <1>7
<1>14. \A y \in Nat : y \in d7 <=> IF 16 <= y /\ y < 40 THEN y - 16 \in base
                                   ELSE IF y = 55 THEN FALSE ELSE y \in d5
  BY <1>8, <1>9
<1> QED
  BY <1>10, <1>11, <1>12, <1>13, <1>14

(* What the processor finds in it.                                          *)
LEMMA SegmentFields ==
  ASSUME NEW w \in SUBSET (0..127), NEW base \in SUBSET (0..63)
  PROVE  LET new == initializeGDT(w, base)
         IN  /\ new \in SUBSET (0..127)
             /\ baseOf(new) = base
             /\ member(new, 0, 16) \cup shiftLeft(member(new, 48, 4), 16) = TssSize
             /\ member(new, 40, 8) = {0, 3, 7}
             /\ member(new, 55, 1) = {}
<1> DEFINE new == initializeGDT(w, base)
<1>1. w \in Bits
  BY DEF Bits
<1>2. /\ new \in Bits
      /\ \A y \in Nat :
           y \in new <=>
             IF y < 16 THEN y \in TssSize
             ELSE IF y < 40 THEN y - 16 \in base
             ELSE IF y < 48 THEN y \in {40, 43, 47}
             ELSE IF y < 52 \/ y = 55 THEN FALSE
             ELSE IF 56 <= y /\ y < 96 THEN y - 32 \in base
             ELSE y \in w
  BY <1>1, SegmentBits
<1> HIDE DEF new
<1>3. new \in SUBSET (0..127)
  <2>1. \A y \in new : y \in Nat
    BY <1>2 DEF Bits
  <2>2. \A y \in w : y \in 0..127
    OBVIOUS
  <2>3. \A y \in new : y < 128
    BY <1>2, <2>1, <2>2
  <2> QED
    BY <2>1, <2>3
<1>4. baseOf(new) = base
  <2>1. \A b \in 0..63 : (IF b < 24 THEN b + 16 ELSE b + 32) \in new <=> b \in base
    <3> SUFFICES ASSUME NEW b \in 0..63
                 PROVE  (IF b < 24 THEN b + 16 ELSE b + 32) \in new <=> b \in base
      OBVIOUS
    <3>1. b + 16 \in Nat /\ b + 32 \in Nat /\ (b + 16) - 16 = b /\ (b + 32) - 32 = b
      OBVIOUS
    <3>2. CASE b < 24
      <4>1. 16 <= b + 16 /\ b + 16 < 40
        BY <3>2
      <4> QED
        BY <1>2, <3>1, <3>2, <4>1
    <3>3. CASE ~(b < 24)
      <4>1. 56 <= b + 32 /\ b + 32 < 96
        BY <3>3
      <4> QED
        BY <1>2, <3>1, <3>3, <4>1
    <3> QED
      BY <3>2, <3>3
  <2> QED
    BY <2>1 DEF baseOf
<1>5. member(new, 0, 16) \cup shiftLeft(member(new, 48, 4), 16) = TssSize
  <2>1. PICK zero \in Nat : zero = 0
    OBVIOUS
  <2>2. /\ member(new, zero, 16) \in Bits
        /\ \A x \in Nat : x \in member(new, zero, 16) <=> x < 16 /\ x + zero \in new
    BY <1>2, FieldBit
  <2>3. /\ member(new, 48, 4) \in Bits
        /\ \A x \in Nat : x \in member(new, 48, 4) <=> x < 4 /\ x + 48 \in new
    BY <1>2, FieldBit
  <2>4. \A x \in Nat : x < 4 => x + 48 \notin new
    BY <1>2
  <2>5. member(new, 48, 4) = {}
    BY <2>3, <2>4 DEF Bits
  <2>6. shiftLeft(member(new, 48, 4), 16) = {}
    BY <2>5 DEF shiftLeft
  <2>7. \A x \in TssSize : x \in Nat /\ x < 16
    BY DescriptorsAssumption
  <2>8. \A x \in Nat : x < 16 => (x \in new <=> x \in TssSize)
    BY <1>2
  <2>9. member(new, zero, 16) = TssSize
    BY <2>1, <2>2, <2>7, <2>8 DEF Bits
  <2> QED
    BY <2>1, <2>6, <2>9
<1>6. member(new, 40, 8) = {0, 3, 7}
  <2>1. member(new, 40, 8) \in Bits /\ \A x \in Nat : x \in member(new, 40, 8) <=> x < 8 /\ x + 40 \in new
    BY <1>2, FieldBit
  <2>2. \A x \in Nat : x < 8 => (x + 40 \in new <=> x \in {0, 3, 7})
    <3> SUFFICES ASSUME NEW x \in Nat, x < 8
                 PROVE  x + 40 \in new <=> x \in {0, 3, 7}
      OBVIOUS
    <3>1. x + 40 \in Nat /\ 40 <= x + 40 /\ x + 40 < 48
      OBVIOUS
    <3>2. x + 40 \in new <=> x + 40 \in {40, 43, 47}
      BY <1>2, <3>1
    <3> QED
      BY <3>2
  <2> QED
    BY <2>1, <2>2 DEF Bits
<1>7. member(new, 55, 1) = {}
  <2>1. member(new, 55, 1) = IF 55 \in new THEN {0} ELSE {}
    BY <1>2, OneBit
  <2>2. 55 \notin new
    BY <1>2
  <2> QED
    BY <2>1, <2>2
<1> QED
  BY <1>3, <1>4, <1>5, <1>6, <1>7 DEF new

(* The indexes of an address are what the processor takes from it. *)
LEMMA IndexRead ==
  ASSUME NEW w \in SUBSET (0..63)
  PROVE  getPageTableIndex(w) =
           [P_i |-> member(w, 12, 9), PT_i |-> member(w, 21, 9),
            PD_i |-> member(w, 30, 9), PDP_i |-> member(w, 39, 9)]
<1> DEFINE equation(s) == s = [level \in 0..3 |->
                                 IF level = 0 THEN shiftRight(w, 12) ELSE shiftRight(s[level - 1], 9)]
           shifted == CHOOSE s : equation(s)
           s1 == shiftRight(w, 12)
           s2 == shiftRight(s1, 9)
           s3 == shiftRight(s2, 9)
           s4 == shiftRight(s3, 9)
<1>1. w \in Bits
  BY DEF Bits
<1>2. \E s : equation(s)
  <2> DEFINE t == [level \in 0..3 |-> IF level = 0 THEN s1 ELSE IF level = 1 THEN s2
                                      ELSE IF level = 2 THEN s3 ELSE s4]
  <2>1. t[0] = s1 /\ t[1] = s2 /\ t[2] = s3 /\ t[3] = s4
    OBVIOUS
  <2> HIDE DEF s1, s2, s3, s4
  <2>2. \A level \in 0..3 : t[level] = IF level = 0 THEN s1 ELSE shiftRight(t[level - 1], 9)
    <3>1. s2 = shiftRight(s1, 9) /\ s3 = shiftRight(s2, 9) /\ s4 = shiftRight(s3, 9)
      BY DEF s2, s3, s4
    <3> HIDE DEF t
    <3>2. 1 - 1 = 0 /\ 2 - 1 = 1 /\ 3 - 1 = 2
      OBVIOUS
    <3>3. \A level \in 0..3 : level = 0 \/ level = 1 \/ level = 2 \/ level = 3
      OBVIOUS
    <3> QED
      BY <2>1, <3>1, <3>2, <3>3
  <2>3. equation(t)
    BY <2>2 DEF s1
  <2> QED
    BY <2>3
<1>3. equation(shifted)
  BY <1>2
<1>4. shifted[0] = s1 /\ shifted[1] = s2 /\ shifted[2] = s3 /\ shifted[3] = s4
  <2> HIDE DEF shifted
  <2>1. shifted[0] = s1
    BY <1>3
  <2>2. shifted[1] = shiftRight(shifted[0], 9)
    BY <1>3
  <2>3. shifted[2] = shiftRight(shifted[1], 9)
    BY <1>3
  <2>4. shifted[3] = shiftRight(shifted[2], 9)
    BY <1>3
  <2> QED
    BY <2>1, <2>2, <2>3, <2>4
<1>5. getPageTableIndex(w) = [P_i |-> shifted[0] \cap 0..8, PT_i |-> shifted[1] \cap 0..8,
                              PD_i |-> shifted[2] \cap 0..8, PDP_i |-> shifted[3] \cap 0..8]
  BY DEF getPageTableIndex
<1> HIDE DEF shifted, equation
<1>6. ASSUME NEW S \in Bits, NEW low \in Nat,
             \A x \in Nat : x \in S <=> x + low \in w
      PROVE  S \cap 0..8 = member(w, low, 9)
  <2>1. member(w, low, 9) \in Bits /\ \A x \in Nat : x \in member(w, low, 9) <=> x < 9 /\ x + low \in w
    BY <1>1, FieldBit
  <2> QED
    BY <1>6, <2>1 DEF Bits
<1>7. s1 \in Bits /\ \A x \in Nat : x \in s1 <=> x + 12 \in w
  BY <1>1, ShiftBits DEF Bits
<1> HIDE DEF s1
<1>8. s2 \in Bits /\ \A x \in Nat : x \in s2 <=> x + 21 \in w
  <2>1. s2 \in Bits /\ \A x \in Nat : x \in s2 <=> x + 9 \in s1
    BY <1>7, ShiftBits DEF Bits
  <2>2. \A x \in Nat : x + 9 \in Nat /\ (x + 9) + 12 = x + 21
    OBVIOUS
  <2> QED
    BY <1>7, <2>1, <2>2
<1> HIDE DEF s2
<1>9. s3 \in Bits /\ \A x \in Nat : x \in s3 <=> x + 30 \in w
  <2>1. s3 \in Bits /\ \A x \in Nat : x \in s3 <=> x + 9 \in s2
    BY <1>8, ShiftBits DEF Bits
  <2>2. \A x \in Nat : x + 9 \in Nat /\ (x + 9) + 21 = x + 30
    OBVIOUS
  <2> QED
    BY <1>8, <2>1, <2>2
<1> HIDE DEF s3
<1>10. s4 \in Bits /\ \A x \in Nat : x \in s4 <=> x + 39 \in w
  <2>1. s4 \in Bits /\ \A x \in Nat : x \in s4 <=> x + 9 \in s3
    BY <1>9, ShiftBits DEF Bits
  <2>2. \A x \in Nat : x + 9 \in Nat /\ (x + 9) + 30 = x + 39
    OBVIOUS
  <2> QED
    BY <1>9, <2>1, <2>2
<1> HIDE DEF s4
<1>11. /\ s1 \cap 0..8 = member(w, 12, 9) /\ s2 \cap 0..8 = member(w, 21, 9)
       /\ s3 \cap 0..8 = member(w, 30, 9) /\ s4 \cap 0..8 = member(w, 39, 9)
  BY <1>6, <1>7, <1>8, <1>9, <1>10
<1> QED
  BY <1>4, <1>5, <1>11

-----------------------------------------------------------------------------
(* The bits of an entry that belong to no field. *)
Unnamed == 12..51 \cup {PTFlag[flag] : flag \in DOMAIN PTFlag}

(* A flag changes no other, no address, and nothing besides. *)
LEMMA FlagFields ==
  ASSUME NEW w \in SUBSET (0..63), NEW flag \in DOMAIN PTFlag, NEW enabled \in BOOLEAN
  PROVE  LET new == setPageTableFlag(w, flag, enabled)
         IN  /\ new \in SUBSET (0..63)
             /\ member(new, 12, 40) = member(w, 12, 40)
             /\ new \ Unnamed = w \ Unnamed
             /\ member(new, PTFlag[flag], 1) = IF enabled THEN {0} ELSE {}
             /\ \A other \in DOMAIN PTFlag :
                  other # flag => member(new, PTFlag[other], 1) = member(w, PTFlag[other], 1)
<1> DEFINE new == setPageTableFlag(w, flag, enabled)
<1>1. new = {y \in 0..63 : IF y = PTFlag[flag] THEN enabled ELSE y \in w}
  <2>1. \A f \in DOMAIN PTFlag, e \in BOOLEAN :
          setPageTableFlag(w, f, e) = {y \in 0..63 : IF y = PTFlag[f] THEN e ELSE y \in w}
    BY EntryBits
  <2> QED
    BY <2>1, Zenon
<1> HIDE DEF new
<1>2. new \in SUBSET (0..63) /\ new \in Bits /\ w \in Bits
  BY <1>1 DEF Bits
<1>3. PTFlag[flag] \in 0..63 /\ PTFlag[flag] \notin 12..51 /\ PTFlag[flag] \in Unnamed
  BY FlagPlaces DEF Unnamed
<1>4. \A y \in 0..63 : y # PTFlag[flag] => (y \in new <=> y \in w)
  BY <1>1
<1>5. member(new, 12, 40) = member(w, 12, 40)
  <2>1. /\ member(new, 12, 40) \in Bits
        /\ \A x \in Nat : x \in member(new, 12, 40) <=> x < 40 /\ x + 12 \in new
    BY <1>2, FieldBit
  <2>2. /\ member(w, 12, 40) \in Bits
        /\ \A x \in Nat : x \in member(w, 12, 40) <=> x < 40 /\ x + 12 \in w
    BY <1>2, FieldBit
  <2>3. \A x \in Nat : x < 40 => x + 12 \in 12..51 /\ x + 12 \in 0..63
    OBVIOUS
  <2>4. \A x \in Nat : x < 40 => (x + 12 \in new <=> x + 12 \in w)
    BY <1>3, <1>4, <2>3
  <2> QED
    BY <2>1, <2>2, <2>4 DEF Bits
<1>6. new \ Unnamed = w \ Unnamed
  BY <1>2, <1>3, <1>4
<1>7. member(new, PTFlag[flag], 1) = IF enabled THEN {0} ELSE {}
  <2>1. member(new, PTFlag[flag], 1) = IF PTFlag[flag] \in new THEN {0} ELSE {}
    BY <1>2, <1>3, OneBit
  <2>2. PTFlag[flag] \in new <=> enabled
    BY <1>1, <1>3
  <2> QED
    BY <2>1, <2>2
<1>8. ASSUME NEW other \in DOMAIN PTFlag, other # flag
      PROVE  member(new, PTFlag[other], 1) = member(w, PTFlag[other], 1)
  <2>1. PTFlag[other] \in 0..63 /\ PTFlag[other] # PTFlag[flag]
    BY <1>8, FlagPlaces
  <2>2. /\ member(new, PTFlag[other], 1) = IF PTFlag[other] \in new THEN {0} ELSE {}
        /\ member(w, PTFlag[other], 1) = IF PTFlag[other] \in w THEN {0} ELSE {}
    BY <1>2, <2>1, OneBit
  <2> QED
    BY <1>4, <2>1, <2>2
<1> QED
  BY <1>2, <1>5, <1>6, <1>7, <1>8 DEF new

(* An address changes no flag and nothing besides. *)
LEMMA AddressFields ==
  ASSUME NEW w \in SUBSET (0..63), NEW number \in SUBSET (0..63)
  PROVE  LET new == setPageTableAddress(w, number)
         IN  /\ new \in SUBSET (0..63)
             /\ member(new, 12, 40) = number \cap 0..39
             /\ new \ Unnamed = w \ Unnamed
             /\ \A flag \in DOMAIN PTFlag :
                  member(new, PTFlag[flag], 1) = member(w, PTFlag[flag], 1)
<1> DEFINE new == setPageTableAddress(w, number)
<1>1. new = {y \in 0..63 : IF y \in 12..51 THEN y - 12 \in number ELSE y \in w}
  BY EntryBits
<1> HIDE DEF new
<1>2. new \in SUBSET (0..63) /\ new \in Bits /\ w \in Bits
  BY <1>1 DEF Bits
<1>3. \A y \in 0..63 : y \notin 12..51 => (y \in new <=> y \in w)
  BY <1>1
<1>4. member(new, 12, 40) = number \cap 0..39
  <2>1. /\ member(new, 12, 40) \in Bits
        /\ \A x \in Nat : x \in member(new, 12, 40) <=> x < 40 /\ x + 12 \in new
    BY <1>2, FieldBit
  <2>2. ASSUME NEW x \in Nat, x < 40
        PROVE  x + 12 \in new <=> x \in number
    <3>1. x + 12 \in 12..51 /\ x + 12 \in 0..63 /\ (x + 12) - 12 = x
      BY <2>2
    <3> QED
      BY <1>1, <3>1
  <2>3. \A x \in Nat : x < 40 <=> x \in 0..39
    OBVIOUS
  <2> QED
    BY <2>1, <2>2, <2>3 DEF Bits
<1>5. new \ Unnamed = w \ Unnamed
  BY <1>2, <1>3 DEF Unnamed
<1>6. ASSUME NEW flag \in DOMAIN PTFlag
      PROVE  member(new, PTFlag[flag], 1) = member(w, PTFlag[flag], 1)
  <2>1. PTFlag[flag] \in 0..63 /\ PTFlag[flag] \notin 12..51
    BY FlagPlaces
  <2>2. /\ member(new, PTFlag[flag], 1) = IF PTFlag[flag] \in new THEN {0} ELSE {}
        /\ member(w, PTFlag[flag], 1) = IF PTFlag[flag] \in w THEN {0} ELSE {}
    BY <1>2, <2>1, OneBit
  <2> QED
    BY <1>3, <2>1, <2>2
<1> QED
  BY <1>2, <1>4, <1>5, <1>6 DEF new

-----------------------------------------------------------------------------
(* A word has the bits that its kind of word has. *)
WordOK ==
  /\ kind \in {"entry", "address", "gate", "tss"}
  /\ kind \in {"entry", "address"} => word \in SUBSET (0..63)
  /\ kind \in {"gate", "tss"} => word \in SUBSET (0..127)

(* No call stores a bit outside the word. *)
LEMMA WordsKept == WordSpec => []WordOK
<1>1. WordInit => WordOK
  <2> SUFFICES ASSUME WordInit
               PROVE  WordOK
    OBVIOUS
  <2>1. \A w \in Words : w \in SUBSET (0..63)
    BY DescriptorsAssumption
  <2>2. {} \in SUBSET (0..127)
    OBVIOUS
  <2> QED
    BY <2>1, <2>2 DEF WordInit, WordStart, WordOK
<1>2. WordOK /\ [WordNext]_wordVars => WordOK'
  <2> SUFFICES ASSUME WordOK, [WordNext]_wordVars
               PROVE  WordOK'
    OBVIOUS
  <2>1. ASSUME NEW flag \in Flags, NEW enabled \in BOOLEAN,
               storeWord("entry", setPageTableFlag(word, flag, enabled))
        PROVE  WordOK'
    <3>1. kind = "entry" /\ kind' = "entry" /\ word \in SUBSET (0..63)
      BY <2>1 DEF storeWord, WordOK
    <3>2. flag \in DOMAIN PTFlag
      BY DescriptorsAssumption
    <3>3. word' \in SUBSET (0..63)
      BY <2>1, <3>1, <3>2, FlagFields DEF storeWord
    <3> QED
      BY <3>1, <3>3 DEF WordOK
  <2>2. ASSUME NEW number \in Numbers, storeWord("entry", setPageTableAddress(word, number))
        PROVE  WordOK'
    <3>1. kind = "entry" /\ kind' = "entry" /\ word \in SUBSET (0..63)
      BY <2>2 DEF storeWord, WordOK
    <3>2. number \in SUBSET (0..63)
      BY DescriptorsAssumption
    <3>3. word' \in SUBSET (0..63)
      BY <2>2, <3>1, <3>2, AddressFields DEF storeWord
    <3> QED
      BY <3>1, <3>3 DEF WordOK
  <2>3. ASSUME NEW handler \in Numbers, NEW type \in GateTypes,
               storeWord("gate", setIRQ(word, handler, type, KernelCode))
        PROVE  WordOK'
    <3>1. kind = "gate" /\ kind' = "gate" /\ word \in SUBSET (0..127)
      BY <2>3 DEF storeWord, WordOK
    <3>2. handler \in SUBSET (0..63) /\ type \in SUBSET (0..7)
      BY DescriptorsAssumption
    <3>3. word' \in SUBSET (0..127)
      BY <2>3, <3>1, <3>2, GateFields DEF storeWord
    <3> QED
      BY <3>1, <3>3 DEF WordOK
  <2>4. ASSUME NEW base \in Numbers, storeWord("tss", initializeGDT(word, base))
        PROVE  WordOK'
    <3>1. kind = "tss" /\ kind' = "tss" /\ word \in SUBSET (0..127)
      BY <2>4 DEF storeWord, WordOK
    <3>2. base \in SUBSET (0..63)
      BY DescriptorsAssumption
    <3>3. word' \in SUBSET (0..127)
      BY <2>4, <3>1, <3>2, SegmentFields DEF storeWord
    <3> QED
      BY <3>1, <3>3 DEF WordOK
  <2>5. CASE UNCHANGED <<kind, word>>
    BY <2>5 DEF WordOK
  <2> QED
    BY <2>1, <2>2, <2>3, <2>4, <2>5
    DEF WordNext, SetFlag, SetAddress, SetIRQ, InitializeGDT, GetFlag, GetAddress, GetOffset,
        GetIndex, get, wordVars
<1> QED
  BY <1>1, <1>2, PTL DEF WordSpec

(* The setters assign what they are named for, and the getters read it:     *)
(* page table entries, gates and the descriptor of the task state segment   *)
(* implement records of fields, for all words and numbers.                  *)
THEOREM WordsImplementRecords == WordSpec => ImplementsFieldRecord
<1>1. ASSUME WordOK, [WordNext]_wordVars
      PROVE  [AbstractRecord!Next]_(AbstractRecord!vars)
  <2> DEFINE override(new) ==
               [name \in DOMAIN processorFields |->
                  IF name \in DOMAIN new THEN new[name] ELSE processorFields[name]]
             entryNames == DOMAIN PTFlag \cup {"address", "rest"}
             entry(w) ==
               [name \in entryNames |->
                  CASE name = "address" -> member(w, 12, 40)
                    [] name = "rest" -> w \ Unnamed
                    [] OTHER -> member(w, PTFlag[name], 1)]
  <2>1. ASSUME NEW flag \in Flags, NEW enabled \in BOOLEAN,
               storeWord("entry", setPageTableFlag(word, flag, enabled))
        PROVE  AbstractRecord!Next
    <3> DEFINE new == [name \in {flag} |-> IF enabled THEN {0} ELSE {}]
    <3>1. kind = "entry" /\ kind' = "entry" /\ word \in SUBSET (0..63) /\ answer' = answer
      <4>1. kind = "entry" /\ kind' = kind /\ answer' = answer
        BY <2>1 DEF storeWord
      <4> QED
        BY <1>1, <4>1 DEF WordOK
    <3>2. flag \in DOMAIN PTFlag
      BY DescriptorsAssumption
    <3>3. /\ member(word', 12, 40) = member(word, 12, 40)
          /\ word' \ Unnamed = word \ Unnamed
          /\ member(word', PTFlag[flag], 1) = IF enabled THEN {0} ELSE {}
          /\ \A other \in DOMAIN PTFlag :
               other # flag => member(word', PTFlag[other], 1) = member(word, PTFlag[other], 1)
      BY <2>1, <3>1, <3>2, FlagFields DEF storeWord
    <3>4. processorFields = entry(word) /\ processorFields' = entry(word')
      BY <3>1 DEF processorFields, Unnamed
    <3>5. DOMAIN new = {flag} /\ new[flag] = IF enabled THEN {0} ELSE {}
      OBVIOUS
    <3>6. new \in assignments /\ assignments' = assignments
      BY <3>1 DEF assignments
    <3> HIDE DEF new
    <3>7. processorFields' = override(new)
      <4>1. ASSUME NEW name \in entryNames
            PROVE  entry(word')[name] = override(new)[name]
        <5>1. CASE name = "address"
          BY <3>2, <3>3, <3>4, <3>5, <5>1, FlagPlaces
        <5>2. CASE name = "rest"
          BY <3>2, <3>3, <3>4, <3>5, <5>2, FlagPlaces
        <5>3. CASE name \in DOMAIN PTFlag
          BY <3>3, <3>4, <3>5, <5>3, FlagPlaces
        <5> QED
          BY <5>1, <5>2, <5>3
      <4> QED
        BY <3>4, <4>1
    <3>8. DOMAIN new \subseteq DOMAIN processorFields
      BY <3>2, <3>4, <3>5
    <3> QED
      BY <3>1, <3>6, <3>7, <3>8 DEF AbstractRecord!Next, AbstractRecord!Assign
  <2>2. ASSUME NEW number \in Numbers, storeWord("entry", setPageTableAddress(word, number))
        PROVE  AbstractRecord!Next
    <3> DEFINE new == [address |-> number \cap 0..39]
    <3>1. kind = "entry" /\ kind' = "entry" /\ word \in SUBSET (0..63) /\ answer' = answer
      <4>1. kind = "entry" /\ kind' = kind /\ answer' = answer
        BY <2>2 DEF storeWord
      <4> QED
        BY <1>1, <4>1 DEF WordOK
    <3>2. number \in SUBSET (0..63)
      BY DescriptorsAssumption
    <3>3. /\ member(word', 12, 40) = number \cap 0..39
          /\ word' \ Unnamed = word \ Unnamed
          /\ \A flag \in DOMAIN PTFlag :
               member(word', PTFlag[flag], 1) = member(word, PTFlag[flag], 1)
      BY <2>2, <3>1, <3>2, AddressFields DEF storeWord
    <3>4. processorFields = entry(word) /\ processorFields' = entry(word')
      BY <3>1 DEF processorFields, Unnamed
    <3>5. DOMAIN new = {"address"} /\ new["address"] = number \cap 0..39
      OBVIOUS
    <3>6. new \in assignments /\ assignments' = assignments
      <4>1. {[address |-> a \cap 0..39] : a \in Numbers} \subseteq assignments
        BY <3>1 DEF assignments
      <4>2. assignments' = assignments
        BY <3>1 DEF assignments
      <4>3. new \in {[address |-> a \cap 0..39] : a \in Numbers}
        OBVIOUS
      <4> QED
        BY <4>1, <4>2, <4>3
    <3> HIDE DEF new
    <3>7. processorFields' = override(new)
      <4>1. ASSUME NEW name \in entryNames
            PROVE  entry(word')[name] = override(new)[name]
        <5>1. CASE name = "address"
          BY <3>3, <3>4, <3>5, <5>1
        <5>2. CASE name = "rest"
          BY <3>3, <3>4, <3>5, <5>2
        <5>3. CASE name \in DOMAIN PTFlag
          BY <3>3, <3>4, <3>5, <5>3, FlagPlaces
        <5> QED
          BY <5>1, <5>2, <5>3
      <4> QED
        BY <3>4, <4>1
    <3>8. DOMAIN new \subseteq DOMAIN processorFields
      BY <3>4, <3>5
    <3> QED
      BY <3>1, <3>6, <3>7, <3>8 DEF AbstractRecord!Next, AbstractRecord!Assign
  <2>3. ASSUME NEW handler \in Numbers, NEW type \in GateTypes,
               storeWord("gate", setIRQ(word, handler, type, KernelCode))
        PROVE  AbstractRecord!Next
    <3> DEFINE new == [handler |-> handler, type |-> type, selector |-> KernelCode]
               gate(w) == [handler |-> handlerOf(w), type |-> member(w, 40, 8),
                           selector |-> member(w, 16, 16), stackTable |-> member(w, 32, 8)]
    <3>1. kind = "gate" /\ kind' = "gate" /\ word \in SUBSET (0..127) /\ answer' = answer
      <4>1. kind = "gate" /\ kind' = kind /\ answer' = answer
        BY <2>3 DEF storeWord
      <4> QED
        BY <1>1, <4>1 DEF WordOK
    <3>2. handler \in SUBSET (0..63) /\ type \in SUBSET (0..7)
      BY DescriptorsAssumption
    <3>3. /\ handlerOf(word') = handler
          /\ member(word', 40, 8) = type
          /\ member(word', 16, 16) = KernelCode
          /\ member(word', 32, 8) = member(word, 32, 8)
      BY <2>3, <3>1, <3>2, GateFields DEF storeWord
    <3>4. processorFields = gate(word) /\ processorFields' = gate(word')
      BY <3>1 DEF processorFields, handlerOf
    <3>5. new \in assignments /\ assignments' = assignments
      BY <3>1 DEF assignments
    <3>6. processorFields' = override(new) /\ DOMAIN new \subseteq DOMAIN processorFields
      BY <3>3, <3>4
    <3> QED
      BY <3>1, <3>5, <3>6 DEF AbstractRecord!Next, AbstractRecord!Assign
  <2>4. ASSUME NEW base \in Numbers, storeWord("tss", initializeGDT(word, base))
        PROVE  AbstractRecord!Next
    <3> DEFINE new == [base |-> base, limit |-> TssSize, type |-> {0, 3, 7}, granularity |-> {}]
               segment(w) ==
                 [base |-> baseOf(w),
                  limit |-> member(w, 0, 16) \cup shiftLeft(member(w, 48, 4), 16),
                  type |-> member(w, 40, 8), granularity |-> member(w, 55, 1)]
    <3>1. kind = "tss" /\ kind' = "tss" /\ word \in SUBSET (0..127) /\ answer' = answer
      <4>1. kind = "tss" /\ kind' = kind /\ answer' = answer
        BY <2>4 DEF storeWord
      <4> QED
        BY <1>1, <4>1 DEF WordOK
    <3>2. base \in SUBSET (0..63)
      BY DescriptorsAssumption
    <3>3. /\ baseOf(word') = base
          /\ member(word', 0, 16) \cup shiftLeft(member(word', 48, 4), 16) = TssSize
          /\ member(word', 40, 8) = {0, 3, 7}
          /\ member(word', 55, 1) = {}
      BY <2>4, <3>1, <3>2, SegmentFields DEF storeWord
    <3>4. processorFields = segment(word) /\ processorFields' = segment(word')
      BY <3>1 DEF processorFields, baseOf
    <3>5. new \in assignments /\ assignments' = assignments
      <4>1. assignments = {[base |-> b, limit |-> TssSize, type |-> {0, 3, 7}, granularity |-> {}] :
                             b \in Numbers}
        BY <3>1 DEF assignments
      <4>2. assignments' = assignments
        BY <3>1 DEF assignments
      <4> QED
        BY <4>1, <4>2
    <3>6. processorFields' = override(new) /\ DOMAIN new \subseteq DOMAIN processorFields
      BY <3>3, <3>4
    <3> QED
      BY <3>1, <3>5, <3>6 DEF AbstractRecord!Next, AbstractRecord!Assign
  <2>5. ASSUME NEW ofKind, NEW answered, NEW names,
               kind = ofKind, answer' = answered, UNCHANGED <<kind, word>>,
               names \in {{flag} : flag \in Flags}
                           \cup {{"address"}, {"handler"}, {"P_i", "PT_i", "PD_i", "PDP_i"}},
               names \subseteq DOMAIN processorFields,
               answered = [name \in names |-> processorFields[name]]
        PROVE  AbstractRecord!Next
    <3>1. assignments' = assignments
      BY <2>5 DEF assignments
    <3>2. processorFields' = processorFields
      BY <2>5 DEF processorFields
    <3> QED
      BY <2>5, <3>1, <3>2 DEF AbstractRecord!Next, AbstractRecord!Read
  <2>6. CASE GetFlag
    <3>1. PICK flag \in Flags :
            get("entry", [name \in {flag} |-> IF getPageTableFlag(word, name) THEN {0} ELSE {}])
      BY <2>6 DEF GetFlag
    <3>2. kind = "entry" /\ UNCHANGED <<kind, word>>
      BY <3>1 DEF get
    <3>3. flag \in DOMAIN PTFlag /\ word \in Bits
      BY <1>1, <3>2, DescriptorsAssumption DEF WordOK, Bits
    <3>4. member(word, PTFlag[flag], 1) = IF getPageTableFlag(word, flag) THEN {0} ELSE {}
      BY <3>3, OneBit, FlagPlaces DEF getPageTableFlag
    <3>5. processorFields = entry(word)
      BY <3>2 DEF processorFields, Unnamed
    <3>6. processorFields[flag] = member(word, PTFlag[flag], 1) /\ {flag} \subseteq DOMAIN processorFields
      BY <3>3, <3>5, FlagPlaces
    <3>7. answer' = [name \in {flag} |-> processorFields[name]]
      BY <3>1, <3>4, <3>6 DEF get
    <3> QED
      BY <2>5, <3>2, <3>6, <3>7
  <2>7. CASE GetAddress
    <3>1. kind = "entry" /\ UNCHANGED <<kind, word>> /\ answer' = [address |-> getPageTableAddress(word)]
      BY <2>7 DEF GetAddress, get
    <3>2. getPageTableAddress(word) = member(word, 12, 40)
      BY <1>1, <3>1, EntryBits DEF WordOK
    <3>3. processorFields = entry(word)
      BY <3>1 DEF processorFields, Unnamed
    <3>4. processorFields["address"] = member(word, 12, 40) /\ {"address"} \subseteq DOMAIN processorFields
      BY <3>3
    <3>5. answer' = [name \in {"address"} |-> processorFields[name]]
      BY <3>1, <3>2, <3>4
    <3> QED
      BY <2>5, <3>1, <3>4, <3>5
  <2>8. CASE GetOffset
    <3>1. kind = "gate" /\ UNCHANGED <<kind, word>> /\ answer' = [handler |-> getIDTOffset(word)]
      BY <2>8 DEF GetOffset, get
    <3>2. getIDTOffset(word) = handlerOf(word)
      BY <1>1, <3>1, OffsetRead DEF WordOK
    <3>3. processorFields["handler"] = handlerOf(word) /\ {"handler"} \subseteq DOMAIN processorFields
      BY <3>1 DEF processorFields, handlerOf
    <3>4. answer' = [name \in {"handler"} |-> processorFields[name]]
      BY <3>1, <3>2, <3>3
    <3> QED
      BY <2>5, <3>1, <3>3, <3>4
  <2>9. CASE GetIndex
    <3>1. kind = "address" /\ UNCHANGED <<kind, word>> /\ answer' = getPageTableIndex(word)
      BY <2>9 DEF GetIndex, get
    <3>2. getPageTableIndex(word) = processorFields
      BY <1>1, <3>1, IndexRead DEF WordOK, processorFields
    <3>3. DOMAIN processorFields = {"P_i", "PT_i", "PD_i", "PDP_i"}
      BY <3>1 DEF processorFields
    <3>4. answer' = [name \in {"P_i", "PT_i", "PD_i", "PDP_i"} |-> processorFields[name]]
      <4>1. processorFields = [name \in DOMAIN processorFields |-> processorFields[name]]
        BY <3>1 DEF processorFields
      <4> QED
        BY <3>1, <3>2, <3>3, <4>1
    <3> QED
      BY <2>5, <3>1, <3>3, <3>4
  <2>10. CASE UNCHANGED wordVars
    BY <2>10 DEF wordVars, AbstractRecord!vars, processorFields, assignments
  <2> QED
    BY <1>1, <2>1, <2>2, <2>3, <2>4, <2>6, <2>7, <2>8, <2>9, <2>10
    DEF WordNext, SetFlag, SetAddress, SetIRQ, InitializeGDT
<1> QED
  BY <1>1, WordsKept, PTL DEF WordSpec, ImplementsFieldRecord, AbstractRecord!Spec

=============================================================================
