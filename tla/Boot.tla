-------------------------------- MODULE Boot --------------------------------
(***************************************************************************)
(* The boot loader, efi_main (boot/src/main.c) with initSerialService,     *)
(* the functions of boot/src/graphics.c, loadPSD1Font and getMemoryMap,    *)
(* against a firmware whose services may fail and whose memory map may     *)
(* change at any time, until the kernel is entered, efi_main returns to    *)
(* the firmware, or the machine crashes.  What loadKernelImage does is in  *)
(* module Loader.                                                          *)
(***************************************************************************)
EXTENDS Integers, Sequences, FiniteSets

CONSTANTS
  Modes,       \* sequences of video modes: TRUE is the one efi_main wants
  ChangeLimit  \* bound: changes of the memory map by the firmware itself

ASSUME BootAssumption ==
  /\ Modes \subseteq Seq(BOOLEAN)
  /\ ChangeLimit \in Nat

VARIABLES
  pc,        \* the call to make next, or one of ends
  modes,     \* the video modes of this machine
  i,         \* the loop variable of findVideoMode
  handles,   \* graphicsService.handleBuffer is not NULL
  gop,       \* graphicsOutputProtocol is not NULL
  video,     \* bootInfo.videoModeInfo: "unset", "mode" or "garbage"
  font,      \* the font loadPSD1Font returned is not NULL
  live,      \* buffers and pages allocated in the memory map
  size,      \* descriptors in the memory map
  key,       \* the firmware's key of the memory map
  room,      \* memoryMapSize, in descriptors
  mapKey,    \* memoryMapKey
  described, \* the allocations the memory map in the buffer shows
  exited,    \* boot services have been left
  failed,    \* a service has failed that efi_main does not tolerate
  changes    \* changes the firmware has made to the map itself

vars == <<pc, modes, i, handles, gop, video, font, live, size, key, room, mapKey,
          described, exited, failed, changes>>

ends == {"kernel", "returned", "crashed"}

Init ==
  /\ pc = "watchdog"
  /\ modes \in Modes
  /\ i = 1
  /\ handles = FALSE /\ gop = FALSE
  /\ video = "unset"
  /\ font = FALSE
  /\ live = {}
  /\ size = 3
  /\ key = 0
  /\ room = 0
  /\ mapKey = 0
  /\ described = {}
  /\ exited = FALSE
  /\ failed = FALSE
  /\ changes = 0

mapVars   == <<live, size, key, room, mapKey, described, exited>>
loopVars  == <<modes, i>>
videoVars == <<handles, gop, video>>

goto(label) == pc' = label /\ UNCHANGED failed

(* return status; after an error message. *)
return == pc' = "returned" /\ failed' = TRUE

(* A service whose failure ends efi_main, and without effect on the rest. *)
checked(next) == goto(next) \/ return

(* Memory is allocated or freed: the map changes, and splits at most two of *)
(* its descriptors.                                                         *)
allocate(buffers) ==
  /\ live' = live \cup buffers
  /\ key' = key + 1
  /\ \E split \in 0..2 : size' = size + split

freed(buffer) ==
  /\ live' = live \ {buffer}
  /\ key' = key + 1
  /\ \E merged \in {0, 1} : size' = size - merged

(* A timer or a driver of the firmware allocates something.                 *)
FirmwareChangesMap ==
  /\ ~exited
  /\ pc \notin ends
  /\ changes < ChangeLimit
  /\ changes' = changes + 1
  /\ allocate({})
  /\ UNCHANGED <<pc, loopVars, videoVars, font, room, mapKey, described, exited, failed>>

-----------------------------------------------------------------------------
(* SetWatchdogTimer, and Reset of the console input. *)
Prepare ==
  /\ \/ pc = "watchdog" /\ checked("resetConsole")
     \/ pc = "resetConsole" /\ checked("locateSerial")
  /\ UNCHANGED <<loopVars, videoVars, font, mapVars, changes>>

(* A machine without a serial device is fine. *)
InitSerialService ==
  /\ \/ pc = "locateSerial" /\ (checked("configureSerial") \/ goto("locateGraphics"))
     \/ pc = "configureSerial" /\ checked("locateGraphics")
  /\ UNCHANGED <<loopVars, videoVars, font, mapVars, changes>>

(* A machine without graphics devices is fine, for now. *)
InitGraphicsOutputService ==
  /\ pc = "locateGraphics"
  /\ \/ /\ goto("openGraphics")
        /\ handles' = TRUE
        /\ allocate({"handles"})
     \/ /\ goto("openGraphics") \/ return
        /\ UNCHANGED <<handles, live, size, key>>
  /\ UNCHANGED <<loopVars, gop, video, font, room, mapKey, described, exited, changes>>

(* So is a console without a graphics protocol. *)
OpenGraphicsProtocol ==
  /\ pc = "openGraphics"
  /\ \/ gop' = TRUE /\ goto("findVideoMode")
     \/ gop' = FALSE /\ goto("openVolume")
  /\ UNCHANGED <<loopVars, handles, video, font, mapVars, changes>>

(* QueryMode on one mode after the other, each time with a new buffer that  *)
(* nobody frees, and SetMode on the first mode that fits.                   *)
QueryMode == allocate({"modeInfo"})

FindVideoMode ==
  /\ pc = "findVideoMode"
  /\ \/ i <= Len(modes) /\ ~modes[i] /\ goto("findVideoMode") /\ i' = i + 1 /\ QueryMode
     \/ i <= Len(modes) /\ modes[i] /\ checked("openVolume") /\ UNCHANGED i /\ QueryMode
     \/ i <= Len(modes) /\ return /\ UNCHANGED <<i, live, size, key>>
     \/ i > Len(modes) /\ pc' = "returned" /\ UNCHANGED <<failed, i, live, size, key>>
  /\ UNCHANGED <<modes, videoVars, font, room, mapKey, described, exited, changes>>

(* initFileSystemService and openVolume. *)
OpenVolume ==
  /\ pc = "openVolume"
  /\ checked("loadKernelImage")
  /\ UNCHANGED <<loopVars, videoVars, font, mapVars, changes>>

LoadKernelImage ==
  /\ pc = "loadKernelImage"
  /\ allocate({"segments"})
  /\ checked("videoModeInfo")
  /\ UNCHANGED <<loopVars, videoVars, font, room, mapKey, described, exited, changes>>

(* bootInfo.videoModeInfo is read through graphicsOutputProtocol, NULL or   *)
(* not: through NULL it is whatever lies at address 0 and where that leads. *)
SetVideoModeInfo ==
  /\ pc = "videoModeInfo"
  /\ IF gop
       THEN video' = "mode" /\ goto("closeGraphics")
       ELSE \/ video' = "garbage" /\ goto("closeGraphics")
            \/ pc' = "crashed" /\ UNCHANGED <<video, failed>>
  /\ UNCHANGED <<loopVars, handles, gop, font, mapVars, changes>>

\* Variant: a null pointer is not given to FreePool.
CloseGraphicOutputServiceNull ==
  /\ pc = "closeGraphics"
  /\ \/ goto("loadFont") /\ freed("handles")
     \/ return /\ UNCHANGED <<live, size, key>>
  /\ UNCHANGED <<loopVars, videoVars, font, room, mapKey, described, exited, changes>>

(* FreePool refuses the null pointer. *)
CloseGraphicOutputService ==
  /\ pc = "closeGraphics"
  /\ \/ handles /\ goto("loadFont") /\ freed("handles")
     \/ handles /\ return /\ UNCHANGED <<live, size, key>>
     \/ ~handles /\ pc' = "returned" /\ UNCHANGED <<failed, live, size, key>>
  /\ UNCHANGED <<loopVars, videoVars, font, room, mapKey, described, exited, changes>>

(* The three buffers of loadPSD1Font.  It may give up before or after any   *)
(* of them, and leaves behind those it has; efi_main goes on without a font.*)
FontBuffers == <<"fontHeader", "glyphBuffer", "finishedFont">>

LoadPSD1Font ==
  /\ pc = "loadFont"
  /\ \E n \in 0..Len(FontBuffers) :
       /\ allocate({FontBuffers[m] : m \in 1..n})
       /\ font' = (n = Len(FontBuffers))
  /\ goto("mapSize")
  /\ UNCHANGED <<loopVars, videoVars, room, mapKey, described, exited, changes>>

(* The first GetMemoryMap of getMemoryMap, which tells the size; the        *)
(* allocation of a buffer two descriptors larger; and the second one.       *)
GetMemoryMapSize ==
  /\ pc = "mapSize"
  /\ \/ goto("mapAllocate") /\ room' = size /\ mapKey' = key
     \/ return /\ UNCHANGED <<room, mapKey>>
  /\ UNCHANGED <<loopVars, videoVars, font, live, size, key, described, exited, changes>>

\* Variant: one descriptor of slack.
slackOne == 1

slack == 2

AllocateMemoryMap ==
  /\ pc = "mapAllocate"
  /\ room' = room + slack
  /\ \/ goto("getMap") /\ allocate({"memoryMap"})
     \/ return /\ UNCHANGED <<live, size, key>>
  /\ UNCHANGED <<loopVars, videoVars, font, mapKey, described, exited, changes>>

GetMemoryMap ==
  /\ pc = "getMap"
  /\ \/ /\ size <= room
        /\ goto("exitBootServices")
        /\ room' = size
        /\ mapKey' = key
        /\ described' = live
     \/ size > room /\ pc' = "returned" /\ UNCHANGED <<room, mapKey, described, failed>>
     \/ return /\ UNCHANGED <<room, mapKey, described>>
  /\ UNCHANGED <<loopVars, videoVars, font, live, size, key, exited, changes>>

\* Variant: the kernel is entered whatever ExitBootServices returns.
ExitBootServicesUnchecked ==
  /\ pc = "exitBootServices"
  /\ exited' = (mapKey = key)
  /\ goto("kernel")
  /\ UNCHANGED <<loopVars, videoVars, font, live, size, key, room, mapKey, described, changes>>

(* ExitBootServices wants the key of the current map.  With it, bootInfo is *)
(* completed and the kernel entered; without it efi_main returns.           *)
ExitBootServices ==
  /\ pc = "exitBootServices"
  /\ \/ mapKey = key /\ exited' = TRUE /\ goto("kernel")
     \/ mapKey = key /\ return /\ UNCHANGED exited
     \/ mapKey # key /\ pc' = "returned" /\ UNCHANGED <<exited, failed>>
  /\ UNCHANGED <<loopVars, videoVars, font, live, size, key, room, mapKey, described, changes>>

EfiMain ==
  \/ Prepare
  \/ InitSerialService
  \/ InitGraphicsOutputService
  \/ OpenGraphicsProtocol
  \/ FindVideoMode
  \/ OpenVolume
  \/ LoadKernelImage
  \/ SetVideoModeInfo
  \/ CloseGraphicOutputService
  \/ LoadPSD1Font
  \/ GetMemoryMapSize
  \/ AllocateMemoryMap
  \/ GetMemoryMap
  \/ ExitBootServices

Next == EfiMain \/ FirmwareChangesMap

Spec == Init /\ [][Next]_vars

-----------------------------------------------------------------------------
(* The kernel is entered only with boot services left and a memory map that *)
(* shows every allocation there is: the segments, the font, the map itself. *)
(* So nothing that the kernel needs looks like free memory to it.           *)
KernelSeesCurrentMap ==
  pc = "kernel" =>
    /\ exited
    /\ described = live
    /\ {"segments", "memoryMap"} \cup (IF font THEN {FontBuffers[n] : n \in 1..3} ELSE {})
         \subseteq described

(* efi_main returns only if a service failed, the firmware changed the map  *)
(* between the calls, or the machine has no graphics handles or not the     *)
(* mode: two more descriptors than GetMemoryMap asked for are enough for    *)
(* what efi_main itself allocates, and the key stays good.                  *)
ReturnHasCause ==
  pc = "returned" =>
    \/ failed
    \/ changes > 0
    \/ ~handles
    \/ gop /\ \A n \in DOMAIN modes : ~modes[n]

(* What efi_main tolerates in the beginning it stumbles over later: the     *)
(* kernel is not entered on a machine without graphics handles, it runs in  *)
(* the mode that efi_main wants, or, on a console without a graphics        *)
(* protocol, with a garbage frame buffer.                                   *)
KernelInWantedMode ==
  pc = "kernel" =>
    /\ handles
    /\ IF gop THEN video = "mode" /\ i \in DOMAIN modes /\ modes[i] ELSE video = "garbage"
=============================================================================
