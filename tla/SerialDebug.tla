---------------------------- MODULE SerialDebug ----------------------------
(***************************************************************************)
(* The messages of the boot loader: debugPrint (boot/src/boot.c), which    *)
(* writes to the serial device if there is one and else to the console,    *)
(* printToSerialOut and initSerialService (boot/src/serial.c), and the one *)
(* errorMessageBuffer of boot/src/error.c.  A failed write is reported     *)
(* with debugPrint again, so calls nest for as long as the device fails.   *)
(*                                                                         *)
(* A text is a record of the call it is from, its kind and the status it   *)
(* shows.  No text is empty, and VSPrint cuts it to 127 characters, so the *)
(* tests in front of the write never fail.                                 *)
(***************************************************************************)
EXTENDS Naturals, Sequences

CONSTANTS
  Statuses,     \* the errors of the firmware's services
  NOT_FOUND,    \* EFI_NOT_FOUND, one of them
  DEVICE_ERROR, \* EFI_DEVICE_ERROR, one of them
  MessageLimit, \* bound: messages of efi_main after initSerialService
  FailureLimit, \* bound: writes that fail on a device that is not dead
  StackDepth    \* the calls of debugPrint the stack has room for

ASSUME SerialDebugAssumption ==
  /\ {NOT_FOUND, DEVICE_ERROR} \subseteq Statuses
  /\ Statuses \cap {"success", "none", "under way"} = {}
  /\ MessageLimit \in Nat /\ StackDepth \in Nat
  /\ FailureLimit \in Nat /\ FailureLimit < StackDepth

VARIABLES
  step,     \* where efi_main is: "locate", "configure", "fatal", "boot" or "returned"
  protocol, \* serialService.protocol is not NULL
  device,   \* the serial device: "good", "flaky" or "dead"
  failures, \* writes that failed
  buffer,   \* the status whose message is in errorMessageBuffer
  calls,    \* all calls of debugPrint: [kind of text, status it is to show, result]
  stack,    \* those under way, the innermost last: [id, at: what it does next,
            \* shows: the status in its formatted text, result: the write's]
  serial,   \* the texts the device has taken whole
  console,  \* the texts on the console
  lost      \* the stack has run into what lies below it

serialVars == <<step, protocol, device, failures, buffer, calls, stack, serial, console, lost>>

-----------------------------------------------------------------------------
SerialInit ==
  /\ step = "locate"
  /\ protocol = FALSE
  /\ device \in {"good", "flaky", "dead"}
  /\ failures = 0
  /\ buffer = "none"
  /\ calls = << >>
  /\ stack = << >>
  /\ serial = << >>
  /\ console = << >>
  /\ lost = FALSE

(* getEFIErrorMessage fills the buffer that everybody shares. *)
getEFIErrorMessage(status) == buffer' = IF status = "none" THEN buffer ELSE status

(* debugPrint(fmt, getEFIErrorMessage(status)), or without a status, called *)
(* with the calls of callers under way.                                     *)
debugPrint(kind, status, callers) ==
  IF Len(callers) < StackDepth
    THEN /\ getEFIErrorMessage(status)
         /\ calls' = Append(calls, [kind |-> kind, status |-> status, result |-> "under way"])
         /\ stack' = Append(callers, [id |-> Len(calls) + 1, at |-> "format",
                                      shows |-> "none", result |-> "success"])
         /\ UNCHANGED lost
    ELSE lost' = TRUE /\ UNCHANGED <<buffer, calls, stack>>

noCall == UNCHANGED <<buffer, calls, stack, lost>>

-----------------------------------------------------------------------------
(* efi_main prints one message after the other. *)
idle == stack = << >> /\ ~lost

LocateProtocol ==
  /\ idle /\ step = "locate"
  /\ \/ protocol' = TRUE /\ step' = "configure" /\ noCall
     \/ \E status \in Statuses :
          /\ step' = IF status = NOT_FOUND THEN "boot" ELSE "fatal"
          /\ debugPrint("locating", status, << >>)
          /\ UNCHANGED protocol
  /\ UNCHANGED <<device, failures, serial, console>>

(* If SetAttributes fails, messages go to the device all the same. *)
ConfigureSerialProtocol ==
  /\ idle /\ step = "configure"
  /\ \/ step' = "boot" /\ noCall
     \/ \E status \in Statuses :
          /\ step' = IF status = NOT_FOUND THEN "boot" ELSE "fatal"
          /\ debugPrint("configuring", status, << >>)
  /\ UNCHANGED <<protocol, device, failures, serial, console>>

FatalError ==
  /\ idle /\ step = "fatal"
  /\ step' = "returned"
  /\ debugPrint("initialising", "none", << >>)
  /\ UNCHANGED <<protocol, device, failures, serial, console>>

(* Any message of the rest of the boot loader, those of checkForError among *)
(* them.                                                                    *)
PrintMessage ==
  /\ idle /\ step = "boot"
  /\ Len(SelectSeq(calls, LAMBDA c : c.kind = "message")) < MessageLimit
  /\ \E status \in Statuses \cup {"none"} : debugPrint("message", status, << >>)
  /\ UNCHANGED <<step, protocol, device, failures, serial, console>>

-----------------------------------------------------------------------------
top == stack[Len(stack)]
at(label) == ~lost /\ stack # << >> /\ top.at = label
with(fields) == [stack EXCEPT ![Len(stack)] = fields]

text == [by |-> top.id, kind |-> calls[top.id].kind, shows |-> top.shows]

shown == IF calls[top.id].status = "none" THEN "none" ELSE buffer

(* VSPrint to a buffer on the stack; VPrint if there is no protocol. *)
Format ==
  /\ at("format")
  /\ IF protocol
       THEN stack' = with([top EXCEPT !.at = "write", !.shows = shown]) /\ UNCHANGED console
       ELSE /\ stack' = with([top EXCEPT !.at = "return"])
            /\ console' = Append(console, [text EXCEPT !.shows = shown])
  /\ UNCHANGED <<step, protocol, device, failures, buffer, calls, serial, lost>>

\* Variant: printToSerialOut reports its success, too.
WriteTraced ==
  /\ at("write")
  /\ device # "dead"
  /\ serial' = Append(serial, text)
  /\ debugPrint("written", "none", with([top EXCEPT !.at = "return"]))
  /\ UNCHANGED <<step, protocol, device, failures, console>>

(* printToSerialOut *)
Write ==
  /\ at("write")
  /\ device # "dead"
  /\ serial' = Append(serial, text)
  /\ stack' = with([top EXCEPT !.at = "return"])
  /\ UNCHANGED <<step, protocol, device, failures, buffer, calls, console, lost>>

mayFail == device = "dead" \/ (device = "flaky" /\ failures < FailureLimit)

(* The write fails, and printToSerialOut says so by debugPrint. *)
WriteFails ==
  /\ at("write")
  /\ mayFail
  /\ failures' = failures + 1
  /\ \E status \in Statuses :
       debugPrint("writing", status, with([top EXCEPT !.at = "notice", !.result = status]))
  /\ UNCHANGED <<step, protocol, device, serial, console>>

\* Variant: a text that is not written whole is no error.
WritesPartIgnored ==
  /\ at("write")
  /\ mayFail
  /\ failures' = failures + 1
  /\ debugPrint("partial", "none", with([top EXCEPT !.at = "return"]))
  /\ UNCHANGED <<step, protocol, device, serial, console>>

(* The device takes a part of the text only, and reports no error. *)
WritesPart ==
  /\ at("write")
  /\ mayFail
  /\ failures' = failures + 1
  /\ debugPrint("partial", "none", with([top EXCEPT !.at = "notice", !.result = DEVICE_ERROR]))
  /\ UNCHANGED <<step, protocol, device, serial, console>>

(* debugPrint says on the console that printToSerialOut has failed. *)
Notice ==
  /\ at("notice")
  /\ getEFIErrorMessage(top.result)
  /\ console' = Append(console, [by |-> top.id, kind |-> "printing", shows |-> buffer'])
  /\ stack' = with([top EXCEPT !.at = "return"])
  /\ UNCHANGED <<step, protocol, device, failures, calls, serial, lost>>

Return ==
  /\ at("return")
  /\ calls' = [calls EXCEPT ![top.id].result = top.result]
  /\ stack' = SubSeq(stack, 1, Len(stack) - 1)
  /\ UNCHANGED <<step, protocol, device, failures, buffer, serial, console, lost>>

DebugPrint == Format \/ Write \/ WriteFails \/ WritesPart \/ Notice \/ Return

SerialNext == LocateProtocol \/ ConfigureSerialProtocol \/ FatalError \/ PrintMessage \/ DebugPrint

SerialSpec == SerialInit /\ [][SerialNext]_serialVars

(* The processor goes on executing, and the device's Write has a timeout. *)
FairSerialSpec == SerialSpec /\ WF_serialVars(DebugPrint)

-----------------------------------------------------------------------------
(* No message vanishes.  When a call of debugPrint has ended, its text is   *)
(* on the device or the console and shows the status it was called with;    *)
(* or else the console says, with the status of that write and no other,    *)
(* that it is not - although the calls nested in it have used the same      *)
(* errorMessageBuffer in between.  And the device has the texts in the      *)
(* order of the calls.                                                      *)
entries(log) == {log[n] : n \in DOMAIN log}

MessagesAccountedFor ==
  /\ \A id \in DOMAIN calls :
       LET c == calls[id]
           whole == [by |-> id, kind |-> c.kind, shows |-> c.status]
       IN  /\ c.result = "success" => whole \in entries(serial) \cup entries(console)
           /\ c.result \in Statuses =>
                /\ [by |-> id, kind |-> "printing", shows |-> c.result] \in entries(console)
                /\ whole \notin entries(serial)
  /\ \A m, n \in DOMAIN serial : m < n => serial[m].by < serial[n].by

(* Each failure costs one nested call.  On a device that comes back, every  *)
(* message is over in the end; on one that does not, each report of a       *)
(* failure fails itself, until the stack is full.                           *)
CallsReturn ==
  stack # << >> ~> IF protocol /\ device = "dead" THEN lost ELSE stack = << >>

=============================================================================
