----------------------------- MODULE Interrupts -----------------------------
(***************************************************************************)
(* kernel_main from its first instruction to its idle loop, as far as      *)
(* interrupts go (kernel/src/interrupts.c, kernel/src/kernel.c and the     *)
(* lgdt of kernel/src/gdt.c), with what runs beside it: devices that raise *)
(* interrupt lines at any moment, the two 8259 interrupt controllers, and  *)
(* the handlers, which take the processor away from whatever it executes   *)
(* between any two instructions.                                           *)
(*                                                                         *)
(* Lines 0..7 belong to the first controller and 8..15 to the second,      *)
(* which requests on line 2 of the first.  A controller's registers are    *)
(* those the kernel's bytes act on; how they react is external.            *)
(***************************************************************************)
EXTENDS Integers, Sequences, FiniteSets

CONSTANTS
  Lines,         \* the lines devices may raise
  FirmwareMasks, \* the mask bytes <<first, second>> the firmware may leave
  FirmwareBases  \* the vector bases <<first, second>> the firmware may leave

ASSUME LinesAssumption == Lines \subseteq (0..15) \ {2}
ASSUME FirmwareAssumption ==
  /\ FirmwareMasks \subseteq (0..255) \X (0..255)
  /\ FirmwareBases \subseteq (0..248) \X (0..248)

VARIABLES
  firmware, \* what the firmware left: [mask, base, flag: interrupts are on]
  pic,      \* the controllers: [irr, isr: sets of lines; imr, base, expect:
            \* one number for each of the two, see outb]
  IF_flag,  \* the interrupt flag of the processor
  main,     \* what kernel_main executes next
  k,        \* in initializePIC: the next of its writes
  masks,    \* its variables a1 and a2
  stack     \* the handlers that run, the innermost last:
            \* [handler, line, at, flag: the interrupt flag iret restores]

vars == <<firmware, pic, IF_flag, main, k, masks, stack>>

NoLine == -1

-----------------------------------------------------------------------------
(* The interrupt descriptor table.                                          *)

INTERRUPT_GATE == "interrupt gate" \* clears the interrupt flag
TRAP_GATE      == "trap gate"      \* leaves it alone

Exceptions == 0..19 \ {9, 15}
GP   == 13
IRQ0 == 32
IRQ1 == 33

gate(handler, type) == [handler |-> handler, type |-> type]

(* The setIRQ calls of initializeInterrupts.  The eighteen exception        *)
(* handlers differ in the word they print only.                             *)
idt ==
  [v \in Exceptions \cup {IRQ0, IRQ1} |->
     CASE v = IRQ0 -> gate("timerHandler", INTERRUPT_GATE)
       [] v = IRQ1 -> gate("keyboardHandler", INTERRUPT_GATE)
       [] OTHER    -> gate("exceptionHandler", TRAP_GATE)]

(* An entry setIRQ has not filled is no gate: general protection.           *)
gateOf(vector) == IF vector \in DOMAIN idt THEN idt[vector] ELSE idt[GP]

-----------------------------------------------------------------------------
(* The controllers.                                                         *)

chipOf(line) == IF line < 8 THEN 1 ELSE 2
chip(c) == IF c = 1 THEN 0..7 ELSE 8..15

masked(imr, line) == (imr[chipOf(line)] \div 2 ^ (line % 8)) % 2 = 1

(* The lines in service hold back their own controller's lines of the same  *)
(* or a lower priority; all of the second controller has that of line 2.    *)
heldBack(line) ==
  \/ \E s \in pic.isr : chipOf(s) = chipOf(line) /\ s <= line
  \/ line >= 8 /\ \E s \in pic.isr : s <= 2

deliverable ==
  { line \in pic.irr :
      /\ ~masked(pic.imr, line)
      /\ line >= 8 => ~masked(pic.imr, 2)
      /\ ~heldBack(line) }

rank(line) == IF line < 8 THEN 8 * line ELSE 16 + (line - 8)

(* A write to a controller is [chip, port, value].  A command with          *)
(* ICW1_INIT makes it expect three more bytes on its data port, forgets     *)
(* every request and opens every mask; from then on until the second byte   *)
(* its vector base may be the old one or 0.  A data byte it does not expect *)
(* is its mask.  Acknowledging ends its most urgent line in service.        *)
ICW1_INIT == 17 \* with ICW1_ICW4
PIC_ACKNOWLEDGE == 32

outb(w) ==
  LET c == w.chip
  IN  \/ /\ w.port = "command" /\ w.value = ICW1_INIT
         /\ \E base \in {pic.base[c], 0} :
              pic' = [pic EXCEPT !.irr = @ \ chip(c), !.isr = @ \ chip(c),
                                 !.imr[c] = 0, !.base[c] = base, !.expect[c] = 2]
      \/ /\ w.port = "command" /\ w.value = PIC_ACKNOWLEDGE
         /\ pic' = [pic EXCEPT !.isr = { s \in @ : chipOf(s) = c =>
                                           \E t \in @ : chipOf(t) = c /\ t < s }]
      \/ /\ w.port = "data" /\ pic.expect[c] = 0
         /\ pic' = [pic EXCEPT !.imr[c] = w.value]
      \/ /\ w.port = "data" /\ pic.expect[c] = 2
         /\ pic' = [pic EXCEPT !.base[c] = w.value, !.expect[c] = 3]
      \/ /\ w.port = "data" /\ pic.expect[c] \in {3, 4}
         /\ pic' = [pic EXCEPT !.expect[c] = (@ + 1) % 5]

command(c, value) == [chip |-> c, port |-> "command", value |-> value]
data(c, value)    == [chip |-> c, port |-> "data", value |-> value]

PIC_1_OFFSET == 32
PIC_2_OFFSET == 40
ICW4_8086 == 1

\* Variant: the masks are written back before the mode bytes.
initializePICMasksEarly ==
  << command(1, ICW1_INIT), command(2, ICW1_INIT),
     data(1, PIC_1_OFFSET), data(2, PIC_2_OFFSET),
     data(1, 4), data(2, 2),
     data(1, masks[1]), data(2, masks[2]),
     data(1, ICW4_8086), data(2, ICW4_8086) >>

\* Variant: the offsets are swapped.
initializePICSwapped ==
  << command(1, ICW1_INIT), command(2, ICW1_INIT),
     data(1, PIC_2_OFFSET), data(2, PIC_1_OFFSET),
     data(1, 4), data(2, 2),
     data(1, ICW4_8086), data(2, ICW4_8086),
     data(1, masks[1]), data(2, masks[2]) >>

(* The writes of initializePIC after it has read the masks.                 *)
initializePIC ==
  << command(1, ICW1_INIT), command(2, ICW1_INIT),
     data(1, PIC_1_OFFSET), data(2, PIC_2_OFFSET),
     data(1, 4), data(2, 2),
     data(1, ICW4_8086), data(2, ICW4_8086),
     data(1, masks[1]), data(2, masks[2]) >>

-----------------------------------------------------------------------------
Init ==
  /\ firmware \in [mask : FirmwareMasks, base : FirmwareBases, flag : BOOLEAN]
  /\ pic = [irr |-> {}, isr |-> {}, imr |-> firmware.mask, base |-> firmware.base,
            expect |-> <<0, 0>>]
  /\ IF_flag = firmware.flag
  /\ main = "initializeGDT"
  /\ k = 1
  /\ masks = <<0, 0>>
  /\ stack = << >>

(* A device raises its line; a line already raised stays so. *)
Raise(line) ==
  /\ line \notin pic.irr
  /\ pic' = [pic EXCEPT !.irr = @ \cup {line}]
  /\ UNCHANGED <<firmware, IF_flag, main, k, masks, stack>>

(* The processor enters the handler of a vector.                            *)
enter(vector, line) ==
  LET g == gateOf(vector)
  IN  /\ stack' = Append(stack, [handler |-> g.handler, line |-> line,
                                 at |-> "debugPrint", flag |-> IF_flag])
      /\ IF_flag' = (IF_flag /\ g.type = TRAP_GATE)

accepted(line) ==
  /\ IF_flag
  /\ line \in deliverable
  /\ \A other \in deliverable : rank(line) <= rank(other)

firmwaresIDT == main \in {"initializeGDT", "lidt"}

(* Until lidt the firmware's handlers serve interrupts, and acknowledge     *)
(* them.  Their gates name a selector of the firmware's descriptor table:   *)
(* in the kernel's it may be no code segment, which resets the machine.     *)
FirmwareInterrupt(line) ==
  /\ firmwaresIDT
  /\ accepted(line)
  /\ \/ pic' = [pic EXCEPT !.irr = @ \ {line}] /\ UNCHANGED <<main, IF_flag>>
     \/ main = "lidt" /\ main' = "reset" /\ IF_flag' = FALSE /\ UNCHANGED pic
  /\ UNCHANGED <<firmware, k, masks, stack>>

(* Between two instructions it accepts the most urgent interrupt.           *)
Interrupt(line) ==
  /\ ~firmwaresIDT
  /\ accepted(line)
  /\ pic' = [pic EXCEPT !.irr = @ \ {line},
                        !.isr = @ \cup {line} \cup (IF line >= 8 THEN {2} ELSE {})]
  /\ enter(pic.base[chipOf(line)] + (line % 8), line)
  /\ UNCHANGED <<firmware, main, k, masks>>

-----------------------------------------------------------------------------
(* kernel_main, while no handler runs.                                      *)

\* Variant: interrupts are let in before the table is loaded.
InitializeGDTSti ==
  /\ main = "initializeGDT"
  /\ main' = "lidt"
  /\ IF_flag' = TRUE
  /\ UNCHANGED <<firmware, pic, k, masks, stack>>

(* lgdt, the far return to the kernel's code segment, and all up to lidt.   *)
InitializeGDT ==
  /\ main = "initializeGDT"
  /\ main' = "lidt"
  /\ UNCHANGED <<firmware, pic, IF_flag, k, masks, stack>>

Lidt ==
  /\ main = "lidt"
  /\ main' = "sti"
  /\ UNCHANGED <<firmware, pic, IF_flag, k, masks, stack>>

Sti ==
  /\ stack = << >>
  /\ main = "sti"
  /\ IF_flag' = TRUE
  /\ main' = "saveMasks"
  /\ UNCHANGED <<firmware, pic, k, masks, stack>>

\* Variant: the masks are not read.
SaveMasksForgotten ==
  /\ stack = << >>
  /\ main = "saveMasks"
  /\ main' = "initializePIC"
  /\ UNCHANGED <<firmware, pic, IF_flag, k, masks, stack>>

(* a1 = inb(PIC1_DATA); a2 = inb(PIC2_DATA); *)
SaveMasks ==
  /\ stack = << >>
  /\ main = "saveMasks"
  /\ masks' = pic.imr
  /\ main' = "initializePIC"
  /\ UNCHANGED <<firmware, pic, IF_flag, k, stack>>

InitializePIC ==
  /\ stack = << >>
  /\ main = "initializePIC"
  /\ outb(initializePIC[k])
  /\ k' = k + 1
  /\ main' = IF k = Len(initializePIC) THEN "debugPrint" ELSE main
  /\ UNCHANGED <<firmware, IF_flag, masks, stack>>

(* The three lines of statistics. *)
DebugPrint ==
  /\ stack = << >>
  /\ main = "debugPrint"
  /\ main' = "int"
  /\ UNCHANGED <<firmware, pic, IF_flag, k, masks, stack>>

\* Variant: the return address is that of the int instruction.
SoftwareInterruptRepeats ==
  /\ stack = << >>
  /\ main = "int"
  /\ enter(IRQ1, NoLine)
  /\ UNCHANGED <<firmware, pic, main, k, masks>>

SoftwareInterrupt ==
  /\ stack = << >>
  /\ main = "int"
  /\ enter(IRQ1, NoLine)
  /\ main' = "hlt"
  /\ UNCHANGED <<firmware, pic, k, masks>>

-----------------------------------------------------------------------------
(* The handlers.  Only the keyboard's gets past its message.                *)

top == stack[Len(stack)]

at(label) == stack # << >> /\ top.at = label

goto(label) == stack' = [stack EXCEPT ![Len(stack)].at = label]

\* Variant: the handler forgets that it owes an acknowledgement.
HandlerPrintNoPicEnd ==
  /\ at("debugPrint")
  /\ goto(IF top.handler = "keyboardHandler" THEN "iret" ELSE "loop")
  /\ UNCHANGED <<firmware, pic, IF_flag, main, k, masks>>

HandlerPrint ==
  /\ at("debugPrint")
  /\ goto(IF top.handler = "keyboardHandler" THEN "picEnd1" ELSE "loop")
  /\ UNCHANGED <<firmware, pic, IF_flag, main, k, masks>>

(* picEnd, whatever the interrupt was. *)
PicEnd ==
  /\ \/ at("picEnd1") /\ outb(command(1, PIC_ACKNOWLEDGE)) /\ goto("picEnd2")
     \/ at("picEnd2") /\ outb(command(2, PIC_ACKNOWLEDGE)) /\ goto("iret")
  /\ UNCHANGED <<firmware, IF_flag, main, k, masks>>

Iret ==
  /\ at("iret")
  /\ IF_flag' = top.flag
  /\ stack' = SubSeq(stack, 1, Len(stack) - 1)
  /\ UNCHANGED <<firmware, pic, main, k, masks>>

KernelMain ==
  \/ InitializeGDT
  \/ Lidt
  \/ Sti
  \/ SaveMasks
  \/ InitializePIC
  \/ DebugPrint
  \/ SoftwareInterrupt

Handler ==
  \/ HandlerPrint
  \/ PicEnd
  \/ Iret

Next ==
  \/ \E line \in Lines : Raise(line)
  \/ \E line \in Lines : Interrupt(line) \/ FirmwareInterrupt(line)
  \/ KernelMain
  \/ Handler

Spec == Init /\ [][Next]_vars

(* The processor goes on executing, and takes an interrupt that stays       *)
(* deliverable.  Devices owe nothing; but they are slower than a handler,   *)
(* so what they interrupt still gets its turn.                              *)
FairSpec ==
  /\ Spec
  /\ WF_vars(Handler)
  /\ WF_vars(\E line \in Lines : Interrupt(line) \/ FirmwareInterrupt(line))
  /\ SF_vars(KernelMain)
  /\ SF_vars(HandlerPrint /\ top.handler = "exceptionHandler")

-----------------------------------------------------------------------------
(* The remapping arrives: kernel_main gets past initializePIC only with     *)
(* both controllers out of their initialisation, on the kernel's vectors,   *)
(* and with the masks of the firmware back in place.                        *)
ControllersProgrammed ==
  main \in {"debugPrint", "int", "hlt"} =>
    /\ pic.base = <<PIC_1_OFFSET, PIC_2_OFFSET>>
    /\ pic.imr = firmware.mask
    /\ pic.expect = <<0, 0>>

ownHandler(line) ==
  CASE line = 0 -> "timerHandler"
    [] line = 1 -> "keyboardHandler"
    [] OTHER    -> "exceptionHandler"

(* An interrupt reaches a handler that is not its own only in the window    *)
(* between lidt and the write of the first controller's vector offset, and  *)
(* then it stops kernel_main before or inside initializePIC for good.       *)
WrongHandlerOnlyBeforeOffset ==
  \A n \in DOMAIN stack :
    LET f == stack[n]
    IN  f.line # NoLine /\ f.handler # ownHandler(f.line) =>
          main \in {"sti", "saveMasks"} \/ (main = "initializePIC" /\ k <= 3)

(* A line the firmware had masked is served only while initializePIC has    *)
(* its controller open: from ICW1 to the write of the saved mask.           *)
MaskedServedOnlyInWindow ==
  \A n \in DOMAIN stack :
    LET f == stack[n]
    IN  f.line # NoLine /\ masked(firmware.mask, f.line) =>
          main = "initializePIC" /\ k \in (chipOf(f.line) + 1)..(chipOf(f.line) + 8)

(* While kernel_main runs nothing is in service.  So int $0x21 cannot       *)
(* acknowledge a device's interrupt, and no line is held back for ever.     *)
NothingLeftInService == stack = << >> => pic.isr = {}

(* Between the kernel's descriptors and its interrupt table no interrupt    *)
(* may come.  The kernel does not see to that: it is lucky if the firmware  *)
(* has left interrupts off, and otherwise if every open line is silent.     *)
ResetOnlyIfInterruptsLeftOn ==
  main = "reset" =>
    /\ firmware.flag
    /\ \E line \in Lines : ~masked(firmware.mask, line) /\ line \in pic.irr

frozen == \E n \in DOMAIN stack : stack[n].at = "loop"

(* kernel_main reaches its idle loop unless a handler keeps the processor   *)
(* or the machine resets.                                                  *)
IdleOrFrozen == <>(frozen \/ main = "reset" \/ (main = "hlt" /\ stack = << >>))

(* In the idle loop, every key the keyboard may report is answered, again   *)
(* and again, until a timer tick or a line without a handler ends it all.   *)
KeyboardServed ==
  (main = "hlt" /\ 1 \in pic.irr /\ ~masked(pic.imr, 1))
    ~> (frozen \/ \E n \in DOMAIN stack : stack[n].line = 1)

(* What initializePIC says of the masks it saved: it restores them.         *)
MasksRestored ==
  main = "initializePIC" ~> (main # "initializePIC" /\ pic.imr = masks)
=============================================================================
