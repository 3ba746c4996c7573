-------------------------- MODULE InterruptsProofs --------------------------
(***************************************************************************)
(* Interrupts: how far initializePIC has brought the controllers, and what *)
(* is served meanwhile, for every set of lines and everything the firmware *)
(* may have left in the controllers.                                       *)
(***************************************************************************)
EXTENDS Interrupts, SequenceTheorems, TLAPS

Pair == Int \X Int

Controllers ==
  [irr : SUBSET Int, isr : SUBSET Int, imr : Pair, base : Pair, expect : Pair]

Handlers == {"timerHandler", "keyboardHandler", "exceptionHandler"}
Labels   == {"debugPrint", "picEnd1", "picEnd2", "iret", "loop"}

Frame == [handler : Handlers, line : Int, at : Labels, flag : BOOLEAN]

Early == {"initializeGDT", "lidt", "reset"}
Unprogrammed == Early \cup {"sti", "saveMasks"}
Programmed == {"debugPrint", "int", "hlt"}

TypesOK ==
  /\ firmware \in [mask : Pair, base : Pair, flag : BOOLEAN]
  /\ IF_flag \in BOOLEAN
  /\ main \in Unprogrammed \cup {"initializePIC"} \cup Programmed
  /\ k \in 1..11
  /\ pic \in Controllers
  /\ stack \in Seq(Frame)

(* What each controller expects before the j-th write of initializePIC.     *)
expectedOf1 == <<0, 2, 2, 3, 3, 4, 4, 0, 0, 0, 0>>
expectedOf2 == <<0, 0, 2, 2, 3, 3, 4, 4, 0, 0, 0>>

(* What the writes before the j-th have made of the controllers.            *)
Reached(controllers, j) ==
  /\ controllers.expect[1] = expectedOf1[j] /\ controllers.expect[2] = expectedOf2[j]
  /\ j > 3 => controllers.base[1] = PIC_1_OFFSET
  /\ j > 4 => controllers.base[2] = PIC_2_OFFSET
  /\ controllers.base[2] \in {firmware.base[2], 0, PIC_2_OFFSET}
  /\ j \notin 2..9 => controllers.imr[1] = firmware.mask[1]
  /\ j \notin 3..10 => controllers.imr[2] = firmware.mask[2]

Untouched ==
  main \in Unprogrammed =>
    /\ pic.imr = firmware.mask /\ pic.base = firmware.base
    /\ pic.expect = <<0, 0>> /\ k = 1

Underway ==
  main = "initializePIC" => masks = firmware.mask /\ k \in 1..10 /\ Reached(pic, k)

(* Before lidt no handler of the kernel runs, and the flag is the firmware's. *)
FirmwaresTurn ==
  /\ main \in Early => stack = << >>
  /\ main \in {"initializeGDT", "lidt"} => IF_flag = firmware.flag
  /\ main = "reset" => IF_flag = FALSE

keyboardServed == stack # << >> /\ stack[1].handler = "keyboardHandler"

(* The keyboard's handler is entered through an interrupt gate; all others  *)
(* never return.  So it runs alone if it runs on kernel_main.               *)
ServedAlone == keyboardServed => ~IF_flag /\ Len(stack) = 1 /\ stack[1].at # "loop"
StuckForGood == stack # << >> /\ ~keyboardServed => stack[1].at \in {"debugPrint", "loop"}

(* What it still has to acknowledge: one line of each controller at most.   *)
InService ==
  keyboardServed =>
    /\ stack[1].at \in {"debugPrint", "picEnd1"} =>
         \E s, t \in Int : chipOf(s) = 1 /\ chipOf(t) = 2 /\ pic.isr \subseteq {s, t}
    /\ stack[1].at = "picEnd2" => \E t \in Int : chipOf(t) = 2 /\ pic.isr \subseteq {t}
    /\ stack[1].at = "iret" => pic.isr = {}

(* A firmware that has not left the second controller on vectors the kernel *)
(* has put its timer and its keyboard on.                                   *)
BasesApart ==
  \A base \in FirmwareBases, line \in Lines :
    line >= 8 => base[2] + (line % 8) \notin {IRQ0, IRQ1}

HandlersOwn ==
  /\ firmware.base \in FirmwareBases
  /\ BasesApart => WrongHandlerOnlyBeforeOffset

IInv ==
  /\ TypesOK
  /\ Untouched
  /\ Underway
  /\ FirmwaresTurn
  /\ ServedAlone
  /\ StuckForGood
  /\ InService
  /\ NothingLeftInService
  /\ ControllersProgrammed
  /\ MaskedServedOnlyInWindow
  /\ HandlersOwn
  /\ ResetOnlyIfInterruptsLeftOn

LEMMA Acknowledge ==
  ASSUME pic \in Controllers, NEW c \in {1, 2}, outb(command(c, PIC_ACKNOWLEDGE))
  PROVE  /\ pic' \in Controllers
         /\ pic'.imr = pic.imr /\ pic'.base = pic.base /\ pic'.expect = pic.expect
         /\ pic'.irr = pic.irr
         /\ pic'.isr = { s \in pic.isr : chipOf(s) = c =>
                           \E t \in pic.isr : chipOf(t) = c /\ t < s }
  BY DEF outb, command, PIC_ACKNOWLEDGE, ICW1_INIT, Controllers, Pair

LEMMA PairUpdate ==
  ASSUME NEW p \in Pair, NEW c \in {1, 2}, NEW v \in Int
  PROVE  /\ [p EXCEPT ![c] = v] \in Pair
         /\ [p EXCEPT ![c] = v][c] = v
         /\ \A d \in {1, 2} \ {c} : [p EXCEPT ![c] = v][d] = p[d]
  BY DEF Pair

LEMMA Initialization ==
  ASSUME pic \in Controllers, NEW c \in {1, 2}, outb(command(c, ICW1_INIT))
  PROVE  /\ pic' \in Controllers
         /\ pic'.imr = [pic.imr EXCEPT ![c] = 0]
         /\ pic'.expect = [pic.expect EXCEPT ![c] = 2]
         /\ \E base \in Int :
              /\ base \in {pic.base[c], 0}
              /\ pic'.base = [pic.base EXCEPT ![c] = base]
<1>1. PICK base \in {pic.base[c], 0} :
        pic' = [pic EXCEPT !.irr = @ \ chip(c), !.isr = @ \ chip(c), !.imr[c] = 0,
                           !.base[c] = base, !.expect[c] = 2]
  BY DEF outb, command, ICW1_INIT, PIC_ACKNOWLEDGE
<1>2. base \in Int
  BY DEF Controllers, Pair
<1>3. pic' = [irr |-> pic.irr \ chip(c), isr |-> pic.isr \ chip(c),
              imr |-> [pic.imr EXCEPT ![c] = 0], base |-> [pic.base EXCEPT ![c] = base],
              expect |-> [pic.expect EXCEPT ![c] = 2]]
  BY <1>1 DEF Controllers
<1>4. QED
  BY <1>2, <1>3, PairUpdate DEF Controllers

LEMMA Mask ==
  ASSUME pic \in Controllers, NEW c \in {1, 2}, NEW v \in Int, pic.expect[c] = 0, outb(data(c, v))
  PROVE  /\ pic' \in Controllers
         /\ pic'.imr = [pic.imr EXCEPT ![c] = v]
         /\ pic'.expect = pic.expect /\ pic'.base = pic.base
<1> DEFINE w == data(c, v)
<1>a. w.chip = c /\ w.port = "data" /\ w.value = v
  BY DEF data
<1>b. outb(w)
  OBVIOUS
<1> HIDE DEF w
<1>1. pic' = [pic EXCEPT !.imr[c] = v]
  BY <1>a, <1>b DEF outb
<1>2. pic' = [pic EXCEPT !.imr = [pic.imr EXCEPT ![c] = v]]
  BY <1>1 DEF Controllers
<1>3. QED
  BY <1>2, PairUpdate DEF Controllers

LEMMA Offset ==
  ASSUME pic \in Controllers, NEW c \in {1, 2}, NEW v \in Int, pic.expect[c] = 2, outb(data(c, v))
  PROVE  /\ pic' \in Controllers
         /\ pic'.base = [pic.base EXCEPT ![c] = v]
         /\ pic'.expect = [pic.expect EXCEPT ![c] = 3]
         /\ pic'.imr = pic.imr
<1> DEFINE w == data(c, v)
<1>a. w.chip = c /\ w.port = "data" /\ w.value = v
  BY DEF data
<1>b. outb(w)
  OBVIOUS
<1> HIDE DEF w
<1>1. pic' = [pic EXCEPT !.base[c] = v, !.expect[c] = 3]
  BY <1>a, <1>b DEF outb
<1>2. pic' = [irr |-> pic.irr, isr |-> pic.isr, imr |-> pic.imr,
              base |-> [pic.base EXCEPT ![c] = v], expect |-> [pic.expect EXCEPT ![c] = 3]]
  BY <1>1 DEF Controllers
<1>3. QED
  BY <1>2, PairUpdate DEF Controllers

LEMMA Mode ==
  ASSUME pic \in Controllers, NEW c \in {1, 2}, NEW v \in Int, pic.expect[c] \in {3, 4},
         outb(data(c, v))
  PROVE  /\ pic' \in Controllers
         /\ pic'.expect = [pic.expect EXCEPT ![c] = (pic.expect[c] + 1) % 5]
         /\ pic'.imr = pic.imr /\ pic'.base = pic.base
<1> DEFINE w == data(c, v)
<1>a. w.chip = c /\ w.port = "data" /\ w.value = v
  BY DEF data
<1>b. outb(w)
  OBVIOUS
<1> HIDE DEF w
<1>1. pic' = [pic EXCEPT !.expect[c] = (@ + 1) % 5]
  BY <1>a, <1>b DEF outb
<1>2. pic' = [pic EXCEPT !.expect = [pic.expect EXCEPT ![c] = (pic.expect[c] + 1) % 5]]
  BY <1>1 DEF Controllers
<1>3. (pic.expect[c] + 1) % 5 \in Int
  OBVIOUS
<1>4. QED
  BY <1>2, <1>3, PairUpdate DEF Controllers

(* The ten writes of initializePIC, one by one. *)
LEMMA Writes ==
  /\ initializePIC[1] = command(1, ICW1_INIT) /\ initializePIC[2] = command(2, ICW1_INIT)
  /\ initializePIC[3] = data(1, PIC_1_OFFSET) /\ initializePIC[4] = data(2, PIC_2_OFFSET)
  /\ initializePIC[5] = data(1, 4) /\ initializePIC[6] = data(2, 2)
  /\ initializePIC[7] = data(1, ICW4_8086) /\ initializePIC[8] = data(2, ICW4_8086)
  /\ initializePIC[9] = data(1, masks[1]) /\ initializePIC[10] = data(2, masks[2])
  /\ Len(initializePIC) = 10
  BY DEF initializePIC

(* The masks of two controllers that agree on a line's controller.          *)
LEMMA SameMask ==
  ASSUME NEW m, NEW n, NEW line, m[chipOf(line)] = n[chipOf(line)]
  PROVE  masked(m, line) = masked(n, line)
  BY DEF masked

LEMMA Gates ==
  ASSUME NEW vector
  PROVE  /\ gateOf(vector).handler \in Handlers
         /\ gateOf(vector).handler = "keyboardHandler" => gateOf(vector).type = INTERRUPT_GATE
<1> DEFINE Good(g) ==
      g.handler \in Handlers /\ (g.handler = "keyboardHandler" => g.type = INTERRUPT_GATE)
<1>1. /\ Good(gate("timerHandler", INTERRUPT_GATE))
      /\ Good(gate("keyboardHandler", INTERRUPT_GATE))
      /\ Good(gate("exceptionHandler", TRAP_GATE))
  BY DEF gate, Handlers
<1> HIDE DEF Good
<1>2. ASSUME NEW v \in DOMAIN idt PROVE Good(idt[v])
  <2>1. CASE v = IRQ0
    BY <1>1, <2>1 DEF idt
  <2>2. CASE v = IRQ1
    BY <1>1, <2>2 DEF idt, IRQ0, IRQ1
  <2>3. CASE v # IRQ0 /\ v # IRQ1
    BY <1>1, <2>3 DEF idt
  <2>4. QED
    BY <2>1, <2>2, <2>3
<1>3. GP \in DOMAIN idt
  BY DEF idt, GP, Exceptions
<1>4. Good(gateOf(vector))
  BY <1>2, <1>3 DEF gateOf
<1>5. QED
  BY <1>4 DEF Good

LEMMA HandlerOf ==
  ASSUME NEW vector
  PROVE  gateOf(vector).handler =
           CASE vector = IRQ0 -> "timerHandler"
             [] vector = IRQ1 -> "keyboardHandler"
             [] OTHER         -> "exceptionHandler"
<1>1. /\ IRQ0 \in DOMAIN idt /\ IRQ1 \in DOMAIN idt /\ GP \in DOMAIN idt
      /\ GP # IRQ0 /\ GP # IRQ1 /\ IRQ0 # IRQ1
  BY DEF idt, GP, IRQ0, IRQ1, Exceptions
<1>2. \A v \in DOMAIN idt :
        idt[v].handler = CASE v = IRQ0 -> "timerHandler"
                           [] v = IRQ1 -> "keyboardHandler"
                           [] OTHER    -> "exceptionHandler"
  BY <1>1 DEF idt, gate
<1> QED
  BY <1>1, <1>2 DEF gateOf

LEMMA InitOK == Init => IInv
<1> SUFFICES ASSUME Init PROVE IInv
  OBVIOUS
<1>1. firmware \in [mask : Pair, base : Pair, flag : BOOLEAN]
  <2>1. FirmwareMasks \subseteq Pair /\ FirmwareBases \subseteq Pair
    BY FirmwareAssumption DEF Pair
  <2>2. QED
    BY <2>1 DEF Init
<1>2. TypesOK
  BY <1>1 DEF Init, TypesOK, Controllers, Pair, Unprogrammed, Early
<1>3. Untouched /\ Underway /\ FirmwaresTurn
  BY DEF Init, Untouched, Underway, FirmwaresTurn
<1>4. ServedAlone /\ StuckForGood /\ InService /\ NothingLeftInService
  BY DEF Init, keyboardServed, ServedAlone, StuckForGood, InService, NothingLeftInService
<1>5. ControllersProgrammed /\ MaskedServedOnlyInWindow /\ ResetOnlyIfInterruptsLeftOn
  BY DEF Init, ControllersProgrammed, MaskedServedOnlyInWindow, ResetOnlyIfInterruptsLeftOn
<1>h. HandlersOwn
  BY DEF Init, HandlersOwn, WrongHandlerOnlyBeforeOffset
<1>6. QED
  BY <1>2, <1>3, <1>4, <1>5, <1>h DEF IInv

(* A write of initializePIC takes the controllers from one stage to the next. *)
LEMMA Write ==
  ASSUME IInv, main = "initializePIC", outb(initializePIC[k])
  PROVE  pic' \in Controllers /\ Reached(pic', k + 1)
<1> USE DEF Reached, expectedOf1, expectedOf2
<1>0. /\ pic \in Controllers /\ k \in 1..10 /\ Reached(pic, k) /\ masks = firmware.mask
      /\ firmware.mask \in Pair /\ pic.imr \in Pair /\ pic.base \in Pair /\ pic.expect \in Pair
  BY DEF IInv, TypesOK, Underway, Controllers
<1>1. CASE k \in 1..2
  <2>1. PICK c \in {1, 2} : k = c /\ outb(command(c, ICW1_INIT))
    BY <1>1, Writes
  <2>2. PICK base \in Int :
          /\ pic' \in Controllers
          /\ pic'.imr = [pic.imr EXCEPT ![c] = 0]
          /\ pic'.expect = [pic.expect EXCEPT ![c] = 2]
          /\ base \in {pic.base[c], 0}
          /\ pic'.base = [pic.base EXCEPT ![c] = base]
    BY <1>0, <2>1, Initialization
  <2>3. QED
    BY <1>0, <1>1, <2>1, <2>2, PairUpdate
<1>2. CASE k \in 3..4
  <2>1. PICK c \in {1, 2} :
          /\ k = c + 2
          /\ outb(data(c, IF c = 1 THEN PIC_1_OFFSET ELSE PIC_2_OFFSET))
    BY <1>2, Writes
  <2>2. /\ pic' \in Controllers
        /\ pic'.base = [pic.base EXCEPT ![c] = IF c = 1 THEN PIC_1_OFFSET ELSE PIC_2_OFFSET]
        /\ pic'.expect = [pic.expect EXCEPT ![c] = 3]
        /\ pic'.imr = pic.imr
    BY <1>0, <2>1, Offset DEF PIC_1_OFFSET, PIC_2_OFFSET
  <2>3. QED
    BY <1>0, <1>2, <2>1, <2>2, PairUpdate DEF PIC_1_OFFSET, PIC_2_OFFSET
<1>3. CASE k \in 5..8
  <2>1. PICK c \in {1, 2}, v \in Int : k \in {c + 4, c + 6} /\ outb(data(c, v))
    BY <1>3, Writes DEF ICW4_8086
  <2>2. pic.expect[c] = IF k < 7 THEN 3 ELSE 4
    BY <1>0, <1>3, <2>1
  <2>3. /\ pic' \in Controllers
        /\ pic'.expect = [pic.expect EXCEPT ![c] = (pic.expect[c] + 1) % 5]
        /\ pic'.imr = pic.imr /\ pic'.base = pic.base
    BY <1>0, <2>1, <2>2, Mode
  <2>4. (pic.expect[c] + 1) % 5 = IF k < 7 THEN 4 ELSE 0
    BY <2>2
  <2>5. QED
    BY <1>0, <1>3, <2>1, <2>3, <2>4, PairUpdate
<1>4. CASE k \in 9..10
  <2>1. PICK c \in {1, 2} : k = c + 8 /\ outb(data(c, firmware.mask[c]))
    BY <1>0, <1>4, Writes
  <2>2. firmware.mask[c] \in Int /\ pic.expect[c] = 0
    BY <1>0, <1>4, <2>1 DEF Pair
  <2>3. /\ pic' \in Controllers
        /\ pic'.imr = [pic.imr EXCEPT ![c] = firmware.mask[c]]
        /\ pic'.expect = pic.expect /\ pic'.base = pic.base
    BY <1>0, <2>1, <2>2, Mask
  <2>4. QED
    BY <1>0, <1>4, <2>1, <2>2, <2>3, PairUpdate
<1>5. QED
  BY <1>0, <1>1, <1>2, <1>3, <1>4

(* Entering a handler puts a frame with its line on the stack. *)
LEMMA Entered ==
  ASSUME TypesOK, NEW vector, NEW line \in Int, enter(vector, line)
  PROVE  /\ stack' \in Seq(Frame) /\ IF_flag' \in BOOLEAN
         /\ \A n \in DOMAIN stack' :
              \/ stack'[n].line = line /\ stack'[n].handler = gateOf(vector).handler
              \/ n \in DOMAIN stack /\ stack'[n] = stack[n]
         /\ Len(stack') = Len(stack) + 1 /\ stack' # << >>
         /\ stack # << >> => stack'[1] = stack[1]
         /\ stack = << >> =>
              /\ stack'[1].at = "debugPrint"
              /\ stack'[1].handler = "keyboardHandler" => ~IF_flag'
<1> DEFINE g == gateOf(vector)
           f == [handler |-> g.handler, line |-> line, at |-> "debugPrint", flag |-> IF_flag]
<1>1. /\ g.handler \in Handlers
      /\ g.handler = "keyboardHandler" => g.type # TRAP_GATE
  BY Gates DEF INTERRUPT_GATE, TRAP_GATE
<1>2. IF_flag \in BOOLEAN /\ stack \in Seq(Frame)
  BY DEF TypesOK
<1>3. f \in Frame /\ f.line = line /\ f.at = "debugPrint" /\ f.handler = g.handler
  BY <1>1, <1>2, Zenon DEF Frame, Labels
<1>4. stack' = Append(stack, f) /\ IF_flag' = (IF_flag /\ g.type = TRAP_GATE)
  BY DEF enter
<1> HIDE DEF f, g
<1>5. IF_flag' \in BOOLEAN /\ (g.handler = "keyboardHandler" => ~IF_flag')
  BY <1>1, <1>4
<1>6. stack = << >> => stack' = <<f>>
  BY <1>3, <1>4
<1>8. \A n \in DOMAIN stack' : stack'[n] = f \/ (n \in DOMAIN stack /\ stack'[n] = stack[n])
  BY <1>2, <1>3, <1>4
<1>9. \A n \in DOMAIN stack' :
        \/ stack'[n].line = line /\ stack'[n].handler = g.handler
        \/ n \in DOMAIN stack /\ stack'[n] = stack[n]
  BY <1>3, <1>8
<1>10. /\ stack' \in Seq(Frame) /\ Len(stack') = Len(stack) + 1 /\ stack' # << >>
       /\ stack # << >> => stack'[1] = stack[1]
  BY <1>2, <1>3, <1>4
<1>11. stack = << >> =>
         /\ stack'[1].at = "debugPrint"
         /\ stack'[1].handler = "keyboardHandler" => ~IF_flag'
  BY <1>3, <1>5, <1>6
<1>7. QED
  BY <1>5, <1>9, <1>10, <1>11 DEF g

SameInterrupt(f, g) == f.line = g.line /\ f.handler = g.handler

(* What a handler does changes no line on the stack, and pops one frame at most. *)
LEMMA Handled ==
  ASSUME TypesOK, stack # << >>,
         \/ \E label \in Labels : goto(label)
         \/ stack' = SubSeq(stack, 1, Len(stack) - 1)
  PROVE  /\ stack' \in Seq(Frame)
         /\ \A n \in DOMAIN stack' :
              n \in DOMAIN stack /\ SameInterrupt(stack'[n], stack[n])
<1>1. stack \in Seq(Frame) /\ Len(stack) \in Nat \ {0} /\ stack[Len(stack)] \in Frame
  BY DEF TypesOK
<1>2. ASSUME NEW label \in Labels, goto(label)
      PROVE  /\ stack' \in Seq(Frame)
             /\ \A n \in DOMAIN stack' :
                  n \in DOMAIN stack /\ SameInterrupt(stack'[n], stack[n])
  <2> DEFINE f == [stack[Len(stack)] EXCEPT !.at = label]
  <2>1. f \in Frame /\ SameInterrupt(f, stack[Len(stack)])
    BY <1>1 DEF Frame, SameInterrupt
  <2>2. stack' = [stack EXCEPT ![Len(stack)] = f]
    BY <1>2 DEF goto
  <2> HIDE DEF f
  <2>3. QED
    BY <1>1, <2>1, <2>2 DEF SameInterrupt
<1>3. ASSUME stack' = SubSeq(stack, 1, Len(stack) - 1)
      PROVE  /\ stack' \in Seq(Frame)
             /\ \A n \in DOMAIN stack' :
                  n \in DOMAIN stack /\ SameInterrupt(stack'[n], stack[n])
  BY <1>1, <1>3 DEF SameInterrupt
<1>4. QED
  BY <1>2, <1>3

(* The steps that leave the stack, the main program and what decides on     *)
(* masks alone: a device raises its line.                                   *)
LEMMA RaiseStep == ASSUME IInv, NEW line \in Lines, Raise(line) PROVE IInv'
<1>1. /\ pic \in Controllers /\ line \in Int
  BY LinesAssumption DEF IInv, TypesOK
<1>2. pic' = [pic EXCEPT !.irr = @ \cup {line}]
  BY DEF Raise
<1>3. /\ pic' \in Controllers /\ pic.irr \subseteq pic'.irr
      /\ pic'.imr = pic.imr /\ pic'.isr = pic.isr
      /\ pic'.base = pic.base /\ pic'.expect = pic.expect
  BY <1>1, <1>2 DEF Controllers
<1>4. UNCHANGED <<firmware, IF_flag, main, k, masks, stack>>
  BY DEF Raise
<1>5. TypesOK'
  BY <1>3, <1>4 DEF IInv, TypesOK
<1>6. (Untouched /\ Underway /\ FirmwaresTurn /\ ControllersProgrammed)'
  BY <1>3, <1>4 DEF IInv, Untouched, Underway, Reached, FirmwaresTurn, ControllersProgrammed
<1>7. (ServedAlone /\ StuckForGood /\ InService /\ NothingLeftInService)'
  BY <1>3, <1>4 DEF IInv, keyboardServed, ServedAlone, StuckForGood, InService,
     NothingLeftInService
<1>8. (MaskedServedOnlyInWindow /\ HandlersOwn /\ ResetOnlyIfInterruptsLeftOn)'
  BY <1>3, <1>4 DEF IInv, MaskedServedOnlyInWindow, HandlersOwn, WrongHandlerOnlyBeforeOffset,
     ResetOnlyIfInterruptsLeftOn
<1>9. QED
  BY <1>5, <1>6, <1>7, <1>8 DEF IInv

(* The firmware serves an interrupt, or the machine resets on it. *)
LEMMA FirmwareStep == ASSUME IInv, NEW line \in Lines, FirmwareInterrupt(line) PROVE IInv'
<1> USE DEF Early, Unprogrammed, Programmed
<1>1. /\ pic \in Controllers /\ main \in {"initializeGDT", "lidt"} /\ stack = << >>
      /\ pic.imr = firmware.mask /\ IF_flag = firmware.flag
  BY DEF IInv, TypesOK, FirmwareInterrupt, firmwaresIDT, Untouched, FirmwaresTurn
<1>2. UNCHANGED <<firmware, k, masks, stack>>
  BY DEF FirmwareInterrupt
<1>3. IF_flag /\ line \in pic.irr /\ ~masked(pic.imr, line)
  BY DEF FirmwareInterrupt, accepted, deliverable
<1>4. CASE pic' = [pic EXCEPT !.irr = @ \ {line}] /\ UNCHANGED <<main, IF_flag>>
  <2>1. /\ pic' \in Controllers
        /\ pic'.imr = pic.imr /\ pic'.isr = pic.isr
        /\ pic'.base = pic.base /\ pic'.expect = pic.expect
    BY <1>1, <1>4 DEF Controllers
  <2>2. TypesOK'
    BY <1>2, <1>4, <2>1 DEF IInv, TypesOK
  <2>3. (Untouched /\ Underway /\ FirmwaresTurn /\ ControllersProgrammed)'
    BY <1>1, <1>2, <1>4, <2>1 DEF IInv, Untouched, Underway, FirmwaresTurn, ControllersProgrammed
  <2>4. (ServedAlone /\ StuckForGood /\ InService /\ NothingLeftInService)'
    BY <1>1, <1>2, <2>1 DEF IInv, keyboardServed, ServedAlone, StuckForGood, InService,
       NothingLeftInService
  <2>5. (MaskedServedOnlyInWindow /\ HandlersOwn /\ ResetOnlyIfInterruptsLeftOn)'
    BY <1>1, <1>2, <1>4 DEF IInv, MaskedServedOnlyInWindow, HandlersOwn,
       WrongHandlerOnlyBeforeOffset, ResetOnlyIfInterruptsLeftOn
  <2>6. QED
    BY <2>2, <2>3, <2>4, <2>5 DEF IInv
<1>5. CASE main = "lidt" /\ main' = "reset" /\ IF_flag' = FALSE /\ UNCHANGED pic
  <2>1. TypesOK'
    BY <1>2, <1>5 DEF IInv, TypesOK
  <2>2. (Untouched /\ Underway /\ FirmwaresTurn /\ ControllersProgrammed)'
    BY <1>1, <1>2, <1>5 DEF IInv, Untouched, Underway, FirmwaresTurn, ControllersProgrammed
  <2>3. (ServedAlone /\ StuckForGood /\ InService /\ NothingLeftInService)'
    BY <1>1, <1>2, <1>5 DEF IInv, keyboardServed, ServedAlone, StuckForGood, InService,
       NothingLeftInService
  <2>4. (MaskedServedOnlyInWindow /\ HandlersOwn)'
    BY <1>1, <1>2 DEF IInv, MaskedServedOnlyInWindow, HandlersOwn, WrongHandlerOnlyBeforeOffset
  <2>5. ResetOnlyIfInterruptsLeftOn'
    BY <1>1, <1>2, <1>3, <1>5 DEF ResetOnlyIfInterruptsLeftOn
  <2>6. QED
    BY <2>1, <2>2, <2>3, <2>4, <2>5 DEF IInv
<1>6. QED
  BY <1>4, <1>5 DEF FirmwareInterrupt

(* A handler of the kernel is entered. *)
LEMMA InterruptStep == ASSUME IInv, NEW line \in Lines, Interrupt(line) PROVE IInv'
<1> DEFINE vector == pic.base[chipOf(line)] + (line % 8)
           served == {line} \cup (IF line >= 8 THEN {2} ELSE {})
<1>0. line \in Int
  BY LinesAssumption
<1>t. TypesOK /\ pic \in Controllers
  BY DEF IInv, TypesOK
<1>1. IF_flag /\ main \in {"sti", "saveMasks", "initializePIC"} \cup Programmed
  BY DEF IInv, TypesOK, FirmwaresTurn, Interrupt, firmwaresIDT, accepted, Unprogrammed, Early
<1>2. ~masked(pic.imr, line)
  BY DEF Interrupt, accepted, deliverable
<1>3. enter(vector, line) /\ UNCHANGED <<firmware, main, k, masks>>
  BY DEF Interrupt
<1>4. pic' = [pic EXCEPT !.irr = @ \ {line}, !.isr = @ \cup served]
  BY DEF Interrupt
<1>5. /\ stack' \in Seq(Frame) /\ IF_flag' \in BOOLEAN
      /\ \A n \in DOMAIN stack' :
           \/ stack'[n].line = line /\ stack'[n].handler = gateOf(vector).handler
           \/ n \in DOMAIN stack /\ stack'[n] = stack[n]
      /\ Len(stack') = Len(stack) + 1
      /\ stack # << >> => stack'[1] = stack[1]
      /\ stack = << >> =>
           /\ stack'[1].at = "debugPrint"
           /\ stack'[1].handler = "keyboardHandler" => ~IF_flag'
  BY <1>0, <1>t, <1>3, Entered
<1>v. vector = pic.base[chipOf(line)] + (line % 8)
  OBVIOUS
<1> HIDE DEF vector
<1>s. served \subseteq Int
  BY <1>0
<1> HIDE DEF served
<1>6. /\ pic' \in Controllers /\ pic'.isr = pic.isr \cup served
      /\ pic'.imr = pic.imr /\ pic'.base = pic.base /\ pic'.expect = pic.expect
  BY <1>s, <1>t, <1>4 DEF Controllers
<1>7. stack \in Seq(Frame) /\ stack' # << >>
  BY <1>t, <1>5 DEF TypesOK
<1>8. TypesOK'
  BY <1>t, <1>3, <1>5, <1>6 DEF TypesOK
<1>9. (Untouched /\ Underway /\ FirmwaresTurn /\ ControllersProgrammed)'
  BY <1>1, <1>3, <1>6 DEF Unprogrammed, Early, Programmed, IInv, Untouched, Underway, Reached, FirmwaresTurn,
     ControllersProgrammed
<1>10. (ServedAlone /\ StuckForGood /\ InService /\ NothingLeftInService)'
  <2>1. CASE stack = << >>
    <3>1. pic.isr = {}
      BY <2>1 DEF IInv, NothingLeftInService
    <3>2. \E s, t \in Int : chipOf(s) = 1 /\ chipOf(t) = 2 /\ pic'.isr \subseteq {s, t}
      <4>1. CASE line < 8
        <5>1. chipOf(line) = 1 /\ chipOf(8) = 2 /\ pic'.isr \subseteq {line, 8}
          BY <1>0, <1>6, <3>1, <4>1 DEF chipOf, served
        <5>2. QED
          BY <1>0, <5>1
      <4>2. CASE line >= 8
        <5>1. chipOf(2) = 1 /\ chipOf(line) = 2 /\ pic'.isr \subseteq {2, line}
          BY <1>0, <1>6, <3>1, <4>2 DEF chipOf, served
        <5>2. QED
          BY <1>0, <5>1
      <4>3. QED
        BY <1>0, <4>1, <4>2
    <3>3. Len(stack') = 1
      BY <1>5, <2>1
    <3>4. QED
      BY <1>5, <1>7, <2>1, <3>2, <3>3 DEF keyboardServed, ServedAlone, StuckForGood, InService,
         NothingLeftInService
  <2>2. CASE stack # << >>
    <3>1. ~keyboardServed
      BY <1>1 DEF IInv, ServedAlone
    <3>2. QED
      BY <1>5, <1>7, <2>2, <3>1 DEF IInv, keyboardServed, ServedAlone, StuckForGood, InService,
         NothingLeftInService
  <2>3. QED
    BY <2>1, <2>2
<1>11. MaskedServedOnlyInWindow'
  <2> DEFINE window(l) ==
        main = "initializePIC" /\ k \in (chipOf(l) + 1)..(chipOf(l) + 8)
  <2>1. ASSUME ~window(line) PROVE ~masked(firmware.mask, line)
    <3>1. firmware.mask \in Pair /\ pic.imr \in Pair /\ chipOf(line) \in {1, 2} /\ k \in Nat
      BY <1>0, <1>t DEF TypesOK, Controllers, chipOf
    <3>2. pic.imr[chipOf(line)] = firmware.mask[chipOf(line)]
      <4>1. CASE main \in {"sti", "saveMasks"}
        BY <4>1 DEF IInv, Untouched, Unprogrammed
      <4>2. CASE main = "initializePIC"
        BY <2>1, <3>1, <4>2 DEF IInv, Underway, Reached
      <4>3. CASE main \in Programmed
        BY <4>3 DEF IInv, ControllersProgrammed, Programmed
      <4>4. QED
        BY <1>1, <4>1, <4>2, <4>3
    <3>3. QED
      BY <1>2, <3>2, SameMask
  <2>2. \A n \in DOMAIN stack :
          stack[n].line # NoLine /\ masked(firmware.mask, stack[n].line) => window(stack[n].line)
    BY DEF IInv, MaskedServedOnlyInWindow
  <2>3. \A n \in DOMAIN stack' :
          stack'[n].line # NoLine /\ masked(firmware.mask, stack'[n].line)
            => window(stack'[n].line)
    BY <1>5, <2>1, <2>2
  <2>4. QED
    BY <1>3, <2>3 DEF MaskedServedOnlyInWindow
<1>h. HandlersOwn'
  <2> DEFINE window == main \in {"sti", "saveMasks"} \/ (main = "initializePIC" /\ k <= 3)
  <2>1. firmware'.base \in FirmwareBases
    BY <1>3 DEF IInv, HandlersOwn
  <2>2. ASSUME BasesApart, ~window PROVE gateOf(vector).handler = ownHandler(line)
    <3>1. /\ pic.base[1] = PIC_1_OFFSET
          /\ pic.base[2] \in {firmware.base[2], 0, PIC_2_OFFSET}
      <4>1. CASE main = "initializePIC"
        BY <1>t, <2>2, <4>1 DEF IInv, TypesOK, Underway, Reached
      <4>2. CASE main \in Programmed
        BY <4>2 DEF IInv, ControllersProgrammed, Programmed
      <4> QED
        BY <1>1, <2>2, <4>1, <4>2
    <3>2. line \in (0..15) \ {2}
      BY LinesAssumption
    <3>3. firmware.base \in FirmwareBases /\ firmware.base[2] \in Int
      BY <1>t DEF IInv, HandlersOwn, TypesOK, Pair
    <3>4. CASE line < 8
      <4>1. chipOf(line) = 1 /\ line % 8 = line
        BY <3>2, <3>4 DEF chipOf
      <4>2. vector = 32 + line
        BY <1>v, <3>1, <4>1 DEF PIC_1_OFFSET
      <4>3. (vector = IRQ0 <=> line = 0) /\ (vector = IRQ1 <=> line = 1)
        BY <3>2, <4>2 DEF IRQ0, IRQ1
      <4> QED
        BY <4>3, HandlerOf DEF ownHandler
    <3>5. CASE line >= 8
      <4>1. chipOf(line) = 2 /\ (line % 8) \in 0..7
        BY <3>2, <3>5 DEF chipOf
      <4>2. firmware.base[2] + (line % 8) \notin {IRQ0, IRQ1}
        BY <2>2, <3>3, <3>5 DEF BasesApart
      <4>3. vector \notin {IRQ0, IRQ1}
        BY <1>v, <3>1, <4>1, <4>2 DEF PIC_2_OFFSET, IRQ0, IRQ1
      <4> QED
        BY <3>2, <3>5, <4>3, HandlerOf DEF ownHandler
    <3> QED
      BY <3>2, <3>4, <3>5
  <2> HIDE DEF window
  <2>3. ASSUME BasesApart, NEW n \in DOMAIN stack', stack'[n].line # NoLine,
               stack'[n].handler # ownHandler(stack'[n].line)
        PROVE  window
    <3>1. CASE stack'[n].line = line /\ stack'[n].handler = gateOf(vector).handler
      BY <2>2, <2>3, <3>1
    <3>2. CASE n \in DOMAIN stack /\ stack'[n] = stack[n]
      BY <2>3, <3>2 DEF IInv, HandlersOwn, WrongHandlerOnlyBeforeOffset, window
    <3> QED
      BY <1>5, <3>1, <3>2
  <2> QED
    BY <1>3, <2>1, <2>3 DEF HandlersOwn, WrongHandlerOnlyBeforeOffset, window
<1>12. ResetOnlyIfInterruptsLeftOn'
  BY <1>1, <1>3 DEF Programmed, ResetOnlyIfInterruptsLeftOn
<1>13. QED
  BY <1>8, <1>9, <1>10, <1>11, <1>h, <1>12 DEF IInv

(* No write puts a line in service. *)
LEMMA StaysIdle ==
  ASSUME pic \in Controllers, pic.isr = {}, NEW w, outb(w)
  PROVE  pic'.isr = {}
<1>1. CASE /\ w.port = "command" /\ w.value = PIC_ACKNOWLEDGE
           /\ pic' = [pic EXCEPT !.isr = { s \in @ : chipOf(s) = w.chip =>
                                             \E t \in @ : chipOf(t) = w.chip /\ t < s }]
  BY <1>1 DEF Controllers
<1>2. CASE \E base :
             pic' = [pic EXCEPT !.irr = @ \ chip(w.chip), !.isr = @ \ chip(w.chip),
                                !.imr[w.chip] = 0, !.base[w.chip] = base, !.expect[w.chip] = 2]
  BY <1>2 DEF Controllers
<1>3. CASE pic' = [pic EXCEPT !.imr[w.chip] = w.value]
  BY <1>3 DEF Controllers
<1>4. CASE pic' = [pic EXCEPT !.base[w.chip] = w.value, !.expect[w.chip] = 3]
  BY <1>4 DEF Controllers
<1>5. CASE pic' = [pic EXCEPT !.expect[w.chip] = (@ + 1) % 5]
  BY <1>5 DEF Controllers
<1>6. QED
  BY <1>1, <1>2, <1>3, <1>4, <1>5 DEF outb

(* What holds of the stack and of resets when kernel_main has run. *)
LEMMA BetweenHandlers ==
  ASSUME IInv, KernelMain, stack' = << >>, pic'.isr = {}, main' # "reset"
  PROVE  (/\ ServedAlone /\ StuckForGood /\ InService /\ NothingLeftInService
          /\ MaskedServedOnlyInWindow /\ HandlersOwn /\ ResetOnlyIfInterruptsLeftOn)'
<1>1. UNCHANGED firmware
  BY DEF KernelMain, InitializeGDT, Lidt, Sti, SaveMasks, InitializePIC, DebugPrint,
     SoftwareInterrupt
<1>2. HandlersOwn'
  BY <1>1 DEF IInv, HandlersOwn, WrongHandlerOnlyBeforeOffset
<1> QED
  BY <1>2 DEF keyboardServed, ServedAlone, StuckForGood, InService, NothingLeftInService,
     MaskedServedOnlyInWindow, ResetOnlyIfInterruptsLeftOn

LEMMA KernelStep == ASSUME IInv, KernelMain PROVE IInv'
<1> USE DEF Early, Unprogrammed, Programmed
<1>t. TypesOK /\ pic \in Controllers
  BY DEF IInv, TypesOK
<1>0. stack = << >>
  BY DEF IInv, FirmwaresTurn, KernelMain, InitializeGDT, Lidt, Sti, SaveMasks, InitializePIC,
     DebugPrint, SoftwareInterrupt
<1>i. pic.isr = {}
  BY <1>0 DEF IInv, NothingLeftInService
<1>1. CASE InitializeGDT \/ Lidt
  <2>1. /\ UNCHANGED <<firmware, pic, IF_flag, k, masks, stack>>
        /\ \/ main = "initializeGDT" /\ main' = "lidt"
           \/ main = "lidt" /\ main' = "sti"
    BY <1>1 DEF InitializeGDT, Lidt
  <2>2. TypesOK'
    BY <1>t, <2>1 DEF TypesOK
  <2>3. (Untouched /\ Underway /\ FirmwaresTurn /\ ControllersProgrammed)'
    BY <2>1 DEF IInv, Untouched, Underway, FirmwaresTurn, ControllersProgrammed
  <2>4. QED
    BY <1>0, <1>i, <2>1, <2>2, <2>3, BetweenHandlers DEF IInv
<1>2. CASE Sti
  <2>1. TypesOK'
    BY <1>t, <1>2 DEF TypesOK, Sti
  <2>2. (Untouched /\ Underway /\ FirmwaresTurn /\ ControllersProgrammed)'
    BY <1>0, <1>2 DEF IInv, Untouched, Underway, FirmwaresTurn, ControllersProgrammed, Sti
  <2>3. stack' = << >> /\ pic'.isr = {} /\ main' # "reset"
    BY <1>0, <1>i, <1>2 DEF Sti
  <2>4. QED
    BY <2>1, <2>2, <2>3, BetweenHandlers DEF IInv
<1>3. CASE SaveMasks
  <2>1. TypesOK'
    BY <1>t, <1>3 DEF TypesOK, SaveMasks
  <2>2. (Untouched /\ Underway /\ FirmwaresTurn /\ ControllersProgrammed)'
    BY <1>0, <1>3 DEF IInv, Untouched, Underway, Reached, expectedOf1, expectedOf2,
       FirmwaresTurn, ControllersProgrammed, SaveMasks
  <2>3. stack' = << >> /\ pic'.isr = {} /\ main' # "reset"
    BY <1>0, <1>i, <1>3 DEF SaveMasks
  <2>4. QED
    BY <2>1, <2>2, <2>3, BetweenHandlers DEF IInv
<1>4. CASE InitializePIC
  <2>1. /\ main = "initializePIC" /\ k \in 1..10 /\ k' = k + 1
        /\ outb(initializePIC[k])
        /\ main' = IF k = 10 THEN "debugPrint" ELSE main
        /\ UNCHANGED <<firmware, IF_flag, masks, stack>>
    BY <1>4, Writes DEF IInv, Underway, InitializePIC
  <2>2. pic' \in Controllers /\ Reached(pic', k + 1)
    BY <2>1, Write
  <2>3. TypesOK'
    BY <1>t, <2>1, <2>2 DEF TypesOK
  <2>4. (Untouched /\ Underway /\ FirmwaresTurn)'
    BY <1>0, <2>1, <2>2 DEF IInv, Untouched, Underway, Reached, FirmwaresTurn
  <2>5. ControllersProgrammed'
    <3>1. CASE k = 10
      <4>1. /\ pic'.imr \in Pair /\ pic'.base \in Pair /\ pic'.expect \in Pair
            /\ firmware.mask \in Pair
        BY <1>t, <2>2 DEF TypesOK, Controllers
      <4>2. /\ pic'.imr[1] = firmware.mask[1] /\ pic'.imr[2] = firmware.mask[2]
            /\ pic'.base[1] = PIC_1_OFFSET /\ pic'.base[2] = PIC_2_OFFSET
            /\ pic'.expect[1] = 0 /\ pic'.expect[2] = 0
        BY <2>2, <3>1 DEF Reached, expectedOf1, expectedOf2
      <4>3. QED
        BY <2>1, <4>1, <4>2 DEF ControllersProgrammed, Pair
    <3>2. CASE k # 10
      BY <2>1, <3>2 DEF ControllersProgrammed
    <3>3. QED
      BY <3>1, <3>2
  <2>6. pic'.isr = {} /\ stack' = << >> /\ main' # "reset"
    BY <1>0, <1>t, <1>i, <2>1, StaysIdle
  <2>7. QED
    BY <2>3, <2>4, <2>5, <2>6, BetweenHandlers DEF IInv
<1>5. CASE DebugPrint
  <2>1. TypesOK'
    BY <1>t, <1>5 DEF TypesOK, DebugPrint
  <2>2. (Untouched /\ Underway /\ FirmwaresTurn /\ ControllersProgrammed)'
    BY <1>5 DEF IInv, Untouched, Underway, FirmwaresTurn, ControllersProgrammed, DebugPrint
  <2>3. stack' = << >> /\ pic'.isr = {} /\ main' # "reset"
    BY <1>0, <1>i, <1>5 DEF DebugPrint
  <2>4. QED
    BY <2>1, <2>2, <2>3, BetweenHandlers DEF IInv
<1>6. CASE SoftwareInterrupt
  <2>1. /\ enter(IRQ1, NoLine) /\ NoLine \in Int
        /\ main = "int" /\ main' = "hlt" /\ UNCHANGED <<firmware, pic, k, masks>>
    BY <1>6 DEF SoftwareInterrupt, NoLine
  <2>2. /\ stack' \in Seq(Frame) /\ IF_flag' \in BOOLEAN
        /\ \A n \in DOMAIN stack' : stack'[n].line = NoLine
        /\ Len(stack') = 1 /\ stack' # << >>
        /\ stack'[1].at = "debugPrint"
        /\ stack'[1].handler = "keyboardHandler" => ~IF_flag'
    BY <1>t, <1>0, <2>1, Entered
  <2>3. TypesOK'
    BY <1>t, <2>1, <2>2 DEF TypesOK
  <2>4. (Untouched /\ Underway /\ FirmwaresTurn /\ ControllersProgrammed)'
    BY <2>1 DEF IInv, Untouched, Underway, FirmwaresTurn, ControllersProgrammed
  <2>5. \E s, t \in Int : chipOf(s) = 1 /\ chipOf(t) = 2 /\ pic'.isr \subseteq {s, t}
    <3>1. chipOf(0) = 1 /\ chipOf(8) = 2 /\ pic'.isr = {}
      BY <1>i, <2>1 DEF chipOf
    <3>2. QED
      BY <3>1
  <2>6. (ServedAlone /\ StuckForGood /\ InService /\ NothingLeftInService)'
    BY <2>2, <2>5 DEF keyboardServed, ServedAlone, StuckForGood, InService,
       NothingLeftInService
  <2>7. (MaskedServedOnlyInWindow /\ HandlersOwn /\ ResetOnlyIfInterruptsLeftOn)'
    BY <2>1, <2>2 DEF IInv, MaskedServedOnlyInWindow, HandlersOwn,
       WrongHandlerOnlyBeforeOffset, ResetOnlyIfInterruptsLeftOn
  <2>8. QED
    BY <2>3, <2>4, <2>6, <2>7 DEF IInv
<1>7. QED
  BY <1>1, <1>2, <1>3, <1>4, <1>5, <1>6 DEF KernelMain

(* A handler's step leaves kernel_main, the masks and the vectors alone. *)
LEMMA BesideKernelMain ==
  ASSUME IInv, stack # << >>, UNCHANGED <<firmware, main, k, masks>>,
         pic' \in Controllers, pic'.imr = pic.imr, pic'.base = pic.base,
         pic'.expect = pic.expect, IF_flag' \in BOOLEAN, stack' \in Seq(Frame),
         \A n \in DOMAIN stack' :
              n \in DOMAIN stack /\ SameInterrupt(stack'[n], stack[n])
  PROVE  (/\ TypesOK /\ Untouched /\ Underway /\ FirmwaresTurn /\ ControllersProgrammed
          /\ MaskedServedOnlyInWindow /\ HandlersOwn /\ ResetOnlyIfInterruptsLeftOn)'
<1>1. main \notin Early
  BY DEF IInv, FirmwaresTurn
<1>2. TypesOK'
  BY DEF IInv, TypesOK
<1>3. (Untouched /\ Underway /\ ControllersProgrammed)'
  BY DEF IInv, Untouched, Underway, Reached, ControllersProgrammed
<1>4. (FirmwaresTurn /\ ResetOnlyIfInterruptsLeftOn)'
  BY <1>1 DEF FirmwaresTurn, ResetOnlyIfInterruptsLeftOn, Early
<1>5. MaskedServedOnlyInWindow'
  BY DEF IInv, MaskedServedOnlyInWindow, SameInterrupt
<1>h. HandlersOwn'
  BY DEF IInv, HandlersOwn, WrongHandlerOnlyBeforeOffset, SameInterrupt
<1>6. QED
  BY <1>2, <1>3, <1>4, <1>5, <1>h

(* A handler's next label: the frame below it, if there is one, stays. *)
LEMMA Advanced ==
  ASSUME TypesOK, stack # << >>, NEW label \in Labels, goto(label)
  PROVE  /\ stack' \in Seq(Frame) /\ stack' # << >> /\ Len(stack') = Len(stack)
         /\ stack'[1].handler = stack[1].handler
         /\ stack'[1].at = IF Len(stack) = 1 THEN label ELSE stack[1].at
<1>1. stack \in Seq(Frame) /\ Len(stack) \in Nat \ {0} /\ stack[Len(stack)] \in Frame
  BY DEF TypesOK
<1> DEFINE f == [stack[Len(stack)] EXCEPT !.at = label]
<1>2. f \in Frame /\ f.at = label /\ f.handler = stack[Len(stack)].handler
  BY <1>1 DEF Frame
<1>3. stack' = [stack EXCEPT ![Len(stack)] = f]
  BY DEF goto
<1> HIDE DEF f
<1>4. QED
  BY <1>1, <1>2, <1>3

(* Iret keeps the bottom frame if it pops another one. *)
LEMMA Popped ==
  ASSUME NEW S, NEW s \in Seq(S), NEW m \in Nat \ {0, 1}, Len(s) = m
  PROVE  SubSeq(s, 1, m - 1) # << >> /\ SubSeq(s, 1, m - 1)[1] = s[1]
<1>1. PICK n \in Nat : n = m - 1 /\ n > 0
  OBVIOUS
<1>2. /\ Len(SubSeq(s, 1, n)) = n
      /\ SubSeq(s, 1, n)[1] = s[1]
  BY <1>1
<1>3. SubSeq(s, 1, n) # << >>
  BY <1>1, <1>2, EmptySeq
<1>4. QED
  BY <1>1, <1>2, <1>3

LEMMA HandlerStep == ASSUME IInv, Handler PROVE IInv'
<1>t. /\ TypesOK /\ pic \in Controllers /\ IF_flag \in BOOLEAN /\ stack \in Seq(Frame)
  BY DEF IInv, TypesOK
<1>0. stack # << >> /\ UNCHANGED <<firmware, main, k, masks>>
  BY DEF Handler, HandlerPrint, PicEnd, Iret, at
<1>l. Len(stack) \in Nat \ {0} /\ stack[1] \in Frame /\ stack[Len(stack)] \in Frame
  BY <1>t, <1>0
<1>1. CASE HandlerPrint
  <2>1. PICK label \in Labels :
          /\ goto(label)
          /\ label = IF top.handler = "keyboardHandler" THEN "picEnd1" ELSE "loop"
    BY <1>1 DEF HandlerPrint, Labels
  <2>2. top.at = "debugPrint" /\ UNCHANGED <<pic, IF_flag>>
    BY <1>1 DEF HandlerPrint, at
  <2>3. /\ stack' \in Seq(Frame) /\ stack' # << >> /\ Len(stack') = Len(stack)
        /\ stack'[1].handler = stack[1].handler
        /\ stack'[1].at = IF Len(stack) = 1 THEN label ELSE stack[1].at
    BY <1>t, <1>0, <2>1, Advanced
  <2>4. \A n \in DOMAIN stack' :
              n \in DOMAIN stack /\ SameInterrupt(stack'[n], stack[n])
    BY <1>t, <1>0, <2>1, Handled
  <2>5. (/\ TypesOK /\ Untouched /\ Underway /\ FirmwaresTurn /\ ControllersProgrammed
         /\ MaskedServedOnlyInWindow /\ HandlersOwn /\ ResetOnlyIfInterruptsLeftOn)'
    BY <1>t, <1>0, <2>2, <2>3, <2>4, BesideKernelMain
  <2>6. (ServedAlone /\ StuckForGood /\ InService /\ NothingLeftInService)'
    <3>1. CASE keyboardServed
      <4>1. Len(stack) = 1 /\ ~IF_flag /\ label = "picEnd1" /\ stack[1].at = "debugPrint"
        BY <2>1, <2>2, <3>1 DEF IInv, keyboardServed, ServedAlone, top
      <4>2. QED
        BY <2>2, <2>3, <3>1, <4>1 DEF IInv, keyboardServed, ServedAlone, StuckForGood, InService,
           NothingLeftInService
    <3>2. CASE ~keyboardServed
      <4>1. Len(stack) = 1 => label = "loop"
        BY <1>0, <2>1, <3>2 DEF keyboardServed, top
      <4>2. QED
        BY <1>0, <2>3, <3>2, <4>1 DEF IInv, keyboardServed, ServedAlone, StuckForGood, InService,
           NothingLeftInService
    <3>3. QED
      BY <3>1, <3>2
  <2>7. QED
    BY <2>5, <2>6 DEF IInv
<1>2. CASE PicEnd
  <2>1. PICK c \in {1, 2} :
          /\ top.at = IF c = 1 THEN "picEnd1" ELSE "picEnd2"
          /\ outb(command(c, PIC_ACKNOWLEDGE))
          /\ goto(IF c = 1 THEN "picEnd2" ELSE "iret")
          /\ UNCHANGED IF_flag
    BY <1>2 DEF PicEnd, at
  <2> DEFINE label == IF c = 1 THEN "picEnd2" ELSE "iret"
  <2>2. label \in Labels /\ goto(label)
    BY <2>1 DEF Labels
  <2>3. /\ stack' \in Seq(Frame) /\ stack' # << >> /\ Len(stack') = Len(stack)
        /\ stack'[1].handler = stack[1].handler
        /\ stack'[1].at = IF Len(stack) = 1 THEN label ELSE stack[1].at
    BY <1>t, <1>0, <2>2, Advanced
  <2>4. \A n \in DOMAIN stack' :
              n \in DOMAIN stack /\ SameInterrupt(stack'[n], stack[n])
    BY <1>t, <1>0, <2>2, Handled
  <2>5. /\ pic' \in Controllers
        /\ pic'.imr = pic.imr /\ pic'.base = pic.base /\ pic'.expect = pic.expect
        /\ pic'.isr = { s \in pic.isr : chipOf(s) = c =>
                          \E t \in pic.isr : chipOf(t) = c /\ t < s }
    BY <1>t, <2>1, Acknowledge
  <2>6. (/\ TypesOK /\ Untouched /\ Underway /\ FirmwaresTurn /\ ControllersProgrammed
         /\ MaskedServedOnlyInWindow /\ HandlersOwn /\ ResetOnlyIfInterruptsLeftOn)'
    BY <1>t, <1>0, <2>1, <2>3, <2>4, <2>5, BesideKernelMain
  <2>7. (ServedAlone /\ StuckForGood /\ InService /\ NothingLeftInService)'
    <3>1. CASE keyboardServed
      <4>1. Len(stack) = 1 /\ ~IF_flag /\ stack[1].at = top.at
        BY <3>1 DEF IInv, ServedAlone, top
      <4>2. c = 1 => \E t \in Int : chipOf(t) = 2 /\ pic'.isr \subseteq {t}
        <5>1. ASSUME c = 1, NEW s \in Int, NEW t \in Int,
                     chipOf(s) = 1, chipOf(t) = 2, pic.isr \subseteq {s, t}
              PROVE  pic'.isr \subseteq {t}
          BY <2>5, <5>1
        <5>2. QED
          BY <2>1, <3>1, <4>1, <5>1 DEF IInv, InService
      <4>3. c = 2 => pic'.isr = {}
        <5>1. ASSUME c = 2, NEW t \in Int, chipOf(t) = 2, pic.isr \subseteq {t}
              PROVE  pic'.isr = {}
          BY <2>5, <5>1
        <5>2. QED
          BY <2>1, <3>1, <4>1, <5>1 DEF IInv, InService
      <4>4. QED
        BY <2>1, <2>3, <3>1, <4>1, <4>2, <4>3 DEF keyboardServed, ServedAlone, StuckForGood,
           InService, NothingLeftInService
    <3>2. CASE ~keyboardServed
      <4>1. Len(stack) # 1
        BY <1>0, <2>1, <3>2 DEF IInv, StuckForGood, top
      <4>2. QED
        BY <1>0, <2>3, <3>2, <4>1 DEF IInv, keyboardServed, ServedAlone, StuckForGood, InService,
           NothingLeftInService
    <3>3. QED
      BY <3>1, <3>2
  <2>8. QED
    BY <2>6, <2>7 DEF IInv
<1>3. CASE Iret
  <2>1. /\ top.at = "iret" /\ IF_flag' = top.flag /\ UNCHANGED pic
        /\ stack' = SubSeq(stack, 1, Len(stack) - 1)
    BY <1>3 DEF Iret, at
  <2>2. IF_flag' \in BOOLEAN
    BY <1>l, <2>1 DEF top, Frame
  <2>3. /\ stack' \in Seq(Frame)
        /\ \A n \in DOMAIN stack' :
              n \in DOMAIN stack /\ SameInterrupt(stack'[n], stack[n])
    BY <1>t, <1>0, <2>1, Handled
  <2>4. (/\ TypesOK /\ Untouched /\ Underway /\ FirmwaresTurn /\ ControllersProgrammed
         /\ MaskedServedOnlyInWindow /\ HandlersOwn /\ ResetOnlyIfInterruptsLeftOn)'
    BY <1>t, <1>0, <2>1, <2>2, <2>3, BesideKernelMain
  <2>5. (ServedAlone /\ StuckForGood /\ InService /\ NothingLeftInService)'
    <3>1. CASE Len(stack) = 1
      <4>1. stack' = << >>
        BY <1>t, <2>1, <3>1
      <4>2. stack[1].at = "iret" /\ keyboardServed
        BY <1>0, <2>1, <3>1 DEF IInv, StuckForGood, top
      <4>3. pic'.isr = {}
        BY <2>1, <4>2 DEF IInv, InService
      <4>4. QED
        BY <4>1, <4>3 DEF keyboardServed, ServedAlone, StuckForGood, InService,
           NothingLeftInService
    <3>2. CASE Len(stack) # 1
      <4>1. stack' # << >> /\ stack'[1] = stack[1]
        <5>1. Len(stack) \in Nat \ {0, 1}
          BY <1>l, <3>2
        <5>2. QED
          BY <1>t, <2>1, <5>1, Popped
      <4>2. ~keyboardServed
        BY <3>2 DEF IInv, ServedAlone
      <4>3. QED
        BY <1>0, <4>1, <4>2 DEF IInv, keyboardServed, ServedAlone, StuckForGood, InService,
           NothingLeftInService
    <3>3. QED
      BY <3>1, <3>2
  <2>6. QED
    BY <2>4, <2>5 DEF IInv
<1>4. QED
  BY <1>1, <1>2, <1>3 DEF Handler

LEMMA StepOK == IInv /\ [Next]_vars => IInv'
<1> SUFFICES ASSUME IInv, [Next]_vars PROVE IInv'
  OBVIOUS
<1>1. CASE Next
  BY <1>1, RaiseStep, InterruptStep, FirmwareStep, KernelStep, HandlerStep DEF Next
<1>2. CASE UNCHANGED vars
  BY <1>2 DEF vars, IInv, TypesOK, Untouched, Underway, Reached, FirmwaresTurn, keyboardServed,
     ServedAlone, StuckForGood, InService, NothingLeftInService, ControllersProgrammed,
     MaskedServedOnlyInWindow, HandlersOwn, WrongHandlerOnlyBeforeOffset,
     ResetOnlyIfInterruptsLeftOn
<1>3. QED
  BY <1>1, <1>2

-----------------------------------------------------------------------------
(* The invariant holds for every set of lines and whatever the firmware has *)
(* left in the controllers.                                                 *)
THEOREM Invariant == Spec => []IInv
<1>1. QED
  BY InitOK, StepOK, PTL DEF Spec

(* kernel_main gets past initializePIC with both controllers on the         *)
(* kernel's vectors and with the firmware's masks, whatever interrupts came *)
(* between the writes.                                                      *)
THEOREM RemappingArrives == Spec => []ControllersProgrammed
<1>1. IInv => ControllersProgrammed
  BY DEF IInv
<1>2. QED
  BY <1>1, Invariant, PTL

(* A line the firmware had masked is served only while initializePIC has    *)
(* its controller open.                                                     *)
THEOREM MasksHoldOutsideTheWindow == Spec => []MaskedServedOnlyInWindow
<1>1. IInv => MaskedServedOnlyInWindow
  BY DEF IInv
<1>2. QED
  BY <1>1, Invariant, PTL

(* Every interrupt that kernel_main survives has been acknowledged on both  *)
(* controllers, through whichever handler it came.                          *)
THEOREM AllAcknowledged == Spec => []NothingLeftInService
<1>1. IInv => NothingLeftInService
  BY DEF IInv
<1>2. QED
  BY <1>1, Invariant, PTL

(* An interrupt reaches a handler that is not its own only before the first *)
(* controller's offset is written, unless the firmware left the second one  *)
(* on the vectors of the kernel's timer and keyboard.                       *)
THEOREM OwnHandlersServe ==
  ASSUME BasesApart
  PROVE  Spec => []WrongHandlerOnlyBeforeOffset
<1>1. IInv => WrongHandlerOnlyBeforeOffset
  BY DEF IInv, HandlersOwn
<1>2. QED
  BY <1>1, Invariant, PTL

(* The machine resets between the kernel's descriptors and lidt only if the *)
(* firmware left interrupts on and a line open.                             *)
THEOREM ResetHasCause == Spec => []ResetOnlyIfInterruptsLeftOn
<1>1. IInv => ResetOnlyIfInterruptsLeftOn
  BY DEF IInv
<1>2. QED
  BY <1>1, Invariant, PTL

=============================================================================
