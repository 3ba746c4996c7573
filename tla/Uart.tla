-------------------------------- MODULE Uart --------------------------------
(***************************************************************************)
(* The serial port (kernel/src/uart.c): uartInitialize, write by write,    *)
(* and then texts of uartPuts and characters of uartGetChar, on a 16550    *)
(* that the firmware may have left in the middle of a text.  The device   *)
(* sends and receives on its own, at its own pace.                         *)
(***************************************************************************)
EXTENDS Naturals, Sequences, SequencesExt

CONSTANTS
  Depth,      \* characters that fit into each queue of the device
  Left,       \* characters the firmware may have left in the transmit queue
  Divisors,   \* divisors <<low, high>> the firmware may have left
  Texts,      \* what uartPuts is called with
  TextLimit,  \* bound: calls of uartPuts
  Arriving    \* what the other end sends, in order

Chars == UNION {ToSet(chars) : chars \in Left \cup Texts}

ASSUME UartAssumption ==
  /\ Depth \in Nat \ {0} /\ TextLimit \in Nat
  /\ Left \cup Texts \subseteq Seq(Chars)
  /\ \A chars \in Left : Len(chars) <= Depth
  /\ \A rate \in Divisors : rate = <<rate[1], rate[2]>>

VARIABLES
  present,  \* there is a device
  k,        \* the next write of uartInitialize
  pending,  \* what uartPuts has not put yet
  texts,    \* calls of uartPuts
  put,      \* the characters uartPutChar has put so far
  got,      \* the characters uartGetChar has returned
  dlab,     \* the divisor latch access bit: port + 0 and + 1 are the divisor
  divisor,
  frame,    \* the line control register without that bit
  transmit, \* the queue towards the other end
  receive,  \* the queue from there
  arrived,  \* characters the other end has sent
  line      \* what has reached the other end: [char, divisor, frame]

software == <<k, pending, texts, put, got>>
port     == <<present, dlab, divisor, frame, transmit, receive, arrived, line>>
uartVars == <<software, port>>

UartStart(there, latch, rate, format, left) ==
  /\ present = there
  /\ k = 1
  /\ pending = << >> /\ texts = 0 /\ put = << >> /\ got = << >>
  /\ dlab = latch
  /\ divisor = rate
  /\ frame = format
  /\ transmit = left
  /\ receive = << >> /\ arrived = 0 /\ line = << >>

UartInit ==
  \E there, latch \in BOOLEAN, rate \in Divisors, format \in {"8N1", "7E1"}, left \in Left :
    UartStart(there, latch, rate, format, left)

-----------------------------------------------------------------------------
(* outb(UART_PORT_COM1 + offset, value), as far as the device cares.        *)
enqueue(char) == IF Len(transmit) < Depth THEN Append(transmit, char) ELSE transmit

outb(offset, value) ==
  /\ divisor'  = IF dlab /\ offset \in {0, 1} THEN [divisor EXCEPT ![offset + 1] = value]
                 ELSE divisor
  /\ dlab'     = IF offset = 3 THEN value = "DLAB" ELSE dlab
  /\ frame'    = IF offset = 3 /\ value # "DLAB" THEN value ELSE frame
  /\ transmit' = IF offset = 2 THEN << >>
                 ELSE IF offset = 0 /\ ~dlab /\ present THEN enqueue(value) ELSE transmit
  /\ receive'  = IF offset = 2 THEN << >> ELSE receive
  /\ UNCHANGED <<present, arrived, line>>

write(offset, value) == [offset |-> offset, value |-> value]

\* Variant: the divisor is written after the latch is closed.
uartInitializeWritesLate ==
  << write(1, "0"), write(3, "DLAB"), write(3, "8N1"), write(0, "3"), write(1, "0"),
     write(2, "clear"), write(4, "modem") >>

(* Interrupts off; the divisor 3, behind the latch; eight bits, no parity;  *)
(* both queues cleared; the modem lines.                                    *)
uartInitializeWrites ==
  << write(1, "0"), write(3, "DLAB"), write(0, "3"), write(1, "0"), write(3, "8N1"),
     write(2, "clear"), write(4, "modem") >>

UartInitialize ==
  /\ k \in DOMAIN uartInitializeWrites
  /\ outb(uartInitializeWrites[k].offset, uartInitializeWrites[k].value)
  /\ k' = k + 1
  /\ UNCHANGED <<pending, texts, put, got>>

ready == k > Len(uartInitializeWrites)

-----------------------------------------------------------------------------
UartPuts ==
  /\ ready /\ pending = << >>
  /\ texts < TextLimit
  /\ pending' \in Texts
  /\ texts' = texts + 1
  /\ UNCHANGED <<k, put, got, port>>

\* Variant: the wait for the queue is left out.
uartIsTransmitBufferEmptyAlways == TRUE

(* A port without a device reads as all ones. *)
uartIsTransmitBufferEmpty == present => transmit = << >>

(* The name says empty, the bit says that a character is there. *)
uartIsRecieveBufferEmpty == present => receive # << >>

UartPutChar ==
  /\ ready /\ pending # << >>
  /\ uartIsTransmitBufferEmpty
  /\ outb(0, Head(pending))
  /\ pending' = Tail(pending)
  /\ put' = Append(put, Head(pending))
  /\ UNCHANGED <<k, texts, got>>

UartGetChar ==
  /\ ready /\ pending = << >>
  /\ Len(got) < Len(Arriving)
  /\ uartIsRecieveBufferEmpty
  /\ IF present THEN got' = Append(got, Head(receive)) /\ receive' = Tail(receive)
     ELSE got' = Append(got, "ones") /\ UNCHANGED receive
  /\ UNCHANGED <<k, pending, texts, put, present, dlab, divisor, frame, transmit, arrived, line>>

-----------------------------------------------------------------------------
(* A character leaves, with the speed and the format of the moment. *)
Transmit ==
  /\ present /\ transmit # << >>
  /\ line' = Append(line, [char |-> Head(transmit), divisor |-> divisor, frame |-> frame])
  /\ transmit' = Tail(transmit)
  /\ UNCHANGED <<software, present, dlab, divisor, frame, receive, arrived>>

(* One arrives, and is lost if the queue is full. *)
Receive ==
  /\ present /\ arrived < Len(Arriving)
  /\ arrived' = arrived + 1
  /\ receive' = IF Len(receive) < Depth THEN Append(receive, Arriving[arrived + 1]) ELSE receive
  /\ UNCHANGED <<software, present, dlab, divisor, frame, transmit, line>>

UartNext ==
  \/ UartInitialize \/ UartPuts \/ UartPutChar \/ UartGetChar
  \/ Transmit \/ Receive

UartSpec == UartInit /\ [][UartNext]_uartVars

-----------------------------------------------------------------------------
(* Once the port is initialized, the other end gets every character that is *)
(* put, once and in order, at 38400 baud in eight bits, and what it has not *)
(* got is still in the queue: none is put into a full queue, none lands in  *)
(* a register, and the queue is cleared for nobody but the firmware, which  *)
(* may lose the end of its last text but no character in the middle.        *)
charsOf(log) == [n \in DOMAIN log |-> log[n].char]

TextsArrive ==
  present /\ ready =>
    LET firmwares == Len(line) + Len(transmit) - Len(put)
        sent      == SubSeq(line, firmwares + 1, Len(line))
    IN  /\ firmwares >= 0
        /\ charsOf(sent) \o SubSeq(transmit, 1 + Len(transmit) - (Len(put) - Len(sent)), Len(transmit))
             = put
        /\ \A n \in DOMAIN sent : sent[n].divisor = <<"3", "0">> /\ sent[n].frame = "8N1"
        /\ \E left \in Left : IsPrefix(charsOf(SubSeq(line, 1, firmwares)), left)
=============================================================================
