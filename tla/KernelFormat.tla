---------------------------- MODULE KernelFormat ----------------------------
(***************************************************************************)
(* Formatting in the kernel: debugPrint (kernel/src/graphics.c), vsprint   *)
(* and the conversions it uses (kernel/src/string.c), item by item of the  *)
(* format, on the buffer on debugPrint's stack.                            *)
(*                                                                         *)
(* A character is a pair <<class, number>>: <<"digit", 7>>, or the third   *)
(* of a run of literal text, <<"Size", 3>>.  An int has W bits, and the    *)
(* arguments, which the kernel passes as 64-bit numbers, have more.  No    *)
(* format ends in a lone %, and no text has a terminator in it.            *)
(***************************************************************************)
EXTENDS Numerals, Sequences, SequencesExt

CONSTANTS
  W,           \* the width of an int: 32
  BufferSize,  \* the length of outputMessage: 64
  ReverseSize, \* the length of the buffer in itoa: 36
  Literals,    \* the runs of literal text, by name
  Strings,     \* the strings of the program, as they lie in memory
  Parts,       \* a double is a whole number and some of this many parts of one
  Messages     \* formats with their arguments: sequences of [kind, arg]

NUL == <<"NUL", 0>>
digit(d) == <<"digit", d>>
minus == <<"-", 0>>
point == <<".", 0>>
Characters ==
  (Literals \cup {"digit", "-", ".", "b", "x", "B", "H", "garbage"}) \X Nat

INT_MIN == -power(2, W - 1)

(* What vsprint is given for a directive. *)
passed(i) ==
  CASE i.kind = "text" -> i.arg \in Seq(Characters)
    [] i.kind = "c"    -> i.arg \in Characters
    [] i.kind = "s"    -> i.arg \in DOMAIN Strings
    [] i.kind = "f"    -> i.arg.whole \in INT_MIN..(-INT_MIN - 1) /\ i.arg.part \in 0..(Parts - 1)
    [] i.kind \in {"d", "b", "h", "x"} -> i.arg \in Int
    [] OTHER           -> i.kind = "other"

(* The longest number fits into itoa's buffer, and a part of one is not     *)
(* less than the 0.00000001 below which gcvt takes it for nothing.          *)
ASSUME KernelFormatAssumption ==
  /\ W \in Nat \ {0, 1} /\ ReverseSize \in Nat /\ ReverseSize >= W + 3
  /\ BufferSize \in Nat \ {0} /\ Parts \in Nat \ {0} /\ Parts < 100000000
  /\ "NUL" \notin Literals
  /\ Strings \in Seq(Seq(Characters)) /\ Strings # << >> /\ Last(Strings) # << >>
  /\ \A m \in Messages : m \in Seq(Range(m)) /\ \A i \in Range(m) : passed(i)

VARIABLES
  message,       \* the call of debugPrint
  fmt,           \* the item of the format vsprint is at
  p,             \* its place in the buffer
  outputMessage, \* the buffer
  spilled,       \* something was written outside outputMessage or reverse
  luck           \* what a negation of the least int amounts to in this program

formatVars == <<message, fmt, p, outputMessage, spilled, luck>>

(* va_arg(args, unsigned int) and va_arg(args, int) of a longer argument *)
asUnsigned(v) == v % power(2, W)
asInt(v) == IF asUnsigned(v) < -INT_MIN THEN asUnsigned(v) ELSE asUnsigned(v) - power(2, W)

-----------------------------------------------------------------------------
(* What itoa and uitoa have in reverse: the digits, the last one first. *)
upwards(value, radix) ==
  LET rest[v \in Nat] ==
        IF v < radix THEN <<digit(v)>> ELSE <<digit(v % radix)>> \o rest[v \div radix]
  IN  rest[value]

(* Negating INT_MIN is undefined: the loop may not run at all, may find the *)
(* right digits, or characters in front of "0123456789abcdef".              *)
magnitude(value, radix) ==
  IF value # INT_MIN THEN upwards(IF value < 0 THEN -value ELSE value, radix)
  ELSE CASE luck = "none"    -> << >>
         [] luck = "digits"  -> upwards(-INT_MIN, radix)
         [] luck = "garbage" -> [k \in DOMAIN upwards(-INT_MIN, radix) |-> <<"garbage", k>>]

prefix(radix) ==
  CASE radix = 2 -> <<digit(0), <<"b", 0>>>> [] radix = 16 -> <<digit(0), <<"x", 0>>>>
    [] OTHER -> << >>
suffix(radix) ==
  CASE radix = 2 -> <<<<"B", 0>>>> [] radix = 16 -> <<<<"H", 0>>>> [] OTHER -> << >>

itoaReverse(value, radix) ==
  <<NUL>> \o suffix(radix) \o magnitude(value, radix)
          \o (IF value < 0 THEN <<minus>> ELSE << >>)

(* The characters itoa and uitoa store, the terminator among them. *)
itoa(value, radix) == prefix(radix) \o Reverse(itoaReverse(value, radix))

uitoa(value, radix) ==
  Reverse(<<NUL>> \o (IF value = 0 THEN << >> ELSE upwards(value, radix)))

(* The first ndigit digits of a part of one, or fewer if nothing is left.   *)
fraction(part, ndigit) ==
  LET rest[k \in 0..ndigit] == IF k = 0 THEN part ELSE (rest[k - 1] * 10) % Parts
      rounds == Min({k \in 0..ndigit : k = ndigit \/ rest[k] = 0})
  IN  [k \in 1..rounds |-> digit((rest[k - 1] * 10) \div Parts)]

(* (int)value has lost the sign of a double between -1 and 0. *)
gcvt(double, ndigit) ==
  Front(itoa(double.whole, 10)) \o <<point>> \o fraction(double.part, ndigit) \o <<NUL>>

(* strcat behind a terminator.  It copies one character before it looks for *)
(* the end, which is the end of the next string if the first is empty, and  *)
(* it stores no terminator.                                                 *)
strcat(s) == IF Strings[s] # << >> THEN Strings[s] ELSE <<NUL>> \o Strings[s + 1]

-----------------------------------------------------------------------------
\* Variant: outputMessage is not initialized.
emptyBufferUninitialized == [c \in 0..(BufferSize - 1) |-> <<"garbage", c>>]

(* The zeros of debugPrint's initializer. *)
emptyBuffer == [c \in 0..(BufferSize - 1) |-> NUL]

FormatStart(call, negated) ==
  /\ message = call
  /\ fmt = 1
  /\ p = 0
  /\ outputMessage = emptyBuffer
  /\ spilled = FALSE
  /\ luck = negated

FormatInit ==
  \E call \in Messages, negated \in {"none", "digits", "garbage"} : FormatStart(call, negated)

store(chars) ==
  [c \in DOMAIN outputMessage |->
     IF c - p + 1 \in DOMAIN chars THEN chars[c - p + 1] ELSE outputMessage[c]]

(* strlen(p), which may leave the buffer *)
strlen(cells) ==
  LET stops == {c \in p..BufferSize : c = BufferSize \/ cells[c] = NUL}
  IN  (CHOOSE c \in stops : \A d \in stops : c <= d) - p

directive == message[fmt]

isAt(kinds) == ~spilled /\ fmt <= Len(message) /\ directive.kind \in kinds

(* Characters are stored and p moves behind them, or to the terminator.     *)
append(chars, length) ==
  /\ outputMessage' = store(chars)
  /\ p' = p + length
  /\ fmt' = fmt + 1
  /\ spilled' = (p + Len(chars) > BufferSize)
  /\ UNCHANGED <<message, luck>>

convert(chars) == append(chars, strlen(store(chars)))

Literal   == isAt({"text"}) /\ append(directive.arg, Len(directive.arg))
Character == isAt({"c"})    /\ append(<<directive.arg>>, 1)
Unknown   == isAt({"other"}) /\ append(<< >>, 0)
Unsigned  == isAt({"x"})    /\ convert(uitoa(asUnsigned(directive.arg), 16))
Float     == isAt({"f"})    /\ convert(gcvt(directive.arg, 6))

(* *p = '\0' before strcat is overwritten by it at once. *)
String == isAt({"s"}) /\ convert(strcat(directive.arg))

radixOf == [d |-> 10, b |-> 2, h |-> 16]

Signed ==
  /\ isAt({"d", "b", "h"})
  /\ LET value == asInt(directive.arg)
         radix == radixOf[directive.kind]
     IN  IF Len(itoaReverse(value, radix)) > ReverseSize
           THEN spilled' = TRUE /\ UNCHANGED <<message, fmt, p, outputMessage, luck>>
           ELSE convert(itoa(value, radix))

(* *p = '\0', and print shows what is in the buffer. *)
End ==
  /\ ~spilled
  /\ fmt = Len(message) + 1
  /\ fmt' = fmt + 1
  /\ outputMessage' = store(<<NUL>>)
  /\ spilled' = (p >= BufferSize)
  /\ UNCHANGED <<message, p, luck>>

FormatNext ==
  \/ Literal \/ Character \/ Unknown \/ Signed \/ Unsigned \/ Float \/ String
  \/ End

FormatSpec == FormatInit /\ [][FormatNext]_formatVars

-----------------------------------------------------------------------------
(* What an item is meant to show, by place value and not by a loop.  Three  *)
(* things are as the code has them: uitoa shows nothing for 0, the sign of  *)
(* a double above -1 is lost, and INT_MIN is what luck makes of it.         *)
numeral(value, radix) ==
  LET length == CHOOSE k \in 1..W : /\ value \div power(radix, k - 1) < radix
                                    /\ k > 1 => value \div power(radix, k - 1) > 0
  IN  [k \in 1..length |-> digit((value \div power(radix, length - k)) % radix)]

signed(value, radix) ==
  prefix(radix)
    \o (IF value < 0 THEN <<minus>> ELSE << >>)
    \o (IF value = INT_MIN THEN Reverse(magnitude(value, radix))
        ELSE numeral(IF value < 0 THEN -value ELSE value, radix))
    \o suffix(radix)

(* As many digits as there are, but no more than six.                       *)
decimals(part) ==
  LET count == Min({k \in 0..6 : k = 6 \/ (part * power(10, k)) % Parts = 0})
  IN  [k \in 1..count |-> digit(((part * power(10, k)) \div Parts) % 10)]

shows(i) ==
  CASE i.kind = "text"  -> i.arg
    [] i.kind = "c"     -> <<i.arg>>
    [] i.kind = "other" -> << >>
    [] i.kind = "x"     -> IF asUnsigned(i.arg) = 0 THEN << >>
                           ELSE numeral(asUnsigned(i.arg), 16)
    [] i.kind = "f"     -> signed(i.arg.whole, 10) \o <<point>> \o decimals(i.arg.part)
    [] i.kind = "s"     -> Strings[i.arg]
    [] OTHER            -> signed(asInt(i.arg), radixOf[i.kind])

meant(k) == FlattenSeq([j \in 1..k |-> shows(message[j])])

emptyString == \E k \in DOMAIN message : message[k].kind = "s" /\ Strings[message[k].arg] = << >>

(* Whatever the arguments - numbers longer than an int, the least int, the  *)
(* zeros and sizes at which a loop may run once too often - what stands in  *)
(* front of p is what the format means so far, character by character,      *)
(* although strcat ends no string and every step looks for an end.  And     *)
(* outside the buffer nothing is written unless the text and its terminator *)
(* do not fit.  Only an empty string for %s breaks this: it shows the next. *)
FormatsFaithfully ==
  ~emptyString =>
    LET text == meant(IF fmt > Len(message) THEN Len(message) ELSE fmt - 1)
    IN  IF spilled THEN \E k \in DOMAIN message : Len(meant(k)) >= BufferSize
        ELSE p = Len(text) /\ \A c \in 0..(p - 1) : outputMessage[c] = text[c + 1]

=============================================================================
