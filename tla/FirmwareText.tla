---------------------------- MODULE FirmwareText ----------------------------
(***************************************************************************)
(* What Print, VPrint and VSPrint make of the boot loader's formats: the   *)
(* library's _Print (gnu-efi/lib/print.c), character by character of the   *)
(* format, with the buffer it collects text in and the two places it       *)
(* flushes it to, the console and a string of limited length.              *)
(*                                                                         *)
(* An argument is a word of LongBits bits or, for %s and %a, a sequence of *)
(* characters; an int has IntBits bits.  %f, %t, %g and %D, which the boot *)
(* loader does not use, are left out.                                      *)
(***************************************************************************)
EXTENDS Numerals, Sequences, SequencesExt

CONSTANTS
  IntBits, LongBits, \* 32 and 64 in the library
  BufferLength,      \* PRINT_STRING_LEN
  Letters,           \* the characters that mean nothing to _Print
  ErrorCodeTable,    \* the texts of the statuses that have one
  Requests              \* [console, size: the string's StrSize, pieces: the format's parts]

NULL == <<"NULL">>
NoAttribute == "none"     \* an attribute of 0
Unlimited == -1    \* (UINTN)-1
Blank == " "
LineFeed == "\n"
CarriageReturn == "\r"
Digits == <<"0", "1", "2", "3", "4", "5", "6", "7", "8", "9", "A", "B", "C", "D", "E", "F">>
DecimalDigits == {Digits[d] : d \in 1..10}
digitOf(char) == CHOOSE d \in 0..9 : Digits[d + 1] = char

(* Behind a modifier a directive goes on; some conversions only set the     *)
(* attribute of what follows, and some take an argument.                    *)
Modifiers  == DecimalDigits \cup {"-", ",", ".", "*", "l", "n", "h", "e"}
Attributes == {"N", "H", "E"}
Taking     == {"a", "s", "c", "x", "X", "u", "d", "r"}

Alphabet ==
  Letters \cup {Digits[d] : d \in 1..16} \cup {Blank, LineFeed, CarriageReturn}
    \cup Modifiers \cup Attributes \cup Taking \cup {"%", "?", "(", ")"}

(* A part of a format with its argument: literal text, or a directive with  *)
(* its conversion; at the end of a format there may be one without.         *)
accepted(piece) ==
  IF piece.conv = "text" THEN piece.value \in Seq(Alphabet \ {"%"}) \ {<< >>}
  ELSE
    /\ piece.attr \in {NoAttribute, "n", "h", "e"}
    /\ {piece.zero, piece.left, piece.comma, piece.star, piece.long} \subseteq BOOLEAN
    /\ piece.width \in Nat /\ (~piece.star => piece.width < 100)
    /\ piece.field \in {Unlimited} \cup 1..99
    /\ CASE piece.conv \in {"s", "a"} -> piece.value \in Seq(Alphabet) \cup {NULL}
         [] piece.conv = "c" -> piece.value \in Alphabet
         [] piece.conv \in {"x", "X", "d", "u", "r"} -> piece.value \in 0..(power(2, LongBits) - 1)
         [] OTHER -> piece.conv \in (Alphabet \cup {"end"}) \ (Modifiers \cup {"f", "t", "g", "D"})

ASSUME FirmwareTextAssumption ==
  /\ IntBits \in Nat \ {0} /\ LongBits \in IntBits..998
  /\ BufferLength \in Nat \ {0, 1}
  /\ \A status \in DOMAIN ErrorCodeTable : ErrorCodeTable[status] \in Seq(Alphabet)
  /\ \A c \in Requests :
       /\ c.console \in BOOLEAN /\ (~c.console => c.size \in Nat /\ c.size >= 2)
       /\ c.pieces \in Seq(Range(c.pieces))
       /\ \A k \in DOMAIN c.pieces :
            /\ accepted(c.pieces[k])
            /\ c.pieces[k].conv = "end" => k = Len(c.pieces)

VARIABLES
  request,   \* the call
  format,    \* the characters of its format that are ahead, from ps->fmt.Index on
  arguments, \* those not taken yet
  state,     \* "text", "directive", "done" or "beyond": past the format's end
  item,      \* Item, and ps->RestoreAttr
  out        \* ps->Buffer up to ps->Pos, ps->Attr, ps->Len and what is flushed

textVars == <<request, format, arguments, state, item, out>>

-----------------------------------------------------------------------------
(* The characters of a part, and the arguments it takes. *)
decimal(n) == IF n < 10 THEN <<Digits[n + 1]>> ELSE <<Digits[(n \div 10) + 1], Digits[(n % 10) + 1]>>

when(condition, chars) == IF condition THEN chars ELSE << >>

symbols(piece) ==
  << <<"%">>,
     when(piece.attr # NoAttribute, <<piece.attr>>),
     when(piece.zero, <<"0">>),
     when(piece.left, <<"-">>),
     when(piece.comma, <<",">>),
     IF piece.star THEN <<"*">> ELSE when(piece.width # 0, decimal(piece.width)),
     when(piece.field # Unlimited, <<".">>),
     when(piece.field # Unlimited, decimal(piece.field)),
     when(piece.long, <<"l">>),
     when(piece.conv # "end", <<piece.conv>>) >>

spelled(piece) == IF piece.conv = "text" THEN piece.value ELSE FlattenSeq(symbols(piece))

argumentsOf(piece) ==
  IF piece.conv = "text" THEN << >>
  ELSE when(piece.star, <<piece.width>>) \o when(piece.conv \in Taking, <<piece.value>>)

each(op(_), pieces) == FlattenSeq([k \in 1..Len(pieces) |-> op(pieces[k])])

noItem == [fieldWidth |-> Unlimited, width |-> 0, parsing |-> "width", pad |-> Blank,
           padBefore |-> TRUE, comma |-> FALSE, long |-> FALSE, restoreAttr |-> NoAttribute]

(* _IPrint takes the console's attribute; a string has none, all are 0.     *)
attribute(name) == IF request.console THEN name ELSE NoAttribute

TextStart(of) ==
  /\ request = of
  /\ format = each(spelled, request.pieces)
  /\ arguments = each(argumentsOf, request.pieces)
  /\ state = "text"
  /\ item = noItem
  /\ out = [buffer |-> << >>, attr |-> attribute("initial"), len |-> 0, flushed |-> << >>]

TextInit == \E of \in Requests : TextStart(of)

-----------------------------------------------------------------------------
(* Output->OutputString, or _SPrint, which cuts the text to maxlen.         *)
maxlen == (request.size \div 2) - 1

atMost(n, seq) == IF Len(seq) <= n THEN seq ELSE SubSeq(seq, 1, n)

room(text) == IF request.console THEN text ELSE atMost(maxlen, text)

inAttribute(chars, attr) == [k \in 1..Len(chars) |-> <<chars[k], attr>>]

PFLUSH(o) ==
  [o EXCEPT !.flushed = room(o.flushed \o inAttribute(o.buffer, o.attr)), !.buffer = << >>]

PSETATTR(o, attr) == [PFLUSH(o) EXCEPT !.attr = attr]

putOne(o, char) ==
  LET more == [o EXCEPT !.buffer = Append(@, char), !.len = @ + 1]
  IN  IF Len(more.buffer) >= BufferLength - 1 THEN PFLUSH(more) ELSE more

PPUTC(o, char) == IF char = LineFeed THEN putOne(putOne(o, CarriageReturn), char) ELSE putOne(o, char)

puts(o, chars) ==
  LET after[k \in 0..Len(chars)] == IF k = 0 THEN o ELSE PPUTC(after[k - 1], chars[k])
  IN  after[Len(chars)]

copies(n, char) == IF n > 0 THEN [k \in 1..n |-> char] ELSE << >>

(* The item, cut to the field width, padded to the width and then, on one   *)
(* side or the other, to the field width.                                   *)
PITEM(i, chars) ==
  LET cut    == IF i.fieldWidth = Unlimited THEN chars ELSE atMost(i.fieldWidth, chars)
      width  == IF Len(cut) > i.width THEN Len(cut) ELSE i.width
      field  == IF i.fieldWidth = Unlimited THEN Len(cut) ELSE i.fieldWidth
      spaces == copies(field - width, Blank)
  IN  puts(out, when(i.padBefore, spaces) \o copies(width - Len(cut), i.pad) \o cut
                  \o when(~i.padBefore, spaces))

-----------------------------------------------------------------------------
(* The digits of a number, most significant first.                          *)
digitsOf(n, base) ==
  LET digits[m \in Nat] ==
        IF m < base THEN <<Digits[m + 1]>> ELSE Append(digits[m \div base], Digits[(m % base) + 1])
  IN  digits[n]

ValueToHex(v) == digitsOf(v, 16)

\* Variant: a first group of three digits counts as empty.
firstGroupEmpty(length) == length % 3

(* ca[(p1 - str) % 3] *)
firstGroup(length) == <<3, 1, 2>>[(length % 3) + 1]

ValueToString(comma, v) ==
  LET digits == digitsOf(IF v < 0 THEN -v ELSE v, 10)
      first  == (IF comma THEN firstGroup(Len(digits)) ELSE 999) + 1
      c[k \in 0..Len(digits)] ==
        IF k = 0 THEN first ELSE IF c[k - 1] = 1 THEN 3 ELSE c[k - 1] - 1
      text[k \in 0..Len(digits)] ==
        IF k = 0 THEN when(v < 0, <<"-">>)
        ELSE text[k - 1] \o when(c[k - 1] = 1, <<",">>) \o <<digits[k]>>
  IN  IF v = 0 THEN <<"0">> ELSE text[Len(digits)]

unsignedWord(word, long) == IF long THEN word ELSE word % power(2, IntBits)

signedWord(word, long) ==
  LET bits == IF long THEN LongBits ELSE IntBits
      v    == word % power(2, bits)
  IN  IF v < power(2, bits - 1) THEN v ELSE v - power(2, bits)

(* A status without a text is shown by "%X", without its upper half.        *)
hexWidth(long) == (IF long THEN LongBits ELSE IntBits) \div 4

StatusToString(status) ==
  IF status \in DOMAIN ErrorCodeTable THEN ErrorCodeTable[status]
  ELSE LET digits == ValueToHex(unsignedWord(status, FALSE))
       IN  copies(hexWidth(FALSE) - Len(digits), "0") \o digits

orNull(string) == IF string = NULL THEN <<"(", "n", "u", "l", "l", ")">> ELSE string

(* ValueToString takes an INT64, for %u as well. *)
itemText(char, argument) ==
  CASE char = "%"         -> <<"%">>
    [] char \in {"a", "s"} -> orNull(argument)
    [] char = "c"         -> <<argument>>
    [] char \in {"x", "X"} -> ValueToHex(unsignedWord(argument, item.long))
    [] char = "u"         -> ValueToString(item.comma,
                               signedWord(unsignedWord(argument, item.long), TRUE))
    [] char = "d"         -> ValueToString(item.comma, signedWord(argument, item.long))
    [] char = "r"         -> StatusToString(argument)
    [] OTHER              -> <<"?">>

-----------------------------------------------------------------------------
current == Head(format)
reading(where) == state = where /\ format # << >>

PlainCharacter ==
  /\ reading("text") /\ current # "%"
  /\ out' = PPUTC(out, current)
  /\ format' = Tail(format)
  /\ UNCHANGED <<request, arguments, state, item>>

Percent ==
  /\ reading("text") /\ current = "%"
  /\ state' = "directive"
  /\ item' = noItem
  /\ format' = Tail(format)
  /\ UNCHANGED <<request, arguments, out>>

Flag ==
  /\ reading("directive")
  /\ current \in {"0", "-", ",", ".", "l"}
  /\ item' = CASE current = "0" -> [item EXCEPT !.pad = "0"]
               [] current = "-" -> [item EXCEPT !.padBefore = FALSE]
               [] current = "," -> [item EXCEPT !.comma = TRUE]
               [] current = "." -> [item EXCEPT !.parsing = "fieldWidth"]
               [] current = "l" -> [item EXCEPT !.long = TRUE]
  /\ format' = Tail(format)
  /\ UNCHANGED <<request, arguments, state, out>>

(* *Item.WidthParse = n *)
parsed(n) == IF item.parsing = "width" THEN [item EXCEPT !.width = n]
             ELSE [item EXCEPT !.fieldWidth = n]

Star ==
  /\ reading("directive") /\ current = "*"
  /\ item' = parsed(Head(arguments))
  /\ arguments' = Tail(arguments)
  /\ format' = Tail(format)
  /\ UNCHANGED <<request, state, out>>

(* The number that stands ahead, and the end of its digits.                 *)
numberAhead(length) ==
  LET n[k \in 0..length] == IF k = 0 THEN 0 ELSE n[k - 1] * 10 + digitOf(format[k])
  IN  n[length]

IsNumberAhead(length) ==
  /\ \A k \in 1..length : format[k] \in DecimalDigits
  /\ length < Len(format) => format[length + 1] \notin DecimalDigits

Number ==
  /\ reading("directive") /\ current \in DecimalDigits \ {"0"}
  /\ \E length \in 1..Len(format) :
       /\ IsNumberAhead(length)
       /\ item' = parsed(numberAhead(length))
       /\ format' = SubSeq(format, length + 1, Len(format))
  /\ UNCHANGED <<request, arguments, state, out>>

(* What a directive has set for itself is taken back behind it.             *)
restored(o) == IF item.restoreAttr = NoAttribute THEN o ELSE PSETATTR(o, item.restoreAttr)

Item ==
  /\ reading("directive") /\ current \notin Modifiers \cup Attributes
  /\ LET takes == current \in Taking
         i     == IF current = "X" THEN [item EXCEPT !.width = hexWidth(item.long), !.pad = "0"]
                  ELSE item
     IN  /\ out' = restored(PITEM(i, itemText(current, IF takes THEN Head(arguments) ELSE NULL)))
         /\ arguments' = IF takes THEN Tail(arguments) ELSE arguments
  /\ state' = "text"
  /\ format' = Tail(format)
  /\ UNCHANGED <<request, item>>

attributeOf(c) ==
  attribute(CASE c \in {"n", "N"} -> "normal" [] c \in {"h", "H"} -> "highlight"
              [] c \in {"e", "E"} -> "error")

FieldAttribute ==
  /\ reading("directive") /\ current \in {"n", "h", "e"}
  /\ out' = PSETATTR(out, attributeOf(current))
  /\ item' = [item EXCEPT !.restoreAttr = out.attr]
  /\ format' = Tail(format)
  /\ UNCHANGED <<request, arguments, state>>

(* The directive goes on if the attribute is 0. *)
Attribute ==
  /\ reading("directive") /\ current \in Attributes
  /\ IF attributeOf(current) # NoAttribute
       THEN out' = PSETATTR(out, attributeOf(current)) /\ state' = "text"
       ELSE UNCHANGED <<out, state>>
  /\ format' = Tail(format)
  /\ UNCHANGED <<request, arguments, item>>

EndOfFormat ==
  /\ state = "text" /\ format = << >>
  /\ out' = PFLUSH(out)
  /\ state' = "done"
  /\ UNCHANGED <<request, format, arguments, item>>

(* The loop over the directive takes the terminator, and the one around it  *)
(* goes on behind it.                                                       *)
Unfinished ==
  /\ state = "directive" /\ format = << >>
  /\ out' = restored(out)
  /\ state' = "beyond"
  /\ UNCHANGED <<request, format, arguments, item>>

TextNext ==
  \/ PlainCharacter \/ Percent \/ Flag \/ Star \/ Number \/ Item
  \/ FieldAttribute \/ Attribute \/ EndOfFormat \/ Unfinished

TextSpec == TextInit /\ [][TextNext]_textVars

-----------------------------------------------------------------------------
(* What the comment in front of _Print (print.c:1041-1071) promises of a    *)
(* directive, by place value.  The comment leaves four things open, which   *)
(* are taken from the code: a text longer than its field is cut, the width  *)
(* is padded before the field and only with blanks or zeros, a directive    *)
(* that is not listed shows ?, and NULL has a text.                         *)
byPlace(n, base) ==
  LET length == CHOOSE k \in 1..LongBits : /\ n \div power(base, k - 1) < base
                                           /\ k > 1 => n \div power(base, k - 1) > 0
  IN  [k \in 1..length |-> Digits[((n \div power(base, length - k)) % base) + 1]]

grouped(digits) ==
  FlattenSeq([k \in 1..Len(digits) |->
    when(k > 1 /\ (Len(digits) - k) % 3 = 2, <<",">>) \o <<digits[k]>>])

number(n, comma) ==
  LET digits == byPlace(IF n < 0 THEN -n ELSE n, 10)
  IN  when(n < 0, <<"-">>) \o (IF comma THEN grouped(digits) ELSE digits)

filledUp(seq, n, char) == copies(n - Len(seq), char) \o seq

filledOut(seq, n, char) == seq \o copies(n - Len(seq), char)

(* X: "fixed 8 byte value in hex", the digits of a whole word.  A status    *)
(* without a text is shown by "%X" (error.c).                               *)
wordDigits == LongBits \div 4

fixedHex(word) == filledUp(byPlace(word, 16), wordDigits, "0")

meaning(piece) ==
  CASE piece.conv = "%" -> <<"%">>
    [] piece.conv = "c" -> <<piece.value>>
    [] piece.conv \in {"s", "a"} -> orNull(piece.value)
    [] piece.conv = "u" -> number(unsignedWord(piece.value, piece.long), piece.comma)
    [] piece.conv = "d" -> number(signedWord(piece.value, piece.long), piece.comma)
    [] piece.conv = "x" -> byPlace(unsignedWord(piece.value, piece.long), 16)
    [] piece.conv = "X" -> fixedHex(piece.value)
    [] piece.conv = "r" -> IF piece.value \in DOMAIN ErrorCodeTable
                             THEN ErrorCodeTable[piece.value] ELSE fixedHex(piece.value)
    [] OTHER -> <<"?">>

cutMeaning(piece) ==
  IF piece.field = Unlimited THEN meaning(piece) ELSE atMost(piece.field, meaning(piece))

(* 0: "pad with zeros"; -: "justify on left (default is on right)".         *)
shownFor(piece) ==
  CASE piece.conv = "text" -> piece.value
    [] piece.conv \in Attributes \cup {"end"} -> << >>
    [] OTHER ->
         LET pad == IF piece.zero THEN "0" ELSE Blank
         IN  IF piece.left
               THEN filledOut(filledOut(cutMeaning(piece), piece.width, pad), piece.field, Blank)
               ELSE filledUp(filledUp(cutMeaning(piece), piece.width, pad), piece.field, Blank)

(* Where _Print does not keep its comment: - leaves the padding to the      *)
(* width in front; %X without l shows the lower half of the word, and with  *)
(* l it has no other width and fills up again what the field has cut; a     *)
(* status without a text loses its upper half; %lu shows a number that is   *)
(* too large for an INT64 as a negative one; a comma in front of anything   *)
(* but d and u is ignored.                                                  *)
unlikeComment(piece) ==
  /\ piece.conv \notin {"text", "end"} \cup Attributes
  /\ \/ piece.left /\ piece.width > Len(cutMeaning(piece))
     \/ piece.conv = "X" /\ (~piece.long \/ piece.width > wordDigits
                               \/ (piece.field # Unlimited /\ piece.field < wordDigits))
     \/ piece.conv = "r" /\ piece.value \notin DOMAIN ErrorCodeTable
     \/ piece.conv = "u" /\ unsignedWord(piece.value, piece.long) >= power(2, LongBits - 1)
     \/ piece.comma /\ piece.conv \notin {"d", "u"}

lineOf(char) == IF char = LineFeed THEN <<CarriageReturn, LineFeed>> ELSE <<char>>

lines(chars) == each(lineOf, chars)

(* The attribute in force behind the first k parts: the last one set.       *)
attributeAfter(pieces, k) ==
  LET setting == {j \in 1..k : pieces[j].conv \in Attributes}
  IN  IF setting = {} THEN attribute("initial")
      ELSE attributeOf(pieces[CHOOSE j \in setting : \A i \in setting : i <= j].conv)

attributeIn(pieces, k) ==
  IF pieces[k].conv # "text" /\ pieces[k].attr # NoAttribute THEN attributeOf(pieces[k].attr)
  ELSE attributeAfter(pieces, k - 1)

promised(pieces) ==
  FlattenSeq([k \in 1..Len(pieces) |->
    inAttribute(lines(shownFor(pieces[k])), attributeIn(pieces, k))])

attributeInString ==
  ~request.console /\ \E k \in DOMAIN request.pieces : request.pieces[k].conv \in Attributes

(* Where the code differs from its comment, the property says nothing of    *)
(* the call.                                                                *)
commentNotKept == \E k \in DOMAIN request.pieces : unlikeComment(request.pieces[k])

(* For a call whose directives are all among those of which _Print keeps    *)
(* the comment in front of it (none is unlikeComment: no - that would have  *)
(* to move what pads to the width, no %X that is short, cut or wider, no    *)
(* status without a text, no %lu of 2^63 or more, no comma in a hexadecimal *)
(* number): whatever the widths, the arguments and the places at which the  *)
(* buffer fills up in the middle of a number or between the two characters  *)
(* of a line's end, what has been flushed is the beginning of the text that *)
(* the comment promises, each character in its attribute; in the end it is  *)
(* all of it, or as much as a string has room for, and Len counts the whole *)
(* text.  The format is read to its terminator and no further, unless it    *)
(* ends within a directive.  Nothing is said of a string with %N, %H or %E  *)
(* in its format either: without attributes they have no end.               *)
TextAsDocumented ==
  ~attributeInString /\ ~commentNotKept =>
    LET text == promised(request.pieces)
    IN  /\ IsPrefix(out.flushed, room(text))
        /\ state = "done" => out.flushed = room(text) /\ out.len = Len(text)
        /\ state = "beyond" => Last(request.pieces).conv = "end"

=============================================================================
