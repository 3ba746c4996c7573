------------------------------ MODULE MCUnits ------------------------------
(***************************************************************************)
(* Values for Units, unit by unit.                                         *)
(***************************************************************************)
EXTENDS Units

(* The bitmap: a byte in front of it and two behind, all of them full,      *)
(* empty or alternating.                                                    *)
MCContents == { [b \in Addresses |-> byte] : byte \in {{}, 0..7, {0, 2, 4, 6}} }

(* The first, some in the middle of either byte and at their border, the    *)
(* last, the one behind it, and two that are refused.                       *)
MCIndexes == {0, 1, 7, 8, 9, 12, 15, 16, 17, 40}

-----------------------------------------------------------------------------
(* Words: flags at both ends of either group, and numbers with bits on both *)
(* sides of every border between two fields.                                *)
MCFlags == {"Present", "ReadWrite", "LargerPages", "Custom0", "Custom2", "NX"}

MCWords == {{}, 0..63, {11, 12, 20, 21, 29, 30, 38, 39, 47, 48, 51, 52}}

MCNumbers == {{}, 0..63, {0, 15, 16, 23, 31, 32, 39}, {24, 40, 51, 63}}

(* INTERRUPT_GATE 0x8e and TRAP_GATE 0x8f *)
MCGateTypes == {{1, 2, 3, 7}, {0, 1, 2, 3, 7}}

MCTssSize == {0, 1, 2, 5, 6} \* 103

-----------------------------------------------------------------------------
(* Messages of the kernel, with numbers around every limit of an int, the   *)
(* directives one by one and in pairs, and some that do not fit.            *)
run(name, length) == [c \in 1..length |-> <<name, c>>]
literal(name, length) == [kind |-> "text", arg |-> run(name, length)]
oneOf(conversion, given) == [kind |-> conversion, arg |-> given]

(* The middle one is empty, the last one as long as the longest name of a   *)
(* type of memory.                                                          *)
MCStrings == <<run("page fault", 10), << >>, run("EfiMemoryMappedIOPortSpace", 26)>>

MCLiterals == {"page fault", "EfiMemoryMappedIOPortSpace", "A", "Size : ", "\n", "Reserved RAM: ",
               " KB\n", "type: ", "   ", "keyboard\n", ".", "12345678901234567890123456789"}

Arguments ==
  {0, 1, 9, 10, 99, 2^(W - 1) - 1, 2^(W - 1), 2^(W - 1) + 1, 2^W - 1, 2^W, 2^W + 10}

Doubles == [whole : {0, 2, -3, 2^(W - 1) - 1}, part : {0, 1, 16, 63}]

Directives ==
  [kind : {"d", "x", "b", "h"}, arg : Arguments] \cup [kind : {"f"}, arg : Doubles]
    \cup {oneOf("c", <<"A", 0>>), oneOf("s", 1), oneOf("s", 2), oneOf("s", 3), oneOf("other", 0)}

MCMessages ==
     { <<literal("Size : ", 7), oneOf("d", v), literal("\n", 1)>> : v \in Arguments }
  \cup { <<literal("Reserved RAM: ", 14), oneOf("d", v), literal(" KB\n", 4)>> : v \in Arguments }
  \cup { <<literal("type: ", 6), oneOf("s", 3), literal("   ", 3)>>, <<literal("keyboard\n", 9)>>, << >> }
  \cup { <<i, j>> : i, j \in Directives }
  \cup { <<oneOf("s", 2), oneOf("s", s), literal(".", 1)>> : s \in {1, 3} }
  \cup { <<oneOf("b", v), literal("12345678901234567890123456789", length), oneOf("b", v)>> :
           v \in Arguments, length \in {1, 28, 29} }

-----------------------------------------------------------------------------
(* Calls of the loader's library: every directive with every combination of *)
(* flags, numbers around the limits of both lengths, and texts longer than  *)
(* the buffer and than the string.                                          *)
MCLetters == {":", "b", "k", "o", "q", "t", "z", "S"}

plainText(chars) == [conv |-> "text", value |-> chars]

plain == [attr |-> NoAttribute, zero |-> FALSE, left |-> FALSE, comma |-> FALSE, star |-> FALSE,
          width |-> 0, field |-> Unlimited, long |-> FALSE, conv |-> "%", value |-> 0]

Ints  == {0, 7, 255, 999, 1000, 2^(IntBits - 1) - 1, 2^(IntBits - 1), 2^IntBits - 1}
Longs == {0, 2^IntBits, 1234567, 2^(LongBits - 1) - 1, 2^(LongBits - 1) + 2}

numbers(long, values) ==
  { [plain EXCEPT !.conv = conv, !.value = v, !.long = long, !.comma = comma, !.zero = zero,
                  !.width = width] :
      conv \in {"d", "u", "x", "X"}, v \in values, comma \in BOOLEAN, zero \in BOOLEAN,
      width \in {0, 12} }

Negative == [plain EXCEPT !.conv = "d", !.value = 2^LongBits - 1234, !.long = TRUE, !.comma = TRUE]

strings ==
  { [plain EXCEPT !.conv = conv, !.value = v, !.left = left, !.width = width, !.field = field,
                  !.star = star, !.attr = attr] :
      conv \in {"s", "a"}, v \in {<< >>, <<"a", "\n", "b">>, <<"1", "2", "3", "4", "5">>, NULL},
      left \in BOOLEAN, width \in {0, 4}, field \in {Unlimited, 3, 10}, star \in BOOLEAN,
      attr \in {NoAttribute, "h"} }

cutNumbers ==
  { [plain EXCEPT !.conv = conv, !.value = 1234567, !.long = TRUE, !.left = left, !.width = width,
                  !.field = field] :
      conv \in {"d", "x", "X"}, left \in BOOLEAN, width \in {0, 5}, field \in {3, 10} }

otherItems ==
  { [plain EXCEPT !.conv = conv, !.attr = attr, !.value = "z"] :
      conv \in {"%", "c", "q"}, attr \in {NoAttribute, "n", "e"} }
    \cup { [plain EXCEPT !.conv = "r", !.value = v] :
             v \in {0, 2^(LongBits - 1) + 14, 2^(LongBits - 1) + 35} }

MCErrorCodeTable ==
  0 :> <<"S", "u", "c", "c", "e", "s", "s">> @@
  (2^(LongBits - 1) + 14) :> <<"N", "o", "t", " ", "F", "o", "u", "n", "d">>

ordinary == numbers(FALSE, Ints) \cup numbers(TRUE, Longs) \cup strings \cup cutNumbers \cup otherItems \cup {Negative}

set(conv) == [plain EXCEPT !.conv = conv]

console(pieces)      == [console |-> TRUE, size |-> 0, pieces |-> pieces]
string(pieces, size) == [console |-> FALSE, size |-> size, pieces |-> pieces]

MCRequests ==
  LET around(d) == <<plainText(<<":", "\n">>), d, plainText(<<"\n">>)>>
      pairs     == otherItems \X otherItems
  IN  { console(around(d)) : d \in ordinary }
        \cup { string(around(d), size) : d \in ordinary, size \in {2, 13, 64} }
        \cup { console(<<set(s), pair[1], set("N"), pair[2]>>) : s \in {"H", "E"}, pair \in pairs }
        \cup { string(<<set(s), plainText(<<"k">>)>>, 8) : s \in {"N", "H", "E"} }
        \cup { console(<<plainText(<<"a">>), unfinished>>) :
                 unfinished \in { set("end"), [set("end") EXCEPT !.width = 12, !.attr = "e"] } }
        \cup { console(<<[set("H") EXCEPT !.width = 5, !.attr = "n"], plainText(<<"a">>)>>),
               string(<<set("end")>>, 8),
               console(<< >>), string(<< >>, 2) }

-----------------------------------------------------------------------------
(* The serial port: the firmware has left nothing, something or a full      *)
(* queue; a text that does not fit into the queue at once.                  *)
MCLeft == { << >>, <<"x">>, <<"x", "y", "z">> }
MCDivisors == { <<"1", "0">>, <<"3", "0">> }
MCTexts == { << >>, <<"a", "b", "c", "d">>, <<"e">> }
MCArriving == <<"1", "2">>
=============================================================================
