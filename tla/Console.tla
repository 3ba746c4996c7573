------------------------------ MODULE Console ------------------------------
(***************************************************************************)
(* The text console of the kernel (kernel/src/graphics.c) with everybody   *)
(* who prints on it: kernel_main, and the handlers that interrupt it, or   *)
(* each other, between any two memory accesses of putChar and next.  They  *)
(* share font.cursorPosition and nothing guards it.                        *)
(*                                                                         *)
(* A glyph is 8 by 16 pixels and the cursor moves by whole glyphs, so the  *)
(* screen is a grid of cells.  A character is <<text, n>>, the n-th of the *)
(* text printed as number text.                                            *)
(***************************************************************************)
EXTENDS Integers, Sequences, FiniteSets

CONSTANTS
  Screens,       \* [columns, rows] of the screens
  MainTexts,     \* what kernel_main prints, line by line
  HandlerTexts,  \* what the handlers print: [keyboard, timer, exception, pageFault]
  StackDepth,    \* the contexts the stack has room for
  InterruptLimit \* bound: interrupts

ASSUME ConsoleAssumption ==
  /\ Screens \subseteq [columns : Nat \ {0}, rows : Nat \ {0}]
  /\ StackDepth \in Nat \ {0} /\ InterruptLimit \in Nat

ASSUME TextsAssumption ==
  /\ MainTexts \in Seq(Seq(STRING))
  /\ HandlerTexts \in [keyboard : Seq(STRING), timer : Seq(STRING), exception : Seq(STRING),
                       pageFault : Seq(STRING)]

VARIABLES
  size,    \* the resolution, in cells
  cursor,  \* font.cursorPosition, in cells: [x, y]
  screen,  \* the characters drawn into each cell <<row, column>>
  IF_flag, \* the interrupt flag of the processor
  main,    \* how many texts kernel_main has begun; one more after int $0x21
  texts,   \* texts begun by anyone
  stack,   \* the calls of print under way, the innermost last: [by, text, id,
           \* n: the character it is at, at: what it does next, x, y: its
           \* registers, flag: the interrupt flag iret restores]
  count,   \* interrupts so far
  torn,    \* an interrupt came in the middle of a character
  parted,  \* the characters for which one came between the two loads of the
           \* place they are drawn at
  lost     \* the stack has run into what lies below it

vars == <<size, cursor, screen, IF_flag, main, texts, stack, count, torn, parted, lost>>

Newline == "\n"

Ink(c) == c \notin {" ", Newline}

-----------------------------------------------------------------------------
Init ==
  /\ size \in Screens
  /\ cursor = [x |-> 0, y |-> 0]
  /\ screen = [c \in (0..(size.rows - 1)) \X (0..(size.columns - 1)) |-> {}]
  /\ IF_flag = FALSE
  /\ main = 0
  /\ texts = 0
  /\ stack = << >>
  /\ count = 0
  /\ torn = FALSE
  /\ parted = {}
  /\ lost = FALSE

context(by, text) ==
  [by |-> by, text |-> text, id |-> texts + 1, n |-> 1, at |-> "char", x |-> 0, y |-> 0,
   flag |-> IF_flag]

(* print(text) is called.  A stack without room grows into what lies below. *)
call(by, text) ==
  IF Len(stack) < StackDepth
    THEN stack' = Append(stack, context(by, text)) /\ texts' = texts + 1 /\ UNCHANGED lost
    ELSE lost' = TRUE /\ UNCHANGED <<texts, stack>>

top == stack[Len(stack)]

at(label) == ~lost /\ stack # << >> /\ top.at = label

set(fields) == stack' = [stack EXCEPT ![Len(stack)] = fields]

goto(label) == set([top EXCEPT !.at = label])

nextChar == set([top EXCEPT !.at = "char", !.n = @ + 1])

char == top.text[top.n]

unchangedOthers == UNCHANGED <<size, IF_flag, main, texts, count, torn, parted, lost>>

-----------------------------------------------------------------------------
(* kernel_main.  Its first line comes before there is a handler for         *)
(* anything, the others after initializeInterrupts has switched interrupts  *)
(* on.                                                                      *)
debugPrint ==
  /\ stack = << >> /\ ~lost
  /\ main < Len(MainTexts)
  /\ call("kernel_main", MainTexts[main + 1])
  /\ main' = main + 1
  /\ UNCHANGED <<size, cursor, screen, IF_flag, count, torn, parted>>

SizeLine == main = 0 /\ debugPrint

RAMLines == main > 0 /\ (main = 1 => IF_flag) /\ debugPrint

InitializeInterrupts ==
  /\ stack = << >>
  /\ main = 1
  /\ ~IF_flag
  /\ IF_flag' = TRUE
  /\ UNCHANGED <<size, cursor, screen, main, texts, stack, count, torn, parted, lost>>

(* int $0x21, an interrupt gate like the keyboard's. *)
SoftwareInterrupt ==
  /\ stack = << >> /\ ~lost
  /\ main = Len(MainTexts)
  /\ call("keyboard", HandlerTexts.keyboard)
  /\ IF_flag' = FALSE
  /\ main' = main + 1
  /\ UNCHANGED <<size, cursor, screen, count, torn, parted>>

-----------------------------------------------------------------------------
(* The handlers.  Those of devices run with interrupts off, an exception's  *)
(* does not.  "exception" stands for a line no handler was made for.        *)
Interrupt(by) ==
  /\ IF_flag /\ ~lost
  /\ count < InterruptLimit
  /\ count' = count + 1
  /\ call(by, HandlerTexts[by])
  /\ IF_flag' = (by = "exception")
  /\ torn' = (torn \/ (stack # << >> /\ top.at \notin {"char", "loop"}))
  /\ parted' = IF at("readX") \/ at("readY") THEN parted \cup {<<top.id, top.n>>} ELSE parted
  /\ UNCHANGED <<size, cursor, screen, main>>

(* The end of a text: kernel_main goes on, the keyboard's handler returns,  *)
(* every other one loops.                                                   *)
EndOfText ==
  /\ at("char") /\ top.n > Len(top.text)
  /\ IF top.by \in {"kernel_main", "keyboard"}
       THEN /\ stack' = SubSeq(stack, 1, Len(stack) - 1)
            /\ IF_flag' = IF top.by = "keyboard" THEN top.flag ELSE IF_flag
       ELSE goto("loop") /\ UNCHANGED IF_flag
  /\ UNCHANGED <<size, cursor, screen, main, texts, count, torn, parted, lost>>

-----------------------------------------------------------------------------
(* print, putChar, put and next.  Each step has one access to the cursor;   *)
(* what it reads stays in a register, as compiled code may have it.         *)

(* put(chr, cursorPosition.x, cursorPosition.y): two loads, and C leaves it *)
(* to the compiler which of the arguments it evaluates first.               *)
glyphAhead == at("char") /\ top.n <= Len(top.text) /\ char # Newline

ReadX ==
  /\ \/ glyphAhead /\ set([top EXCEPT !.at = "readY", !.x = cursor.x])
     \/ at("readX") /\ set([top EXCEPT !.at = "put", !.x = cursor.x])
  /\ UNCHANGED <<cursor, screen>>
  /\ unchangedOthers

ReadY ==
  /\ \/ glyphAhead /\ set([top EXCEPT !.at = "readX", !.y = cursor.y])
     \/ at("readY") /\ set([top EXCEPT !.at = "put", !.y = cursor.y])
  /\ UNCHANGED <<cursor, screen>>
  /\ unchangedOthers

below == top.y >= size.rows

(* Right of the last column a glyph runs into the next line of pixels, and  *)
(* out of the frame buffer if there is none.                                *)
beside == top.x >= size.columns

(* What lies in the grid shows; put clears nothing. *)
Put ==
  /\ at("put")
  /\ Ink(char) => ~below
  /\ screen' = IF below \/ beside THEN screen
               ELSE [screen EXCEPT ![<<top.y, top.x>>] = @ \cup {<<top.id, top.n>>}]
  /\ goto("loadX")
  /\ UNCHANGED cursor
  /\ unchangedOthers

\* Variant: the handler clears the screen before it prints.
PageFaultClears ==
  /\ at("put")
  /\ Ink(char)
  /\ below \/ (beside /\ top.y = size.rows - 1)
  /\ call("pageFault", HandlerTexts.pageFault)
  /\ cursor' = [x |-> 0, y |-> 0]
  /\ UNCHANGED <<size, screen, IF_flag, main, count, torn, parted>>

(* A pixel behind the frame buffer lies in no page kernel_main has mapped.  *)
(* The page fault handler does not return, so what it interrupts is over.   *)
PageFault ==
  /\ at("put")
  /\ Ink(char)
  /\ below \/ (beside /\ top.y = size.rows - 1)
  /\ call("pageFault", HandlerTexts.pageFault)
  /\ UNCHANGED <<size, cursor, screen, IF_flag, main, count, torn, parted>>

(* cursorPosition.x += 8, and the test whether another glyph fits.  It may  *)
(* read x again or use what the addition left in a register.                *)
LoadX ==
  /\ at("loadX")
  /\ set([top EXCEPT !.at = "storeX", !.x = cursor.x + 1])
  /\ UNCHANGED <<cursor, screen>>
  /\ unchangedOthers

StoreX ==
  /\ at("storeX")
  /\ cursor' = [cursor EXCEPT !.x = top.x]
  /\ goto("test")
  /\ UNCHANGED screen
  /\ unchangedOthers

\* Variant: the test looks at the last glyph, not at the next.
fullLate(x) == x > size.columns

full(x) == x >= size.columns

Test ==
  /\ at("test")
  /\ \E x \in {top.x, cursor.x} : IF full(x) THEN goto("home") ELSE nextChar
  /\ UNCHANGED <<cursor, screen>>
  /\ unchangedOthers

\* Variant: the cursor moves down and not back.
HomeKeepsX ==
  /\ \/ at("home")
     \/ at("char") /\ top.n <= Len(top.text) /\ char = Newline
  /\ goto("loadY")
  /\ UNCHANGED <<cursor, screen>>
  /\ unchangedOthers

(* x = 0, at the end of a row or for a newline. *)
Home ==
  /\ \/ at("home")
     \/ at("char") /\ top.n <= Len(top.text) /\ char = Newline
  /\ cursor' = [cursor EXCEPT !.x = 0]
  /\ goto("loadY")
  /\ UNCHANGED screen
  /\ unchangedOthers

(* cursorPosition.y += 16 *)
LoadY ==
  /\ at("loadY")
  /\ set([top EXCEPT !.at = "storeY", !.y = cursor.y + 1])
  /\ UNCHANGED <<cursor, screen>>
  /\ unchangedOthers

\* Variant: the row is not advanced when a row is full.
StoreYNewlineOnly ==
  /\ at("storeY")
  /\ cursor' = IF char = Newline THEN [cursor EXCEPT !.y = top.y] ELSE cursor
  /\ nextChar
  /\ UNCHANGED screen
  /\ unchangedOthers

StoreY ==
  /\ at("storeY")
  /\ cursor' = [cursor EXCEPT !.y = top.y]
  /\ nextChar
  /\ UNCHANGED screen
  /\ unchangedOthers

KernelMain == SizeLine \/ RAMLines \/ InitializeInterrupts \/ SoftwareInterrupt

Printing ==
  \/ ReadX
  \/ ReadY
  \/ Put
  \/ PageFault
  \/ LoadX
  \/ StoreX
  \/ Test
  \/ Home
  \/ LoadY
  \/ StoreY
  \/ EndOfText

Next ==
  \/ KernelMain
  \/ Printing
  \/ \E by \in {"keyboard", "timer", "exception"} : Interrupt(by)

Spec == Init /\ [][Next]_vars

(* The processor goes on executing. *)
FairSpec == Spec /\ WF_vars(KernelMain \/ Printing)

-----------------------------------------------------------------------------
Callers == {"kernel_main"} \cup DOMAIN HandlerTexts

(* The cursor leaves the row by one cell for each text that is interrupted  *)
(* between its addition and its test, and no further.                       *)
TypeOK ==
  /\ cursor.x \in 0..(size.columns + Len(stack))
  /\ cursor.y \in Nat
  /\ \A c \in DOMAIN screen : screen[c] \subseteq (1..texts) \X Nat
  /\ IF_flag \in BOOLEAN /\ torn \in BOOLEAN /\ lost \in BOOLEAN
  /\ parted \subseteq (1..texts) \X Nat
  /\ main \in 0..(Len(MainTexts) + 1)
  /\ Len(stack) <= StackDepth
  /\ \A k \in DOMAIN stack :
       /\ stack[k].by \in Callers
       /\ stack[k].at \in {"char", "readX", "readY", "put", "loadX", "storeX", "test", "home",
                           "loadY", "storeY", "loop"}
       /\ stack[k].n \in 1..(Len(stack[k].text) + 1)
  /\ count \in 0..InterruptLimit

(* Interrupts between two characters do no harm: as long as none came       *)
(* within putChar or next, and the screen is not full, the console is a     *)
(* typewriter.  Characters stand next to each other, none over another.     *)
row(r) ==
  LET filled == {c \in 0..(size.columns - 1) : screen[<<r, c>>] # {}}
  IN  [k \in 1..Cardinality(filled) |-> screen[<<r, k - 1>>]]

lastRow == IF cursor.y < size.rows THEN cursor.y ELSE size.rows - 1

(* Every text printed, by its number, and the places of its characters. *)
textNumbers == 1..(Len(MainTexts) + 1 + InterruptLimit + StackDepth)
places ==
  UNION { 1..Len(t) : t \in {MainTexts[n] : n \in DOMAIN MainTexts}
                             \cup {HandlerTexts[by] : by \in DOMAIN HandlerTexts} }

Paper == INSTANCE Typewriter
  WITH width <- size.columns,
       Chars <- textNumbers \X places,
       lines <- [r \in 1..(lastRow + 1) |-> row(r - 1)],
       intact <- ~torn /\ cursor.y < size.rows

ImplementsTypewriter == Paper!Spec

(* And none is lost: a text under way has all its characters on the screen, *)
(* up to the one it is at.                                                  *)
CharactersShow ==
  ~torn /\ cursor.y < size.rows =>
    \A k \in DOMAIN stack :
      \A m \in 1..(stack[k].n - 1) :
        stack[k].text[m] # Newline =>
          \E c \in DOMAIN screen : <<stack[k].id, m>> \in screen[c]

(* Whatever interrupts whatever, no character of a text stands in a row     *)
(* above an earlier one of it: the rows that get lost are those of others.  *)
(* Within the rows they stand in reading order and none over another, but   *)
(* for those for which an interrupt came between the loads of x and y: they *)
(* are drawn at a place where the cursor has never been.                    *)
before(a, b) == a[1] < b[1] \/ (a[1] = b[1] /\ a[2] < b[2])

TextsKeepTheirOrder ==
  \A a, b \in DOMAIN screen :
    \A c \in screen[a], d \in screen[b] :
      c[1] = d[1] /\ c[2] < d[2] =>
        a[1] <= b[1] /\ ({c, d} \cap parted = {} => before(a, b))

(* The frame buffer is left through its last row only, and through its last *)
(* but for the end of it only if an interrupt tore a character.             *)
FaultAtTheEndOnly ==
  \A k \in 2..Len(stack) :
    stack[k].by = "pageFault" =>
      LET f == stack[k - 1]
      IN  f.y >= size.rows \/ (torn /\ f.y = size.rows - 1 /\ f.x >= size.columns)

(* A write below the last row is the end: the handler of the page fault     *)
(* prints below the last row itself, until the stack is full.               *)
FaultIsTheEnd ==
  (\E k \in 2..Len(stack) : stack[k].by = "pageFault" /\ stack[k - 1].y >= size.rows) ~> lost

=============================================================================
