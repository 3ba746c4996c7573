---------------------------- MODULE ConsoleProofs ----------------------------
(***************************************************************************)
(* Proofs about Console: where the characters of a text come to stand,     *)
(* whoever interrupts whom between any two accesses to the cursor.         *)
(***************************************************************************)
EXTENDS Console, SequenceTheorems, FiniteSetTheorems, TLAPS

(* Places, <<row, column>>, in reading order.                               *)
Place == Nat \X Nat

upTo(a, b) == a[1] < b[1] \/ (a[1] = b[1] /\ a[2] <= b[2])

cursorPlace == <<cursor.y, cursor.x>>

Labels == {"char", "readX", "readY", "put", "loadX", "storeX", "test", "home", "loadY", "storeY",
           "loop"}

(* The character a call is at is not drawn yet.                             *)
Early == {"char", "readX", "readY", "put", "loop"}

Frames == [by : Callers, text : Seq(STRING), id : Nat, n : Nat, at : Labels, x : Nat, y : Nat,
           flag : BOOLEAN]

(* Where the cursor will be, at least, when the call f has done with the    *)
(* character it is at, if the cursor is at r when it goes on.               *)
end(f, r) ==
  CASE f.at \in {"put", "loadX"}  -> <<r[1], r[2] + 1>>
    [] f.at = "storeX"            -> <<r[1], f.x>>
    [] f.at \in {"home", "loadY"} -> <<r[1] + 1, 0>>
    [] f.at = "storeY"            -> <<f.y, 0>>
    [] OTHER                      -> r

(* An interrupt came between its loads of the place it is drawn at.         *)
isParted(f) == <<f.id, f.n>> \in parted

(* What f holds in its registers is no lower than the cursor, and is where  *)
(* the cursor stood unless f is at a character that is parted.              *)
Registers(f, r) ==
  /\ f.at \in {"readX", "put"} => f.y <= r[1]
  /\ ~isParted(f) =>
       /\ f.at = "readX" => f.y = r[1]
       /\ f.at = "readY" => f.x = r[2]
       /\ f.at = "put" => upTo(<<f.y, f.x>>, r)

(* The cursor was at m when f was called, and does not end before m.        *)
Ordered(f, m, r) == upTo(m, end(f, r)) /\ Registers(f, r)

(* The characters of f on the screen. *)
Own(f, r) ==
  \A a \in DOMAIN screen : \A c \in screen[a] :
    c[1] = f.id =>
      /\ c[2] <= f.n /\ (f.at \in Early => c[2] < f.n)
      /\ a[1] <= end(f, r)[1] /\ (c \notin parted => before(a, end(f, r)))
      /\ f.at \in {"readX", "put"} => a[1] <= f.y
      /\ f.at = "put" /\ c \notin parted /\ ~isParted(f) => before(a, <<f.y, f.x>>)

(* How far to the right the k-th call may find the cursor.                  *)
widest(k) == IF torn THEN size.columns + k - 2 ELSE size.columns - 1

Fits(k, f, m, r) ==
  /\ f.at \notin {"test", "home"} => r[2] <= widest(k)
  /\ f.at \in {"readY", "put"} => f.x <= widest(k)
  /\ f.at = "storeX" => f.x <= widest(k) + 1
  /\ f.at = "test" => f.x <= widest(k) + 1 /\ (r[2] = f.x \/ r[2] < size.columns)
  /\ f.at = "home" => r[2] <= widest(k) + 1
  /\ f.by = "keyboard" =>
       /\ f.at = "char" => r[2] < size.columns \/ r[2] = m[2]
       /\ f.at = "test" => r[2] = f.x
       /\ f.at \in {"loadY", "storeY"} => r[2] = 0

isDrawn(id, m) == \E c \in DOMAIN screen : <<id, m>> \in screen[c]

Shown(f, r) ==
  ~torn =>
    /\ \A m \in 1..f.n :
         (m < f.n \/ f.at \notin Early) /\ f.text[m] # Newline =>
           isDrawn(f.id, m) \/ cursor.y >= size.rows
    /\ f.at = "storeY" => f.y = r[1] + 1

CallInv(k, f, m, r) == Ordered(f, m, r) /\ Own(f, r) /\ Fits(k, f, m, r) /\ Shown(f, r)

(* Where the cursor is when the k-th call goes on: at least where it was    *)
(* when the next one was called.                                            *)
resume(mark, k) == IF k = Len(stack) THEN cursorPlace ELSE mark[k + 1]

Calls ==
  \E mark \in [1..Len(stack) -> Place] :
    \A k \in 1..Len(stack) : CallInv(k, stack[k], mark[k], resume(mark, k))

Typed ==
  /\ size \in Screens
  /\ cursor \in [x : Nat, y : Nat]
  /\ texts \in Nat
  /\ screen \in [(0..(size.rows - 1)) \X (0..(size.columns - 1)) -> SUBSET ((1..texts) \X Nat)]
  /\ IF_flag \in BOOLEAN /\ torn \in BOOLEAN /\ lost \in BOOLEAN
  /\ parted \in SUBSET ((1..texts) \X Nat)
  /\ main \in 0..(Len(MainTexts) + 1) /\ count \in 0..InterruptLimit
  /\ stack \in Seq(Frames) /\ Len(stack) <= StackDepth
  /\ \A k \in 1..Len(stack) :
       /\ stack[k].n \in 1..(Len(stack[k].text) + 1)
       /\ stack[k].at \notin {"char", "loop"} => stack[k].n <= Len(stack[k].text)
  /\ stack = << >> => cursor.x < size.columns

(* Texts have their own numbers. *)
Numbered ==
  \A k \in 1..Len(stack) :
    /\ stack[k].id \in 1..texts
    /\ \A l \in 1..Len(stack) : k < l => stack[k].id < stack[l].id

(* Who may stand above whom. *)
Nesting ==
  \A k \in 1..Len(stack) :
    /\ stack[k].by = "kernel_main" => k = 1
    /\ stack[k].by \in {"keyboard", "timer"} =>
         ~IF_flag /\ \A l \in 1..Len(stack) : k < l => stack[l].by = "pageFault"
    /\ ~torn /\ k < Len(stack) =>
         stack[k].at \in {"char", "loop"} \/ stack[k + 1].by = "pageFault"
    /\ k < Len(stack) /\ stack[k].at \in {"readX", "readY"} => isParted(stack[k])

IInv ==
  Typed /\ Numbered /\ Nesting /\ Calls /\ TextsKeepTheirOrder /\ FaultAtTheEndOnly

-----------------------------------------------------------------------------
(* The order of places. *)
LEMMA PlaceFacts ==
  ASSUME NEW a \in Place, NEW b \in Place, NEW c \in Place
  PROVE  /\ a[1] \in Nat /\ a[2] \in Nat /\ a = <<a[1], a[2]>>
         /\ upTo(a, a)
         /\ upTo(a, b) /\ upTo(b, c) => upTo(a, c)
         /\ before(a, b) /\ upTo(b, c) => before(a, c)
         /\ before(a, b) => upTo(a, b)
BY DEF Place, upTo, before

(* Where a call leaves the cursor, case by case.                            *)
LEMMA EndFacts ==
  ASSUME NEW f \in Frames, NEW r \in Place
  PROVE  /\ end(f, r) \in Place
         /\ f.at \in {"put", "loadX"} => end(f, r) = <<r[1], r[2] + 1>>
         /\ f.at = "storeX" => end(f, r) = <<r[1], f.x>>
         /\ f.at \in {"home", "loadY"} => end(f, r) = <<r[1] + 1, 0>>
         /\ f.at = "storeY" => end(f, r) = <<f.y, 0>>
         /\ f.at \in {"char", "readX", "readY", "loop", "test"} => end(f, r) = r
<1>1. r[1] \in Nat /\ r[2] \in Nat /\ f.x \in Nat /\ f.y \in Nat /\ f.at \in Labels
  BY DEF Frames, Place
<1>2. CASE f.at \in {"put", "loadX"}
  BY <1>1, <1>2 DEF end, Place
<1>3. CASE f.at = "storeX"
  BY <1>1, <1>3 DEF end, Place
<1>4. CASE f.at \in {"home", "loadY"}
  BY <1>1, <1>4 DEF end, Place
<1>5. CASE f.at = "storeY"
  BY <1>1, <1>5 DEF end, Place
<1>6. CASE f.at \in {"char", "readX", "readY", "loop", "test"}
  BY <1>1, <1>6 DEF end, Place
<1> QED
  BY <1>1, <1>2, <1>3, <1>4, <1>5, <1>6 DEF Labels

(* The later the cursor stands, the later a call leaves it.                 *)
LEMMA EndMonotone ==
  ASSUME NEW f \in Frames, NEW r \in Place, NEW s \in Place, upTo(r, s)
  PROVE  upTo(end(f, r), end(f, s))
<1>1. /\ r[1] \in Nat /\ r[2] \in Nat /\ s[1] \in Nat /\ s[2] \in Nat
      /\ f.x \in Nat /\ f.y \in Nat /\ f.at \in Labels
  BY DEF Frames, Place
<1>2. CASE f.at \in {"put", "loadX"}
  BY <1>1, <1>2, EndFacts DEF upTo
<1>3. CASE f.at = "storeX"
  BY <1>1, <1>3, EndFacts DEF upTo
<1>4. CASE f.at \in {"home", "loadY"}
  BY <1>1, <1>4, EndFacts DEF upTo
<1>5. CASE f.at = "storeY"
  BY <1>1, <1>5, EndFacts DEF upTo
<1>6. CASE f.at \in {"char", "readX", "readY", "loop", "test"}
  BY <1>1, <1>6, EndFacts DEF upTo
<1> QED
  BY <1>1, <1>2, <1>3, <1>4, <1>5, <1>6 DEF Labels

(* What the types of the variables say about the parts of the state.        *)
LEMMA TypedFacts ==
  ASSUME Typed
  PROVE  /\ size.columns \in Nat \ {0} /\ size.rows \in Nat \ {0}
         /\ cursor.x \in Nat /\ cursor.y \in Nat /\ cursorPlace \in Place
         /\ cursorPlace[1] = cursor.y /\ cursorPlace[2] = cursor.x
         /\ DOMAIN screen = (0..(size.rows - 1)) \X (0..(size.columns - 1))
         /\ DOMAIN screen \subseteq Place
         /\ \A a \in DOMAIN screen : \A c \in screen[a] : c[1] \in 1..texts /\ c[2] \in Nat
         /\ Len(stack) \in Nat /\ DOMAIN stack = 1..Len(stack)
         /\ \A k \in 1..Len(stack) : stack[k] \in Frames
         /\ stack # << >> => Len(stack) \in 1..Len(stack) /\ top \in Frames
<1>1. size.columns \in Nat \ {0} /\ size.rows \in Nat \ {0}
  BY ConsoleAssumption DEF Typed
<1>2. cursor.x \in Nat /\ cursor.y \in Nat
  BY DEF Typed
<1>3. /\ DOMAIN screen = (0..(size.rows - 1)) \X (0..(size.columns - 1))
      /\ \A a \in DOMAIN screen : screen[a] \subseteq (1..texts) \X Nat
  BY DEF Typed
<1>4. DOMAIN screen \subseteq Place
  BY <1>1, <1>3 DEF Place
<1>5. Len(stack) \in Nat /\ DOMAIN stack = 1..Len(stack) /\ stack \in Seq(Frames)
  BY DEF Typed
<1>6. stack # << >> => Len(stack) \in 1..Len(stack)
  BY <1>5
<1> QED
  BY <1>1, <1>2, <1>3, <1>4, <1>5, <1>6 DEF cursorPlace, Place, top

-----------------------------------------------------------------------------
(* What a step leaves alone for the calls it does not concern.              *)
Undisturbed(id) ==
  /\ size' = size /\ DOMAIN screen' = DOMAIN screen
  /\ torn => torn'
  /\ parted \subseteq parted'
  /\ \A a \in DOMAIN screen : \A c \in screen'[a] : c[1] = id => c \in screen[a]
  /\ \A a \in DOMAIN screen : screen[a] \subseteq screen'[a]
  /\ ~torn' => cursor.y <= cursor'.y

(* What is known of a call stays while others draw and move the cursor.     *)
LEMMA CallKept ==
  ASSUME Typed, NEW k \in Nat \ {0}, NEW f \in Frames, NEW m \in Place, NEW r \in Place,
         torn' \in BOOLEAN, cursor'.y \in Nat, Undisturbed(f.id), CallInv(k, f, m, r)
  PROVE  CallInv(k, f, m, r)'
<1>1. /\ size.columns \in Nat \ {0} /\ size.rows \in Nat \ {0} /\ cursor.y \in Nat
      /\ torn \in BOOLEAN /\ r[2] \in Nat /\ f.x \in Nat /\ f.n \in Nat
  BY TypedFacts DEF Typed, Place, Frames
<1>10. isParted(f) => isParted(f)'
  BY DEF isParted, Undisturbed
<1>2. Ordered(f, m, r)'
  BY <1>10 DEF CallInv, Ordered, Registers, upTo, end
<1>3. Own(f, r)'
  <2> SUFFICES ASSUME NEW a \in DOMAIN screen, NEW c \in screen[a], c[1] = f.id
               PROVE  /\ c[2] <= f.n /\ (f.at \in Early => c[2] < f.n)
                      /\ a[1] <= end(f, r)[1]
                      /\ c \notin parted' => before(a, end(f, r))
                      /\ f.at \in {"readX", "put"} => a[1] <= f.y
                      /\ f.at = "put" /\ c \notin parted' /\ ~isParted(f)' =>
                           before(a, <<f.y, f.x>>)
    BY DEF Own, Undisturbed, before, end
  <2>1. c \notin parted' => c \notin parted
    BY DEF Undisturbed
  <2> QED
    BY <1>10, <2>1 DEF CallInv, Own
<1>4. widest(k) <= widest(k)' /\ widest(k) \in Int /\ widest(k)' \in Int
  BY <1>1 DEF widest, Undisturbed
<1>5. Fits(k, f, m, r)'
  BY <1>1, <1>4 DEF CallInv, Fits, Undisturbed
<1>6. ASSUME NEW n, isDrawn(f.id, n) PROVE isDrawn(f.id, n)'
  BY <1>6 DEF isDrawn, Undisturbed
<1>7. ~torn' => ~torn /\ cursor.y <= cursor'.y
  BY DEF Undisturbed
<1>8. Shown(f, r)'
  <2> SUFFICES ASSUME ~torn' PROVE Shown(f, r)'
    BY DEF Shown
  <2>1. ASSUME NEW n \in 1..f.n, n < f.n \/ f.at \notin Early,
               f.text[n] # Newline
        PROVE  isDrawn(f.id, n)' \/ cursor'.y >= size'.rows
    <3>1. isDrawn(f.id, n) \/ cursor.y >= size.rows
      BY <1>7, <2>1 DEF CallInv, Shown
    <3>2. cursor.y >= size.rows => cursor'.y >= size'.rows
      BY <1>1, <1>7 DEF Undisturbed
    <3> QED
      BY <1>6, <3>1, <3>2
  <2>2. f.at = "storeY" => f.y = r[1] + 1
    BY <1>7 DEF CallInv, Shown
  <2> QED
    BY <2>1, <2>2 DEF Shown
<1> QED
  BY <1>2, <1>3, <1>5, <1>8 DEF CallInv

(* A call goes on where the one above it has left the cursor.               *)
LEMMA CallResumed ==
  ASSUME Typed, NEW k \in Nat \ {0}, NEW f \in Frames, NEW m \in Place,
         NEW r \in Place, NEW s \in Place, upTo(r, s), s[2] = r[2] \/ s[2] < size.columns,
         f.by # "keyboard", ~torn => f.at # "storeY",
         f.at \in {"readX", "readY"} => isParted(f), CallInv(k, f, m, r)
  PROVE  CallInv(k, f, m, s)
<1>1. /\ size.columns \in Nat \ {0} /\ torn \in BOOLEAN /\ DOMAIN screen \subseteq Place
      /\ r[2] \in Nat /\ s[2] \in Nat /\ f.x \in Nat /\ f.y \in Nat
  BY TypedFacts DEF Typed, Place, Frames
<1>2. end(f, r) \in Place /\ end(f, s) \in Place /\ upTo(end(f, r), end(f, s))
  BY EndFacts, EndMonotone
<1>3. Ordered(f, m, s)
  <2>1. upTo(m, end(f, s))
    BY <1>2, PlaceFacts DEF CallInv, Ordered
  <2>2. <<f.y, f.x>> \in Place
    BY <1>1 DEF Place
  <2>3. ~isParted(f) /\ f.at = "put" => upTo(<<f.y, f.x>>, s)
    BY <2>2, PlaceFacts DEF CallInv, Ordered, Registers
  <2>4. f.at \in {"readX", "put"} => f.y <= s[1]
    <3>1. r[1] \in Nat /\ s[1] \in Nat /\ r[1] <= s[1]
      BY DEF Place, upTo
    <3> QED
      BY <1>1, <3>1 DEF CallInv, Ordered, Registers
  <2> QED
    BY <2>1, <2>3, <2>4 DEF Ordered, Registers
<1>4. Own(f, s)
  <2> SUFFICES ASSUME NEW a \in DOMAIN screen, NEW c \in screen[a], c[1] = f.id
               PROVE  /\ c[2] <= f.n /\ (f.at \in Early => c[2] < f.n)
                      /\ a[1] <= end(f, s)[1] /\ (c \notin parted => before(a, end(f, s)))
                      /\ f.at \in {"readX", "put"} => a[1] <= f.y
                      /\ f.at = "put" /\ c \notin parted /\ ~isParted(f) =>
                           before(a, <<f.y, f.x>>)
    BY DEF Own
  <2>1. /\ c[2] <= f.n /\ (f.at \in Early => c[2] < f.n)
        /\ a[1] <= end(f, r)[1] /\ (c \notin parted => before(a, end(f, r)))
        /\ f.at \in {"readX", "put"} => a[1] <= f.y
        /\ f.at = "put" /\ c \notin parted /\ ~isParted(f) => before(a, <<f.y, f.x>>)
    BY DEF CallInv, Own
  <2>2. c \notin parted => before(a, end(f, s))
    BY <1>1, <1>2, <2>1, PlaceFacts
  <2>3. a[1] <= end(f, s)[1]
    <3>1. /\ a[1] \in Nat /\ end(f, r)[1] \in Nat /\ end(f, s)[1] \in Nat
          /\ end(f, r)[1] <= end(f, s)[1]
      BY <1>1, <1>2 DEF Place, upTo
    <3> QED
      BY <2>1, <3>1
  <2> QED
    BY <2>1, <2>2, <2>3
<1>5. Fits(k, f, m, s)
  <2>1. widest(k) \in Int /\ size.columns - 1 <= widest(k)
    BY <1>1 DEF widest
  <2> QED
    BY <1>1, <2>1 DEF CallInv, Fits
<1>6. Shown(f, s)
  BY DEF CallInv, Shown
<1> QED
  BY <1>3, <1>4, <1>5, <1>6 DEF CallInv

(* The innermost call does something. *)
LEMMA TopStep ==
  ASSUME Typed, Calls, stack # << >>,
         NEW g \in Frames, stack' = [stack EXCEPT ![Len(stack)] = g],
         torn' \in BOOLEAN, cursor'.y \in Nat,
         \A k \in 1..Len(stack) : k # Len(stack) => Undisturbed(stack[k].id),
         \A m \in Place :
           CallInv(Len(stack), top, m, cursorPlace) => CallInv(Len(stack), top, m, cursorPlace)'
  PROVE  Calls'
<1>1. PICK mark \in [1..Len(stack) -> Place] :
        \A k \in 1..Len(stack) : CallInv(k, stack[k], mark[k], resume(mark, k))
  BY DEF Calls
<1>2. /\ Len(stack) \in Nat /\ Len(stack) \in 1..Len(stack)
      /\ \A k \in 1..Len(stack) : stack[k] \in Frames
  BY TypedFacts
<1>3. /\ Len(stack') = Len(stack)
      /\ \A k \in 1..Len(stack) : k # Len(stack) => stack'[k] = stack[k]
  BY <1>2 DEF Typed
<1>4. mark \in [1..Len(stack') -> Place]
  BY <1>3
<1>5. ASSUME NEW k \in 1..Len(stack), k # Len(stack)
      PROVE  CallInv(k, stack[k], mark[k], resume(mark, k))'
  <2>1. k \in Nat \ {0} /\ k + 1 \in 1..Len(stack)
    BY <1>2, <1>5
  <2>2. PICK f, m, r : f = stack[k] /\ m = mark[k] /\ r = mark[k + 1]
    OBVIOUS
  <2>3. f \in Frames /\ m \in Place /\ r \in Place
    BY <1>2, <2>1, <2>2
  <2>4. CallInv(k, f, m, r)
    BY <1>1, <1>5, <2>2 DEF resume
  <2>5. Undisturbed(f.id)
    BY <1>5, <2>2
  <2>6. CallInv(k, f, m, r)'
    BY <2>1, <2>3, <2>4, <2>5, CallKept
  <2>7. f = stack'[k] /\ m = mark[k] /\ r = resume(mark, k)'
    BY <1>3, <1>5, <2>2 DEF resume
  <2> QED
    BY <2>6, <2>7
<1>6. CallInv(Len(stack), top, mark[Len(stack)], cursorPlace)
  BY <1>1, <1>2 DEF resume, top
<1>7. ASSUME NEW k, k = Len(stack)
      PROVE  CallInv(k, stack[k], mark[k], resume(mark, k))'
  <2>1. PICK m \in Place : m = mark[k]
    BY <1>2, <1>7
  <2>2. CallInv(Len(stack), top, m, cursorPlace)'
    BY <1>6, <1>7, <2>1
  <2>3. Len(stack') = k /\ resume(mark, k)' = cursorPlace' /\ top' = stack'[k]
    BY <1>3, <1>7 DEF resume, top
  <2> QED
    BY <2>1, <2>2, <2>3
<1>8. \A k \in 1..Len(stack') : CallInv(k, stack[k], mark[k], resume(mark, k))'
  BY <1>3, <1>5, <1>7
<1> QED
  BY <1>4, <1>8 DEF Calls

(* print is called. *)
LEMMA PushStep ==
  ASSUME Typed, Calls,
         NEW g \in Frames, stack' = Append(stack, g),
         g.at = "char", g.n = 1, g.id = texts + 1,
         UNCHANGED <<size, cursor, screen>>, torn' \in BOOLEAN, torn => torn',
         parted \subseteq parted',
         ~torn' /\ stack # << >> => top.at \in {"char", "loop", "put"}
  PROVE  Calls'
<1>1. PICK mark \in [1..Len(stack) -> Place] :
        \A k \in 1..Len(stack) : CallInv(k, stack[k], mark[k], resume(mark, k))
  BY DEF Calls
<1>2. /\ Len(stack) \in Nat /\ \A k \in 1..Len(stack) : stack[k] \in Frames
      /\ cursorPlace \in Place /\ cursorPlace' = cursorPlace /\ cursor.y \in Nat /\ cursor.x \in Nat
      /\ size.columns \in Nat \ {0}
  BY TypedFacts DEF cursorPlace
<1>3. PICK last \in Place : last = cursorPlace
  BY <1>2
<1>4. PICK length \in Nat : length = Len(stack)
  BY <1>2
<1> DEFINE marks == [k \in 1..(length + 1) |-> IF k = length + 1 THEN last ELSE mark[k]]
<1>5. /\ Len(stack') = length + 1 /\ stack'[length + 1] = g
      /\ \A k \in 1..length : stack'[k] = stack[k]
  BY <1>4 DEF Typed
<1>6. marks \in [1..(length + 1) -> Place] /\ marks[length + 1] = last
      /\ \A k \in 1..length : marks[k] = mark[k]
  BY <1>4
<1> HIDE DEF marks
<1>7. ASSUME NEW id PROVE Undisturbed(id)
  BY <1>2 DEF Undisturbed
<1>8. ASSUME NEW k \in 1..length
      PROVE  CallInv(k, stack[k], marks[k], resume(marks, k))'
  <2>1. k \in Nat \ {0} /\ k \in 1..Len(stack) /\ k # length + 1
    BY <1>4
  <2>2. PICK f, m, r : f = stack[k] /\ m = mark[k] /\ r = marks[k + 1]
    OBVIOUS
  <2>3. r = resume(mark, k)
    <3>1. CASE k = length
      BY <1>3, <1>4, <1>6, <2>2, <3>1 DEF resume
    <3>2. CASE k # length
      <4>1. k + 1 \in 1..length
        BY <1>4, <3>2
      <4> QED
        BY <1>4, <1>6, <2>2, <3>2, <4>1 DEF resume
    <3> QED
      BY <3>1, <3>2
  <2>4. f \in Frames /\ m \in Place /\ r \in Place
    <3>1. k + 1 \in 1..(length + 1)
      BY <1>4
    <3> QED
      BY <1>2, <1>6, <2>1, <2>2, <3>1
  <2>5. CallInv(k, f, m, r)
    BY <1>1, <2>1, <2>2, <2>3
  <2>6. CallInv(k, f, m, r)'
    BY <1>2, <1>7, <2>1, <2>4, <2>5, CallKept
  <2>7. f = stack'[k] /\ m = marks[k] /\ r = resume(marks, k)'
    BY <1>5, <1>6, <2>1, <2>2 DEF resume
  <2> QED
    BY <2>6, <2>7
<1>9. CallInv(length + 1, g, last, last)'
  <2>1. g.text \in Seq(STRING) /\ g.at = "char" /\ g.n = 1 /\ g.id = texts + 1
        /\ last[1] = cursor.y /\ last[2] = cursor.x /\ last[2] \in Nat
    BY <1>2, <1>3 DEF Frames, cursorPlace
  <2>2. Ordered(g, last, last)'
    BY <1>3, <2>1, EndFacts, PlaceFacts DEF Ordered, Registers, end, upTo
  <2>3. Own(g, last)'
    <3>1. \A a \in DOMAIN screen : \A c \in screen[a] : c[1] \in 1..texts /\ texts \in Nat
      BY TypedFacts DEF Typed
    <3>2. \A a \in DOMAIN screen : \A c \in screen[a] : c[1] # g.id
      BY <2>1, <3>1
    <3> QED
      BY <3>2 DEF Own
  <2>4. last[2] <= widest(length + 1)'
    <3>1. CASE stack = << >>
      BY <1>2, <1>4, <2>1, <3>1 DEF Typed, widest
    <3>2. CASE stack # << >>
      <4>1. length \in 1..Len(stack)
        BY <1>4, <3>2, TypedFacts
      <4>2. Fits(length, top, mark[length], last) /\ top \in Frames
        BY <1>1, <1>3, <1>4, <3>2, <4>1, TypedFacts DEF CallInv, resume, top
      <4>3. /\ top.at \notin {"test", "home"} => last[2] <= widest(length)
            /\ last[2] <= widest(length) + 1 \/ last[2] < size.columns
        <5>1. widest(length) \in Int
          BY <1>2, <1>4 DEF widest
        <5>2. top.x \in Nat
          BY <4>2 DEF Frames
        <5> QED
          BY <2>1, <4>2, <5>1, <5>2 DEF Fits
      <4>4. CASE torn'
        BY <1>2, <2>1, <4>1, <4>3, <4>4 DEF widest
      <4>5. CASE ~torn'
        BY <1>2, <2>1, <3>2, <4>1, <4>3, <4>5 DEF widest
      <4> QED
        BY <4>4, <4>5
    <3> QED
      BY <3>1, <3>2
  <2>5. Fits(length + 1, g, last, last)'
    BY <2>1, <2>4 DEF Fits
  <2>6. Shown(g, last)'
    BY <2>1 DEF Shown, Early
  <2> QED
    BY <2>2, <2>3, <2>5, <2>6 DEF CallInv
<1>10. CallInv(length + 1, stack[length + 1], marks[length + 1], resume(marks, length + 1))'
  <2>1. last = resume(marks, length + 1)'
    BY <1>2, <1>3, <1>5 DEF resume
  <2> QED
    BY <1>5, <1>6, <1>9, <2>1
<1>11. \A k \in 1..Len(stack') : CallInv(k, stack[k], marks[k], resume(marks, k))'
  BY <1>5, <1>8, <1>10
<1> QED
  BY <1>5, <1>6, <1>11 DEF Calls

(* print returns, to the call it has interrupted or to nobody.              *)
LEMMA PopStep ==
  ASSUME Typed, Nesting, Calls, stack # << >>,
         stack' = SubSeq(stack, 1, Len(stack) - 1),
         top.at = "char", top.by \in {"kernel_main", "keyboard"},
         UNCHANGED <<size, cursor, screen, torn, parted>>
  PROVE  Calls' /\ (stack' = << >> => cursor.x < size.columns)
<1>1. PICK mark \in [1..Len(stack) -> Place] :
        \A k \in 1..Len(stack) : CallInv(k, stack[k], mark[k], resume(mark, k))
  BY DEF Calls
<1>2. /\ Len(stack) \in Nat /\ Len(stack) \in 1..Len(stack)
      /\ \A k \in 1..Len(stack) : stack[k] \in Frames
      /\ cursorPlace \in Place /\ cursorPlace' = cursorPlace /\ cursor.y \in Nat /\ cursor.x \in Nat
      /\ cursorPlace[2] = cursor.x
      /\ size.columns \in Nat \ {0} /\ torn \in BOOLEAN
  BY TypedFacts DEF cursorPlace, Typed
<1>3. PICK last \in Place : last = cursorPlace
  BY <1>2
<1>4. PICK length \in Nat : Len(stack) = length + 1
  <2>1. Len(stack) - 1 \in Nat /\ Len(stack) = (Len(stack) - 1) + 1
    BY <1>2
  <2> QED
    BY <2>1
<1>5. Len(stack') = length /\ \A k \in 1..length : stack'[k] = stack[k]
  BY <1>4 DEF Typed
<1>6. PICK f, m : f = top /\ m = mark[length + 1]
  OBVIOUS
<1>7. f \in Frames /\ m \in Place /\ CallInv(length + 1, f, m, last) /\ f.at = "char"
  BY <1>1, <1>2, <1>3, <1>4, <1>6 DEF resume, top
<1>8. upTo(m, last)
  BY <1>7, EndFacts DEF CallInv, Ordered
<1>9. f.by = "keyboard" => last[2] < size.columns \/ last[2] = m[2]
  BY <1>7 DEF CallInv, Fits
<1>10. ASSUME NEW k \in 1..length
       PROVE  CallInv(k, stack[k], mark[k], resume(mark, k))'
  <2>1. k \in Nat \ {0} /\ k \in 1..Len(stack) /\ k # Len(stack)
        /\ (k # length => k + 1 \in 1..length)
    BY <1>4
  <2>2. PICK h, n : h = stack[k] /\ n = mark[k]
    OBVIOUS
  <2>3. h \in Frames /\ n \in Place
    BY <1>2, <2>1, <2>2
  <2>4. CASE k # length
    <3>1. PICK r \in Place : r = mark[k + 1]
      BY <1>4, <2>1, <2>4
    <3>2. CallInv(k, h, n, r)
      BY <1>1, <2>1, <2>2, <3>1 DEF resume
    <3>3. Undisturbed(h.id)
      BY <1>2 DEF Undisturbed
    <3>4. CallInv(k, h, n, r)'
      BY <1>2, <2>1, <2>3, <3>2, <3>3, CallKept
    <3>5. h = stack'[k] /\ r = resume(mark, k)'
      BY <1>5, <2>2, <2>4, <3>1 DEF resume
    <3> QED
      BY <2>2, <3>4, <3>5
  <2>5. CASE k = length
    <3>1. CallInv(k, h, n, m)
      BY <1>1, <1>4, <1>6, <2>1, <2>2, <2>5 DEF resume
    <3>2. top.by = "keyboard"
      <4>1. Len(stack) # 1 /\ top = stack[Len(stack)]
        BY <1>4, <2>1, <2>5 DEF top
      <4> QED
        BY <1>2, <4>1 DEF Nesting
    <3>3. h.by # "keyboard"
      <4>1. k < Len(stack)
        BY <1>4, <2>5
      <4> QED
        BY <1>2, <2>1, <2>2, <3>2, <4>1 DEF Nesting, top
    <3>4. ~torn => h.at # "storeY"
      <4>1. k < Len(stack) /\ stack[k + 1] = top
        BY <1>4, <2>5 DEF top
      <4> QED
        BY <2>1, <2>2, <3>2, <4>1 DEF Nesting
    <3>9. h.at \in {"readX", "readY"} => isParted(h)
      <4>1. k < Len(stack)
        BY <1>4, <2>5
      <4> QED
        BY <2>1, <2>2, <4>1 DEF Nesting
    <3>5. CallInv(k, h, n, last)
      BY <1>6, <1>7, <1>8, <1>9, <2>1, <2>3, <3>1, <3>2, <3>3, <3>4, <3>9, CallResumed
    <3>6. Undisturbed(h.id)
      BY <1>2 DEF Undisturbed
    <3>7. CallInv(k, h, n, last)'
      BY <1>2, <2>1, <2>3, <3>5, <3>6, CallKept
    <3>8. h = stack'[k] /\ last = resume(mark, k)'
      BY <1>2, <1>3, <1>5, <2>2, <2>5 DEF resume
    <3> QED
      BY <2>2, <3>7, <3>8
  <2> QED
    BY <2>4, <2>5
<1>11. Calls'
  <2> DEFINE marks == [k \in 1..length |-> mark[k]]
  <2>1. marks \in [1..length -> Place] /\ \A k \in 1..length : marks[k] = mark[k]
    BY <1>4
  <2> HIDE DEF marks
  <2>2. ASSUME NEW k \in 1..length PROVE resume(marks, k)' = resume(mark, k)'
    <3>1. k # length => k + 1 \in 1..length
      BY <1>4
    <3> QED
      BY <1>5, <2>1, <3>1 DEF resume
  <2>3. \A k \in 1..Len(stack') : CallInv(k, stack[k], marks[k], resume(marks, k))'
    BY <1>5, <1>10, <2>1, <2>2
  <2> QED
    BY <1>5, <2>1, <2>3 DEF Calls
<1>12. stack' = << >> => cursor.x < size.columns
  <2> SUFFICES ASSUME length = 0 PROVE cursor.x < size.columns
    BY <1>5
  <2>1. last[2] <= widest(1)
    BY <1>7 DEF CallInv, Fits
  <2> QED
    BY <1>2, <1>3, <2>1 DEF widest
<1> QED
  BY <1>11, <1>12

-----------------------------------------------------------------------------
(* What a step from f to g, with the cursor at r and then at s, may load    *)
(* for put.                                                                 *)
Reads(f, g, r, s) ==
  /\ g.at \in {"readX", "readY", "put"} =>
       s = r /\ g.n = f.n /\ f.at \in {"char", "readX", "readY"}
  /\ g.at = "readX" => g.y = r[1]
  /\ g.at = "readY" => g.x = r[2]
  /\ g.at = "put" =>
       \/ f.at = "readX" /\ g.x = r[2] /\ g.y = f.y
       \/ f.at = "readY" /\ g.x = f.x /\ g.y = r[1]

(* The innermost call moves on from f to g, and the cursor from r to s,     *)
(* without a mark on the screen.                                            *)
LEMMA Advance ==
  ASSUME Typed, NEW k \in Nat \ {0}, NEW f \in Frames, NEW g \in Frames,
         NEW m \in Place, NEW r \in Place, NEW s \in Place,
         g.id = f.id, g.text = f.text, g.by = f.by, f.n <= g.n,
         UNCHANGED <<size, screen, torn, parted>>, cursor'.y \in Nat,
         r[1] = cursor.y, s[1] = cursor'.y,
         upTo(end(f, r), end(g, s)),
         g.at \in Early => f.n < g.n \/ f.at \in Early,
         Reads(f, g, r, s),
         Fits(k, f, m, r) => Fits(k, g, m, s),
         \A n \in 1..g.n : (n < g.n \/ g.at \notin Early) /\ g.text[n] # Newline =>
                              n \in 1..f.n /\ (n < f.n \/ f.at \notin Early),
         ~torn /\ (f.at = "storeY" => f.y = r[1] + 1) =>
           cursor.y <= cursor'.y /\ (g.at = "storeY" => g.y = s[1] + 1),
         CallInv(k, f, m, r)
  PROVE  CallInv(k, g, m, s)'
<1>1. /\ end(f, r) \in Place /\ end(g, s) \in Place /\ DOMAIN screen \subseteq Place
      /\ f.n \in Nat /\ g.n \in Nat /\ r[1] \in Nat /\ r[2] \in Nat
      /\ \A a \in DOMAIN screen : \A c \in screen[a] : c[2] \in Nat
      /\ size.rows \in Nat /\ cursor.y \in Nat
  BY EndFacts, TypedFacts DEF Frames, Place
<1>6. /\ f.x \in Nat /\ f.y \in Nat /\ g.x \in Nat /\ g.y \in Nat
      /\ g.n = f.n => (isParted(g) <=> isParted(f))
  BY DEF Frames, isParted
<1>7. f.at \in {"char", "readX", "readY"} => end(f, r) = r
  BY EndFacts
<1>2. Ordered(g, m, s)'
  <2>1. upTo(m, end(g, s))
    BY <1>1, PlaceFacts DEF CallInv, Ordered
  <2>2. Registers(f, r)
    BY DEF CallInv, Ordered
  <2>3. g.at \in {"readX", "put"} => g.y <= s[1]
    BY <1>1, <1>6, <2>2 DEF Registers, Reads
  <2>4. ~isParted(g) =>
          /\ g.at = "readX" => g.y = s[1]
          /\ g.at = "readY" => g.x = s[2]
    BY DEF Reads
  <2>5. ~isParted(g) /\ g.at = "put" => g.y = s[1] /\ g.x = s[2]
    BY <1>6, <2>2 DEF Registers, Reads
  <2>6. Registers(g, s)
    BY <1>1, <2>3, <2>4, <2>5 DEF Registers, upTo, Reads
  <2> QED
    BY <2>1, <2>6 DEF Ordered, Registers, isParted, upTo, end
<1>3. Own(g, s)'
  <2> SUFFICES ASSUME NEW a \in DOMAIN screen, NEW c \in screen[a], c[1] = g.id
               PROVE  /\ c[2] <= g.n /\ (g.at \in Early => c[2] < g.n)
                      /\ a[1] <= end(g, s)[1] /\ (c \notin parted => before(a, end(g, s)))
                      /\ g.at \in {"readX", "put"} => a[1] <= g.y
                      /\ g.at = "put" /\ c \notin parted /\ ~isParted(g) =>
                           before(a, <<g.y, g.x>>)
    BY DEF Own, before, end, Early, isParted
  <2>1. /\ c[2] <= f.n /\ (f.at \in Early => c[2] < f.n)
        /\ a[1] <= end(f, r)[1] /\ (c \notin parted => before(a, end(f, r)))
        /\ f.at \in {"readX", "put"} => a[1] <= f.y
    BY DEF CallInv, Own, Early
  <2>2. a \in Place /\ a[1] \in Nat /\ c[2] \in Nat
    BY <1>1 DEF Place
  <2>3. c[2] <= g.n /\ (g.at \in Early => c[2] < g.n)
    BY <1>1, <2>1, <2>2
  <2>4. c \notin parted => before(a, end(g, s))
    BY <1>1, <2>1, <2>2, PlaceFacts
  <2>5. a[1] <= end(g, s)[1]
    <3>1. /\ end(f, r)[1] \in Nat /\ end(g, s)[1] \in Nat
          /\ end(f, r)[1] <= end(g, s)[1]
      BY <1>1 DEF Place, upTo
    <3> QED
      BY <2>1, <2>2, <3>1
  <2>6. g.at \in {"readX", "put"} => a[1] <= g.y
    BY <1>7, <2>1 DEF Reads
  <2>7. g.at = "put" /\ c \notin parted /\ ~isParted(g) => before(a, <<g.y, g.x>>)
    <3>1. g.at = "put" /\ ~isParted(g) => g.y = r[1] /\ g.x = r[2]
      BY <1>6 DEF CallInv, Ordered, Registers, Reads
    <3>2. g.at = "put" /\ c \notin parted => before(a, r)
      BY <1>7, <2>1 DEF Reads
    <3> QED
      BY <3>1, <3>2 DEF before
  <2> QED
    BY <2>3, <2>4, <2>5, <2>6, <2>7
<1>4. Fits(k, g, m, s)'
  BY DEF CallInv, Fits, widest
<1>5. Shown(g, s)'
  <2> SUFFICES ASSUME ~torn
               PROVE  /\ \A n \in 1..g.n :
                           (n < g.n \/ g.at \notin Early) /\ g.text[n] # Newline =>
                             isDrawn(g.id, n) \/ cursor'.y >= size.rows
                      /\ g.at = "storeY" => g.y = s[1] + 1
    BY DEF Shown, isDrawn, Early
  <2>1. /\ \A n \in 1..f.n :
             (n < f.n \/ f.at \notin Early) /\ f.text[n] # Newline =>
               isDrawn(f.id, n) \/ cursor.y >= size.rows
        /\ f.at = "storeY" => f.y = r[1] + 1
    BY DEF CallInv, Shown, Early
  <2>2. cursor.y <= cursor'.y /\ (g.at = "storeY" => g.y = s[1] + 1)
    BY <2>1
  <2>3. cursor.y >= size.rows => cursor'.y >= size.rows
    BY <1>1, <2>2
  <2> QED
    BY <2>1, <2>2, <2>3
<1> QED
  BY <1>2, <1>3, <1>4, <1>5 DEF CallInv

(* ... so a step that draws nothing keeps what is known of the calls.       *)
LEMMA QuietStep ==
  ASSUME Typed, Calls, stack # << >>,
         NEW f \in Frames, f = top, NEW g \in Frames, stack' = [stack EXCEPT ![Len(stack)] = g],
         NEW r \in Place, r = cursorPlace, NEW s \in Place, s = cursorPlace',
         g.id = f.id, g.text = f.text, g.by = f.by, f.n <= g.n,
         UNCHANGED <<size, screen, torn, parted>>,
         upTo(end(f, r), end(g, s)),
         g.at \in Early => f.n < g.n \/ f.at \in Early,
         Reads(f, g, r, s),
         \A k \in Nat \ {0}, m \in Place : Fits(k, f, m, r) => Fits(k, g, m, s),
         \A n \in 1..g.n : (n < g.n \/ g.at \notin Early) /\ g.text[n] # Newline =>
                              n \in 1..f.n /\ (n < f.n \/ f.at \notin Early),
         ~torn /\ (f.at = "storeY" => f.y = r[1] + 1) =>
           r[1] <= s[1] /\ (g.at = "storeY" => g.y = s[1] + 1)
  PROVE  Calls'
<1>1. /\ Len(stack) \in Nat /\ Len(stack) \in 1..Len(stack)
      /\ cursorPlace[1] = cursor.y /\ cursorPlace'[1] = cursor'.y /\ s[1] \in Nat
  BY TypedFacts DEF cursorPlace, Place
<1>2. PICK length \in Nat \ {0} : length = Len(stack)
  BY <1>1
<1>3. Len(stack') = length /\ top' = g
  BY <1>1, <1>2 DEF Typed, top
<1>4. \A m \in Place : CallInv(length, f, m, r) => CallInv(length, g, m, s)'
  <2> SUFFICES ASSUME NEW m \in Place, CallInv(length, f, m, r) PROVE CallInv(length, g, m, s)'
    OBVIOUS
  <2>1. r[1] = cursor.y /\ s[1] = cursor'.y /\ cursor'.y \in Nat
    BY <1>1
  <2>2. Fits(length, f, m, r) => Fits(length, g, m, s)
    BY <1>2
  <2> QED
    BY <2>1, <2>2, Advance
<1>5. \A m \in Place :
        CallInv(Len(stack), top, m, cursorPlace) => CallInv(Len(stack), top, m, cursorPlace)'
  BY <1>2, <1>3, <1>4
<1>6. ~torn => cursor.y <= cursor'.y
  <2>1. PICK mark \in [1..Len(stack) -> Place] :
          \A k \in 1..Len(stack) : CallInv(k, stack[k], mark[k], resume(mark, k))
    BY DEF Calls
  <2>2. Shown(f, r)
    BY <1>1, <2>1 DEF resume, top, CallInv
  <2> QED
    BY <1>1, <2>2 DEF Shown
<1>7. \A k \in 1..Len(stack) : Undisturbed(stack[k].id)
  BY <1>6 DEF Undisturbed
<1>8. torn' \in BOOLEAN /\ cursor'.y \in Nat
  BY <1>1 DEF Typed
<1> QED
  BY <1>5, <1>7, <1>8, TopStep

(* ... and about the call that is running.                                  *)
LEMMA TopFacts ==
  ASSUME Typed, stack # << >>
  PROVE  /\ top \in Frames /\ top.at \in Labels /\ top.n \in Nat \ {0}
         /\ top.x \in Nat /\ top.y \in Nat
         /\ top.n <= Len(top.text) + 1 /\ Len(top.text) \in Nat
         /\ top.at \notin {"char", "loop"} => top.n <= Len(top.text)
         /\ \A k \in Nat \ {0} : widest(k) \in Int /\ size.columns - 1 <= widest(k)
<1>1. top \in Frames /\ Len(stack) \in 1..Len(stack) /\ size.columns \in Nat \ {0}
  BY TypedFacts
<1>2. /\ top.n \in 1..(Len(top.text) + 1)
      /\ top.at \notin {"char", "loop"} => top.n <= Len(top.text)
  BY <1>1 DEF Typed, top
<1>3. top.text \in Seq(STRING) /\ top.at \in Labels /\ top.x \in Nat /\ top.y \in Nat
  BY <1>1 DEF Frames
<1>4. \A k \in Nat \ {0} : widest(k) \in Int /\ size.columns - 1 <= widest(k)
  BY <1>1 DEF widest
<1> QED
  BY <1>1, <1>2, <1>3, <1>4

(* Each access to the cursor: first the two loads of its place.             *)
LEMMA ReadCalls ==
  ASSUME Typed, Calls, stack # << >>, UNCHANGED <<size, cursor, screen, torn, parted>>,
         NEW f \in Frames, f = top, NEW g \in Frames, stack' = [stack EXCEPT ![Len(stack)] = g],
         g.id = f.id, g.text = f.text, g.by = f.by, g.n = f.n,
         f.at \in {"char", "readX", "readY"}, g.at \in {"readX", "readY", "put"},
         NEW r \in Place, r = cursorPlace, Reads(f, g, r, r)
  PROVE  Calls'
<1>1. /\ r[1] \in Nat /\ r[2] \in Nat /\ cursorPlace' = r /\ f.n \in Nat
      /\ f.x \in Nat /\ g.x \in Nat
  BY DEF Place, cursorPlace, Frames
<1>2. upTo(end(f, r), end(g, r))
  BY <1>1, EndFacts DEF upTo
<1>3. \A k \in Nat \ {0}, m \in Place : Fits(k, f, m, r) => Fits(k, g, m, r)
  BY <1>1 DEF Fits, Reads
<1>4. f.n <= g.n /\ (g.at \in Early => f.n < g.n \/ f.at \in Early)
  BY <1>1 DEF Early
<1>5. \A n \in 1..g.n : (n < g.n \/ g.at \notin Early) /\ g.text[n] # Newline =>
                           n \in 1..f.n /\ (n < f.n \/ f.at \notin Early)
  BY DEF Early
<1>6. ~torn /\ (f.at = "storeY" => f.y = r[1] + 1) =>
         r[1] <= r[1] /\ (g.at = "storeY" => g.y = r[1] + 1)
  BY <1>1
<1> QED
  BY <1>1, <1>2, <1>3, <1>4, <1>5, <1>6, QuietStep

LEMMA ReadXCalls == ASSUME Typed, Calls, ReadX PROVE Calls'
<1>1. PICK f : f = top
  OBVIOUS
<1>2. /\ stack # << >> /\ f.at \in {"char", "readX"}
      /\ UNCHANGED <<cursor, size, screen, torn, parted>>
  BY <1>1 DEF ReadX, glyphAhead, at, unchangedOthers
<1>3. PICK r \in Place : r = cursorPlace
  BY TypedFacts
<1>4. /\ f \in Frames /\ r[2] = cursor.x /\ cursor.x \in Nat
  BY <1>1, <1>2, <1>3, TopFacts, TypedFacts
<1>5. PICK g :
        /\ g = [f EXCEPT !.at = IF f.at = "char" THEN "readY" ELSE "put", !.x = cursor.x]
        /\ stack' = [stack EXCEPT ![Len(stack)] = g]
  BY <1>1, <1>2 DEF ReadX, glyphAhead, at, set
<1>6. /\ g \in Frames /\ g.id = f.id /\ g.text = f.text /\ g.by = f.by /\ g.n = f.n
      /\ g.at = (IF f.at = "char" THEN "readY" ELSE "put") /\ g.x = cursor.x /\ g.y = f.y
  BY <1>4, <1>5 DEF Frames, Labels
<1>7. Reads(f, g, r, r)
  BY <1>2, <1>4, <1>6 DEF Reads
<1> QED
  BY <1>1, <1>2, <1>3, <1>4, <1>5, <1>6, <1>7, ReadCalls

LEMMA ReadYCalls == ASSUME Typed, Calls, ReadY PROVE Calls'
<1>1. PICK f : f = top
  OBVIOUS
<1>2. /\ stack # << >> /\ f.at \in {"char", "readY"}
      /\ UNCHANGED <<cursor, size, screen, torn, parted>>
  BY <1>1 DEF ReadY, glyphAhead, at, unchangedOthers
<1>3. PICK r \in Place : r = cursorPlace
  BY TypedFacts
<1>4. /\ f \in Frames /\ r[1] = cursor.y /\ cursor.y \in Nat
  BY <1>1, <1>2, <1>3, TopFacts, TypedFacts
<1>5. PICK g :
        /\ g = [f EXCEPT !.at = IF f.at = "char" THEN "readX" ELSE "put", !.y = cursor.y]
        /\ stack' = [stack EXCEPT ![Len(stack)] = g]
  BY <1>1, <1>2 DEF ReadY, glyphAhead, at, set
<1>6. /\ g \in Frames /\ g.id = f.id /\ g.text = f.text /\ g.by = f.by /\ g.n = f.n
      /\ g.at = (IF f.at = "char" THEN "readX" ELSE "put") /\ g.y = cursor.y /\ g.x = f.x
  BY <1>4, <1>5 DEF Frames, Labels
<1>7. Reads(f, g, r, r)
  BY <1>2, <1>4, <1>6 DEF Reads
<1> QED
  BY <1>1, <1>2, <1>3, <1>4, <1>5, <1>6, <1>7, ReadCalls

(* The addition to x reads what may be old when it is written.              *)
LEMMA LoadXCalls == ASSUME Typed, Calls, LoadX PROVE Calls'
<1>1. PICK f, g, i :
        /\ f = top /\ g = [top EXCEPT !.at = "storeX", !.x = cursor.x + 1]
        /\ i = cursor.x + 1
  OBVIOUS
<1>2. /\ stack # << >> /\ f.at = "loadX" /\ stack' = [stack EXCEPT ![Len(stack)] = g]
      /\ UNCHANGED <<cursor, size, screen, torn, parted>>
  BY <1>1 DEF LoadX, at, set, unchangedOthers
<1>3. PICK r \in Place : r = cursorPlace
  BY TypedFacts
<1>4. /\ f \in Frames /\ f.n \in Nat /\ f.x \in Nat /\ f.y \in Nat /\ size.columns \in Nat \ {0}
      /\ r[1] = cursor.y /\ r[2] = cursor.x /\ r[1] \in Nat /\ r[2] \in Nat
      /\ cursor \in [x : Nat, y : Nat]
  BY <1>1, <1>2, <1>3, TopFacts, TypedFacts DEF Typed
<1>5. /\ g \in Frames /\ g.id = f.id /\ g.text = f.text /\ g.by = f.by
      /\ g.at = "storeX" /\ g.x = r[2] + 1 /\ g.n = f.n
  <2>1. i \in Nat /\ i = r[2] + 1 /\ g = [f EXCEPT !.at = "storeX", !.x = i]
    BY <1>1, <1>4
  <2>2. g.x = i
    BY <1>4, <2>1 DEF Frames
  <2> QED
    BY <1>4, <2>1, <2>2 DEF Frames, Labels
<1>6. cursorPlace' = r
  BY <1>2, <1>3 DEF cursorPlace
<1>7. upTo(end(f, r), end(g, r))
  <2>1. end(f, r) = <<r[1], r[2] + 1>>
    BY <1>2, <1>4, EndFacts
  <2>2. end(g, r) = <<r[1], r[2] + 1>>
    BY <1>4, <1>5, EndFacts
  <2> QED
    BY <1>4, <2>1, <2>2 DEF upTo
<1>12. \A k \in Nat \ {0} : widest(k) \in Int /\ size.columns - 1 <= widest(k)
  BY <1>2, TopFacts
<1>8. \A k \in Nat \ {0}, m \in Place : Fits(k, f, m, r) => Fits(k, g, m, r)
  BY <1>2, <1>4, <1>5, <1>12 DEF Fits
<1>9. f.n <= g.n /\ (g.at \in Early => f.n < g.n \/ f.at \in Early) /\ Reads(f, g, r, r)
  BY <1>2, <1>4, <1>5 DEF Early, Reads
<1>10. \A n \in 1..g.n : (n < g.n \/ g.at \notin Early) /\ g.text[n] # Newline =>
                            n \in 1..f.n /\ (n < f.n \/ f.at \notin Early)
  BY <1>2, <1>4, <1>5 DEF Early
<1>11. ~torn /\ (f.at = "storeY" => f.y = r[1] + 1) =>
          r[1] <= r[1] /\ (g.at = "storeY" => g.y = r[1] + 1)
  BY <1>2, <1>4, <1>5
<1> QED
  BY <1>1, <1>2, <1>3, <1>4, <1>5, <1>6, <1>7, <1>8, <1>9, <1>10, <1>11, QuietStep

(* It is written, and takes back what others have added.                    *)
LEMMA StoreXCalls == ASSUME Typed, Calls, StoreX PROVE Calls'
<1>1. PICK f, g : f = top /\ g = [top EXCEPT !.at = "test"]
  OBVIOUS
<1>2. /\ stack # << >> /\ f.at = "storeX" /\ stack' = [stack EXCEPT ![Len(stack)] = g]
      /\ cursor' = [cursor EXCEPT !.x = f.x] /\ UNCHANGED <<size, screen, torn, parted>>
  BY <1>1 DEF StoreX, at, set, goto, unchangedOthers
<1>3. PICK r \in Place : r = cursorPlace
  BY TypedFacts
<1>4. /\ f \in Frames /\ f.n \in Nat /\ f.x \in Nat /\ f.y \in Nat /\ size.columns \in Nat \ {0}
      /\ r[1] = cursor.y /\ r[2] = cursor.x /\ r[1] \in Nat /\ r[2] \in Nat
      /\ cursor \in [x : Nat, y : Nat]
  BY <1>1, <1>2, <1>3, TopFacts, TypedFacts DEF Typed
<1>5. /\ g \in Frames /\ g.id = f.id /\ g.text = f.text /\ g.by = f.by
      /\ g.at = "test" /\ g.x = f.x /\ g.n = f.n
  BY <1>1, <1>4 DEF Frames, Labels
<1>6. PICK s \in Place : s = cursorPlace' /\ s[1] = r[1] /\ s[2] = f.x
  <2>1. <<r[1], f.x>> \in Place /\ cursorPlace' = <<r[1], f.x>>
    BY <1>2, <1>4 DEF cursorPlace, Place
  <2> QED
    BY <2>1
<1>7. upTo(end(f, r), end(g, s))
  BY <1>2, <1>4, <1>5, <1>6, EndFacts DEF upTo
<1>12. \A k \in Nat \ {0} : widest(k) \in Int /\ size.columns - 1 <= widest(k)
  BY <1>2, TopFacts
<1>8. \A k \in Nat \ {0}, m \in Place : Fits(k, f, m, r) => Fits(k, g, m, s)
  BY <1>2, <1>4, <1>5, <1>6, <1>12 DEF Fits
<1>9. f.n <= g.n /\ (g.at \in Early => f.n < g.n \/ f.at \in Early) /\ Reads(f, g, r, s)
  BY <1>2, <1>4, <1>5 DEF Early, Reads
<1>10. \A n \in 1..g.n : (n < g.n \/ g.at \notin Early) /\ g.text[n] # Newline =>
                            n \in 1..f.n /\ (n < f.n \/ f.at \notin Early)
  BY <1>2, <1>4, <1>5 DEF Early
<1>11. ~torn /\ (f.at = "storeY" => f.y = r[1] + 1) =>
          r[1] <= s[1] /\ (g.at = "storeY" => g.y = s[1] + 1)
  BY <1>2, <1>4, <1>5, <1>6
<1> QED
  BY <1>1, <1>2, <1>3, <1>4, <1>5, <1>6, <1>7, <1>8, <1>9, <1>10, <1>11, QuietStep

(* A full row is left.                                                      *)
LEMMA TestFullCalls == ASSUME Typed, Calls, Test, goto("home") PROVE Calls'
<1>1. PICK f, g : f = top /\ g = [top EXCEPT !.at = "home"]
  OBVIOUS
<1>2. /\ stack # << >> /\ f.at = "test" /\ stack' = [stack EXCEPT ![Len(stack)] = g]
      /\ UNCHANGED <<cursor, size, screen, torn, parted>>
  BY <1>1 DEF Test, at, goto, set, unchangedOthers
<1>3. PICK r \in Place : r = cursorPlace
  BY TypedFacts
<1>4. /\ f \in Frames /\ f.n \in Nat /\ f.x \in Nat /\ f.y \in Nat /\ size.columns \in Nat \ {0}
      /\ r[1] = cursor.y /\ r[2] = cursor.x /\ r[1] \in Nat /\ r[2] \in Nat
      /\ cursor \in [x : Nat, y : Nat]
  BY <1>1, <1>2, <1>3, TopFacts, TypedFacts DEF Typed
<1>5. /\ g \in Frames /\ g.id = f.id /\ g.text = f.text /\ g.by = f.by
      /\ g.at = "home" /\ g.n = f.n
  BY <1>1, <1>4 DEF Frames, Labels
<1>6. cursorPlace' = r
  BY <1>2, <1>3 DEF cursorPlace
<1>7. upTo(end(f, r), end(g, r))
  BY <1>2, <1>4, <1>5, EndFacts DEF upTo
<1>12. \A k \in Nat \ {0} : widest(k) \in Int /\ size.columns - 1 <= widest(k)
  BY <1>2, TopFacts
<1>8. \A k \in Nat \ {0}, m \in Place : Fits(k, f, m, r) => Fits(k, g, m, r)
  BY <1>2, <1>4, <1>5, <1>12 DEF Fits
<1>9. f.n <= g.n /\ (g.at \in Early => f.n < g.n \/ f.at \in Early) /\ Reads(f, g, r, r)
  BY <1>2, <1>4, <1>5 DEF Early, Reads
<1>10. \A n \in 1..g.n : (n < g.n \/ g.at \notin Early) /\ g.text[n] # Newline =>
                            n \in 1..f.n /\ (n < f.n \/ f.at \notin Early)
  BY <1>2, <1>4, <1>5 DEF Early
<1>11. ~torn /\ (f.at = "storeY" => f.y = r[1] + 1) =>
          r[1] <= r[1] /\ (g.at = "storeY" => g.y = r[1] + 1)
  BY <1>2, <1>4, <1>5
<1> QED
  BY <1>1, <1>2, <1>3, <1>4, <1>5, <1>6, <1>7, <1>8, <1>9, <1>10, <1>11, QuietStep

(* A row that is not full is not.                                           *)
LEMMA TestCalls ==
  ASSUME Typed, Calls, Test, nextChar,
         top.x < size.columns \/ cursor.x < size.columns
  PROVE  Calls'
<1>1. PICK f, g, i : f = top /\ g = [top EXCEPT !.at = "char", !.n = @ + 1] /\ i = top.n + 1
  OBVIOUS
<1>2. /\ stack # << >> /\ f.at = "test" /\ (f.x < size.columns \/ cursor.x < size.columns)
      /\ stack' = [stack EXCEPT ![Len(stack)] = g]
      /\ UNCHANGED <<cursor, size, screen, torn, parted>>
  BY <1>1 DEF Test, at, nextChar, set, unchangedOthers, full
<1>3. PICK r \in Place : r = cursorPlace
  BY TypedFacts
<1>4. /\ f \in Frames /\ f.n \in Nat /\ f.x \in Nat /\ f.y \in Nat /\ size.columns \in Nat \ {0}
      /\ r[1] = cursor.y /\ r[2] = cursor.x /\ r[1] \in Nat /\ r[2] \in Nat
      /\ cursor \in [x : Nat, y : Nat]
  BY <1>1, <1>2, <1>3, TopFacts, TypedFacts DEF Typed
<1>5. /\ g \in Frames /\ g.id = f.id /\ g.text = f.text /\ g.by = f.by
      /\ g.at = "char" /\ g.n = f.n + 1
  <2>1. i \in Nat /\ i = f.n + 1 /\ g = [f EXCEPT !.at = "char", !.n = i]
    BY <1>1, <1>4
  <2>2. g.n = i
    BY <1>4, <2>1 DEF Frames
  <2> QED
    BY <1>4, <2>1, <2>2 DEF Frames, Labels
<1>6. cursorPlace' = r
  BY <1>2, <1>3 DEF cursorPlace
<1>7. upTo(end(f, r), end(g, r))
  BY <1>2, <1>4, <1>5, EndFacts DEF upTo
<1>12. \A k \in Nat \ {0} : widest(k) \in Int /\ size.columns - 1 <= widest(k)
  BY <1>2, TopFacts
<1>8. \A k \in Nat \ {0}, m \in Place : Fits(k, f, m, r) => Fits(k, g, m, r)
  BY <1>2, <1>4, <1>5, <1>12 DEF Fits
<1>9. f.n <= g.n /\ (g.at \in Early => f.n < g.n \/ f.at \in Early) /\ Reads(f, g, r, r)
  BY <1>2, <1>4, <1>5 DEF Early, Reads
<1>10. \A n \in 1..g.n : (n < g.n \/ g.at \notin Early) /\ g.text[n] # Newline =>
                            n \in 1..f.n /\ (n < f.n \/ f.at \notin Early)
  BY <1>2, <1>4, <1>5 DEF Early
<1>11. ~torn /\ (f.at = "storeY" => f.y = r[1] + 1) =>
          r[1] <= r[1] /\ (g.at = "storeY" => g.y = r[1] + 1)
  BY <1>2, <1>4, <1>5
<1> QED
  BY <1>1, <1>2, <1>3, <1>4, <1>5, <1>6, <1>7, <1>8, <1>9, <1>10, <1>11, QuietStep

(* The cursor goes to the beginning of its row.                             *)
LEMMA HomeCalls == ASSUME Typed, Calls, Home PROVE Calls'
<1>1. PICK f, g : f = top /\ g = [top EXCEPT !.at = "loadY"]
  OBVIOUS
<1>2. /\ stack # << >> /\ f.at \in {"home", "char"} /\ (f.at = "char" => f.text[f.n] = Newline)
      /\ stack' = [stack EXCEPT ![Len(stack)] = g]
      /\ cursor' = [cursor EXCEPT !.x = 0] /\ UNCHANGED <<size, screen, torn, parted>>
  BY <1>1 DEF Home, at, char, goto, set, unchangedOthers
<1>3. PICK r \in Place : r = cursorPlace
  BY TypedFacts
<1>4. /\ f \in Frames /\ f.n \in Nat /\ f.x \in Nat /\ f.y \in Nat /\ size.columns \in Nat \ {0}
      /\ r[1] = cursor.y /\ r[2] = cursor.x /\ r[1] \in Nat /\ r[2] \in Nat
      /\ cursor \in [x : Nat, y : Nat]
  BY <1>1, <1>2, <1>3, TopFacts, TypedFacts DEF Typed
<1>5. /\ g \in Frames /\ g.id = f.id /\ g.text = f.text /\ g.by = f.by
      /\ g.at = "loadY" /\ g.n = f.n
  BY <1>1, <1>4 DEF Frames, Labels
<1>6. PICK s \in Place : s = cursorPlace' /\ s[1] = r[1] /\ s[2] = 0
  <2>1. <<r[1], 0>> \in Place /\ cursorPlace' = <<r[1], 0>>
    BY <1>2, <1>4 DEF cursorPlace, Place
  <2> QED
    BY <2>1
<1>7. upTo(end(f, r), end(g, s))
  <2>1. end(g, s) = <<s[1] + 1, 0>>
    BY <1>5, EndFacts
  <2>2. end(f, r) = <<r[1] + 1, 0>> \/ end(f, r) = r
    BY <1>2, <1>4, EndFacts
  <2> QED
    BY <1>4, <1>6, <2>1, <2>2 DEF upTo
<1>12. \A k \in Nat \ {0} : widest(k) \in Int /\ size.columns - 1 <= widest(k)
  BY <1>2, TopFacts
<1>8. \A k \in Nat \ {0}, m \in Place : Fits(k, f, m, r) => Fits(k, g, m, s)
  BY <1>2, <1>4, <1>5, <1>6, <1>12 DEF Fits
<1>9. f.n <= g.n /\ (g.at \in Early => f.n < g.n \/ f.at \in Early) /\ Reads(f, g, r, s)
  BY <1>2, <1>4, <1>5 DEF Early, Reads
<1>10. \A n \in 1..g.n : (n < g.n \/ g.at \notin Early) /\ g.text[n] # Newline =>
                            n \in 1..f.n /\ (n < f.n \/ f.at \notin Early)
  BY <1>2, <1>4, <1>5 DEF Early
<1>11. ~torn /\ (f.at = "storeY" => f.y = r[1] + 1) =>
          r[1] <= s[1] /\ (g.at = "storeY" => g.y = s[1] + 1)
  BY <1>2, <1>4, <1>5, <1>6
<1> QED
  BY <1>1, <1>2, <1>3, <1>4, <1>5, <1>6, <1>7, <1>8, <1>9, <1>10, <1>11, QuietStep

(* The addition to y reads what may be old when it is written.              *)
LEMMA LoadYCalls == ASSUME Typed, Calls, LoadY PROVE Calls'
<1>1. PICK f, g, i :
        /\ f = top /\ g = [top EXCEPT !.at = "storeY", !.y = cursor.y + 1]
        /\ i = cursor.y + 1
  OBVIOUS
<1>2. /\ stack # << >> /\ f.at = "loadY" /\ stack' = [stack EXCEPT ![Len(stack)] = g]
      /\ UNCHANGED <<cursor, size, screen, torn, parted>>
  BY <1>1 DEF LoadY, at, set, unchangedOthers
<1>3. PICK r \in Place : r = cursorPlace
  BY TypedFacts
<1>4. /\ f \in Frames /\ f.n \in Nat /\ f.x \in Nat /\ f.y \in Nat /\ size.columns \in Nat \ {0}
      /\ r[1] = cursor.y /\ r[2] = cursor.x /\ r[1] \in Nat /\ r[2] \in Nat
      /\ cursor \in [x : Nat, y : Nat]
  BY <1>1, <1>2, <1>3, TopFacts, TypedFacts DEF Typed
<1>5. /\ g \in Frames /\ g.id = f.id /\ g.text = f.text /\ g.by = f.by
      /\ g.at = "storeY" /\ g.y = r[1] + 1 /\ g.n = f.n
  <2>1. i \in Nat /\ i = r[1] + 1 /\ g = [f EXCEPT !.at = "storeY", !.y = i]
    BY <1>1, <1>4
  <2>2. g.y = i
    BY <1>4, <2>1 DEF Frames
  <2> QED
    BY <1>4, <2>1, <2>2 DEF Frames, Labels
<1>6. cursorPlace' = r
  BY <1>2, <1>3 DEF cursorPlace
<1>7. upTo(end(f, r), end(g, r))
  <2>1. end(f, r) = <<r[1] + 1, 0>>
    BY <1>2, <1>4, EndFacts
  <2>2. end(g, r) = <<r[1] + 1, 0>>
    BY <1>4, <1>5, EndFacts
  <2> QED
    BY <1>4, <2>1, <2>2 DEF upTo
<1>12. \A k \in Nat \ {0} : widest(k) \in Int /\ size.columns - 1 <= widest(k)
  BY <1>2, TopFacts
<1>8. \A k \in Nat \ {0}, m \in Place : Fits(k, f, m, r) => Fits(k, g, m, r)
  BY <1>2, <1>4, <1>5, <1>12 DEF Fits
<1>9. f.n <= g.n /\ (g.at \in Early => f.n < g.n \/ f.at \in Early) /\ Reads(f, g, r, r)
  BY <1>2, <1>4, <1>5 DEF Early, Reads
<1>10. \A n \in 1..g.n : (n < g.n \/ g.at \notin Early) /\ g.text[n] # Newline =>
                            n \in 1..f.n /\ (n < f.n \/ f.at \notin Early)
  BY <1>2, <1>4, <1>5 DEF Early
<1>11. ~torn /\ (f.at = "storeY" => f.y = r[1] + 1) =>
          r[1] <= r[1] /\ (g.at = "storeY" => g.y = r[1] + 1)
  BY <1>2, <1>4, <1>5
<1> QED
  BY <1>1, <1>2, <1>3, <1>4, <1>5, <1>6, <1>7, <1>8, <1>9, <1>10, <1>11, QuietStep

(* It is written, and may take back rows of others.                         *)
LEMMA StoreYCalls == ASSUME Typed, Calls, StoreY PROVE Calls'
<1>1. PICK f, g, i : f = top /\ g = [top EXCEPT !.at = "char", !.n = @ + 1] /\ i = top.n + 1
  OBVIOUS
<1>2. /\ stack # << >> /\ f.at = "storeY" /\ stack' = [stack EXCEPT ![Len(stack)] = g]
      /\ cursor' = [cursor EXCEPT !.y = f.y] /\ UNCHANGED <<size, screen, torn, parted>>
  BY <1>1 DEF StoreY, at, nextChar, set, unchangedOthers
<1>3. PICK r \in Place : r = cursorPlace
  BY TypedFacts
<1>4. /\ f \in Frames /\ f.n \in Nat /\ f.x \in Nat /\ f.y \in Nat /\ size.columns \in Nat \ {0}
      /\ r[1] = cursor.y /\ r[2] = cursor.x /\ r[1] \in Nat /\ r[2] \in Nat
      /\ cursor \in [x : Nat, y : Nat]
  BY <1>1, <1>2, <1>3, TopFacts, TypedFacts DEF Typed
<1>5. /\ g \in Frames /\ g.id = f.id /\ g.text = f.text /\ g.by = f.by
      /\ g.at = "char" /\ g.n = f.n + 1
  <2>1. i \in Nat /\ i = f.n + 1 /\ g = [f EXCEPT !.at = "char", !.n = i]
    BY <1>1, <1>4
  <2>2. g.n = i
    BY <1>4, <2>1 DEF Frames
  <2> QED
    BY <1>4, <2>1, <2>2 DEF Frames, Labels
<1>6. PICK s \in Place : s = cursorPlace' /\ s[1] = f.y /\ s[2] = r[2]
  <2>1. <<f.y, r[2]>> \in Place /\ cursorPlace' = <<f.y, r[2]>>
    BY <1>2, <1>4 DEF cursorPlace, Place
  <2> QED
    BY <2>1
<1>7. upTo(end(f, r), end(g, s))
  BY <1>2, <1>4, <1>5, <1>6, EndFacts DEF upTo
<1>12. \A k \in Nat \ {0} : widest(k) \in Int /\ size.columns - 1 <= widest(k)
  BY <1>2, TopFacts
<1>8. \A k \in Nat \ {0}, m \in Place : Fits(k, f, m, r) => Fits(k, g, m, s)
  BY <1>2, <1>4, <1>5, <1>6, <1>12 DEF Fits
<1>9. f.n <= g.n /\ (g.at \in Early => f.n < g.n \/ f.at \in Early) /\ Reads(f, g, r, s)
  BY <1>2, <1>4, <1>5 DEF Early, Reads
<1>10. \A n \in 1..g.n : (n < g.n \/ g.at \notin Early) /\ g.text[n] # Newline =>
                            n \in 1..f.n /\ (n < f.n \/ f.at \notin Early)
  BY <1>2, <1>4, <1>5 DEF Early
<1>11. ~torn /\ (f.at = "storeY" => f.y = r[1] + 1) =>
          r[1] <= s[1] /\ (g.at = "storeY" => g.y = s[1] + 1)
  BY <1>2, <1>4, <1>5, <1>6
<1> QED
  BY <1>1, <1>2, <1>3, <1>4, <1>5, <1>6, <1>7, <1>8, <1>9, <1>10, <1>11, QuietStep

(* A handler that does not return.                                          *)
LEMMA LoopCalls == ASSUME Typed, Calls, EndOfText, goto("loop") PROVE Calls'
<1>1. PICK f, g : f = top /\ g = [top EXCEPT !.at = "loop"]
  OBVIOUS
<1>2. /\ stack # << >> /\ f.at = "char" /\ stack' = [stack EXCEPT ![Len(stack)] = g]
      /\ UNCHANGED <<cursor, size, screen, torn, parted>>
  BY <1>1 DEF EndOfText, at, goto, set, unchangedOthers
<1>3. PICK r \in Place : r = cursorPlace
  BY TypedFacts
<1>4. /\ f \in Frames /\ f.n \in Nat /\ f.x \in Nat /\ f.y \in Nat /\ size.columns \in Nat \ {0}
      /\ r[1] = cursor.y /\ r[2] = cursor.x /\ r[1] \in Nat /\ r[2] \in Nat
      /\ cursor \in [x : Nat, y : Nat]
  BY <1>1, <1>2, <1>3, TopFacts, TypedFacts DEF Typed
<1>5. /\ g \in Frames /\ g.id = f.id /\ g.text = f.text /\ g.by = f.by
      /\ g.at = "loop" /\ g.n = f.n
  BY <1>1, <1>4 DEF Frames, Labels
<1>6. cursorPlace' = r
  BY <1>2, <1>3 DEF cursorPlace
<1>7. upTo(end(f, r), end(g, r))
  BY <1>2, <1>4, <1>5, EndFacts DEF upTo
<1>12. \A k \in Nat \ {0} : widest(k) \in Int /\ size.columns - 1 <= widest(k)
  BY <1>2, TopFacts
<1>8. \A k \in Nat \ {0}, m \in Place : Fits(k, f, m, r) => Fits(k, g, m, r)
  BY <1>2, <1>4, <1>5, <1>12 DEF Fits
<1>9. f.n <= g.n /\ (g.at \in Early => f.n < g.n \/ f.at \in Early) /\ Reads(f, g, r, r)
  BY <1>2, <1>4, <1>5 DEF Early, Reads
<1>10. \A n \in 1..g.n : (n < g.n \/ g.at \notin Early) /\ g.text[n] # Newline =>
                            n \in 1..f.n /\ (n < f.n \/ f.at \notin Early)
  BY <1>2, <1>4, <1>5 DEF Early
<1>11. ~torn /\ (f.at = "storeY" => f.y = r[1] + 1) =>
          r[1] <= r[1] /\ (g.at = "storeY" => g.y = r[1] + 1)
  BY <1>2, <1>4, <1>5
<1> QED
  BY <1>1, <1>2, <1>3, <1>4, <1>5, <1>6, <1>7, <1>8, <1>9, <1>10, <1>11, QuietStep

(* The one that draws: behind all characters of its text that show.         *)
LEMMA PutCalls ==
  ASSUME Typed, Numbered, Nesting, Calls, TextsKeepTheirOrder, Put
  PROVE  Calls' /\ TextsKeepTheirOrder'
<1>1. PICK f, g : f = top /\ g = [top EXCEPT !.at = "loadX"]
  OBVIOUS
<1>2. /\ stack # << >> /\ f.at = "put" /\ stack' = [stack EXCEPT ![Len(stack)] = g]
      /\ UNCHANGED <<cursor, size, torn, parted>>
  BY <1>1 DEF Put, at, set, goto, unchangedOthers
<1>3. PICK r \in Place : r = cursorPlace
  BY TypedFacts
<1>4. /\ f \in Frames /\ f.n \in Nat /\ f.x \in Nat /\ f.y \in Nat
      /\ size.columns \in Nat \ {0} /\ size.rows \in Nat \ {0}
      /\ r[1] = cursor.y /\ r[2] = cursor.x /\ r[1] \in Nat /\ r[2] \in Nat
      /\ Len(stack) \in Nat /\ Len(stack) \in 1..Len(stack) /\ torn \in BOOLEAN
      /\ DOMAIN screen \subseteq Place /\ f.n <= Len(f.text)
      /\ \A a \in DOMAIN screen : \A c \in screen[a] : c[1] \in 1..texts /\ c[2] \in Nat
  BY <1>1, <1>2, <1>3, TopFacts, TypedFacts DEF Typed
<1>5. /\ g \in Frames /\ g.id = f.id /\ g.text = f.text /\ g.by = f.by
      /\ g.at = "loadX" /\ g.n = f.n
  BY <1>1, <1>4 DEF Frames, Labels
<1>6. cursorPlace' = r
  BY <1>2, <1>3 DEF cursorPlace
<1>7. PICK place \in Place : place = <<f.y, f.x>> /\ place[1] = f.y /\ place[2] = f.x
  <2>1. <<f.y, f.x>> \in Place /\ <<f.y, f.x>>[1] = f.y /\ <<f.y, f.x>>[2] = f.x
    BY <1>4 DEF Place
  <2> QED
    BY <2>1
<1>8. /\ DOMAIN screen' = DOMAIN screen
      /\ \A a \in DOMAIN screen :
           screen'[a] = IF a = place /\ ~below /\ ~beside
                          THEN screen[a] \cup {<<f.id, f.n>>} ELSE screen[a]
  BY <1>1, <1>7 DEF Put
<1>9. ~below /\ ~beside => place \in DOMAIN screen
  BY <1>1, <1>4, <1>7, TypedFacts DEF below, beside
<1>10. PICK k \in Nat \ {0} : k = Len(stack)
  BY <1>4
<1>11. \E m \in Place : CallInv(k, f, m, r)
  BY <1>1, <1>3, <1>4, <1>10 DEF Calls, resume, top
<1>12. \A a \in DOMAIN screen : \A c \in screen[a] :
         c[1] = f.id =>
           /\ c[2] < f.n /\ a[1] <= place[1]
           /\ c \notin parted /\ ~isParted(f) => before(a, place)
  BY <1>2, <1>7, <1>11 DEF CallInv, Own, Early
<1>13. TextsKeepTheirOrder'
  <2> SUFFICES ASSUME NEW a \in DOMAIN screen, NEW b \in DOMAIN screen,
                      NEW c \in screen'[a], NEW d \in screen'[b], c[1] = d[1], c[2] < d[2]
               PROVE  a[1] <= b[1] /\ ({c, d} \cap parted = {} => before(a, b))
    BY <1>2, <1>8 DEF TextsKeepTheirOrder, before
  <2>1. /\ c \in screen[a] \/ (a = place /\ c = <<f.id, f.n>>)
        /\ d \in screen[b] \/ (b = place /\ d = <<f.id, f.n>>)
    BY <1>8
  <2>2. CASE c \in screen[a] /\ d \in screen[b]
    BY <2>2 DEF TextsKeepTheirOrder
  <2>3. CASE c \in screen[a] /\ b = place /\ d = <<f.id, f.n>>
    BY <1>12, <2>3 DEF isParted
  <2>4. CASE d \in screen[b] /\ c = <<f.id, f.n>>
    <3>1. d[2] < f.n /\ d[2] \in Nat /\ f.n < d[2]
      BY <1>4, <1>12, <2>4
    <3> QED
      BY <1>4, <3>1
  <2>5. CASE c = <<f.id, f.n>> /\ d = <<f.id, f.n>>
    BY <1>4, <2>5
  <2> QED
    BY <2>1, <2>2, <2>3, <2>4, <2>5
<1>14. ASSUME NEW m \in Place, CallInv(k, f, m, r) PROVE CallInv(k, g, m, r)'
  <2>1. /\ end(f, r) = <<r[1], r[2] + 1>> /\ end(g, r) = <<r[1], r[2] + 1>>
        /\ place[1] <= r[1] /\ (~isParted(f) => upTo(place, r))
    BY <1>2, <1>4, <1>5, <1>7, <1>14, EndFacts DEF CallInv, Ordered, Registers
  <2>2. Ordered(g, m, r)'
    BY <1>5, <1>14, <2>1 DEF CallInv, Ordered, Registers, upTo, end
  <2>3. ASSUME NEW a \in DOMAIN screen, NEW c \in screen'[a], c[1] = g.id
        PROVE  /\ c[2] <= g.n /\ a[1] <= end(g, r)[1]
               /\ c \notin parted => before(a, end(g, r))
    <3>1. CASE c \in screen[a]
      <4>1. c[2] < f.n /\ c[2] \in Nat
        BY <1>4, <1>5, <1>12, <2>3, <3>1
      <4>2. a[1] <= end(f, r)[1] /\ (c \notin parted => before(a, end(f, r)))
        BY <1>5, <1>14, <2>3, <3>1 DEF CallInv, Own
      <4> QED
        BY <1>4, <1>5, <2>1, <4>1, <4>2
    <3>2. CASE a = place /\ c = <<f.id, f.n>>
      <4>1. c \notin parted => upTo(place, r)
        BY <2>1, <3>2 DEF isParted
      <4> QED
        BY <1>4, <1>5, <1>7, <2>1, <3>2, <4>1 DEF before, upTo
    <3> QED
      BY <1>8, <3>1, <3>2
  <2>4. Own(g, r)'
    BY <1>2, <1>5, <1>8, <2>3 DEF Own, before, end, Early
  <2>5. Fits(k, g, m, r)'
    BY <1>2, <1>5, <1>14 DEF CallInv, Fits, widest
  <2>6. Shown(g, r)'
    <3> SUFFICES ASSUME ~torn, NEW n \in 1..f.n, f.text[n] # Newline
                 PROVE  isDrawn(f.id, n)' \/ cursor.y >= size.rows
      BY <1>2, <1>5 DEF Shown, isDrawn, Early
    <3>1. CASE n < f.n
      <4>1. isDrawn(f.id, n) \/ cursor.y >= size.rows
        BY <1>14, <3>1 DEF CallInv, Shown
      <4>2. isDrawn(f.id, n) => isDrawn(f.id, n)'
        BY <1>8 DEF isDrawn
      <4> QED
        BY <4>1, <4>2
    <3>2. CASE n = f.n
      <4>1. ~beside
        <5>1. f.x <= widest(k)
          BY <1>2, <1>14 DEF CallInv, Fits
        <5> QED
          BY <1>1, <1>4, <5>1 DEF widest, beside
      <4>2. CASE below
        BY <1>1, <1>4, <1>7, <2>1, <4>2 DEF below, upTo
      <4>3. CASE ~below
        <5>1. <<f.id, n>> \in screen'[place] /\ place \in DOMAIN screen'
          BY <1>8, <1>9, <3>2, <4>1, <4>3
        <5> QED
          BY <5>1 DEF isDrawn
      <4> QED
        BY <4>2, <4>3
    <3> QED
      BY <1>4, <3>1, <3>2
  <2> QED
    BY <2>2, <2>4, <2>5, <2>6 DEF CallInv
<1>15. ASSUME NEW l \in 1..Len(stack), l # Len(stack) PROVE Undisturbed(stack[l].id)
  <2>1. stack[l].id # f.id
    <3>1. l < Len(stack) /\ top = stack[Len(stack)] /\ stack[l].id \in Nat /\ f.id \in Nat
      BY <1>1, <1>4, <1>15, TypedFacts DEF top, Frames
    <3>2. stack[l].id < f.id
      BY <1>1, <1>4, <3>1 DEF Numbered
    <3> QED
      BY <3>1, <3>2
  <2> QED
    BY <1>2, <1>4, <1>8, <2>1 DEF Undisturbed
<1>16. Calls'
  <2>1. Len(stack') = k /\ top' = g
    BY <1>2, <1>4, <1>10 DEF Typed, top
  <2>2. \A m \in Place :
          CallInv(Len(stack), top, m, cursorPlace) => CallInv(Len(stack), top, m, cursorPlace)'
    BY <1>1, <1>3, <1>6, <1>10, <1>14, <2>1
  <2>3. torn' \in BOOLEAN /\ cursor'.y \in Nat
    BY <1>2, <1>4
  <2> QED
    BY <1>2, <1>5, <1>15, <2>2, <2>3, TopStep
<1> QED
  BY <1>13, <1>16

-----------------------------------------------------------------------------
(* Nobody prints. *)
LEMMA CallsKept ==
  ASSUME Typed, Calls, UNCHANGED <<size, cursor, screen, stack>>, torn' \in BOOLEAN,
         torn => torn', parted \subseteq parted'
  PROVE  Calls'
<1>1. PICK mark \in [1..Len(stack) -> Place] :
        \A k \in 1..Len(stack) : CallInv(k, stack[k], mark[k], resume(mark, k))
  BY DEF Calls
<1>2. /\ Len(stack) \in Nat /\ \A k \in 1..Len(stack) : stack[k] \in Frames
      /\ cursorPlace \in Place /\ cursorPlace' = cursorPlace /\ cursor.y \in Nat
  BY TypedFacts DEF cursorPlace
<1>3. ASSUME NEW k \in 1..Len(stack)
      PROVE  CallInv(k, stack[k], mark[k], resume(mark, k))'
  <2>1. k \in Nat \ {0} /\ (k # Len(stack) => k + 1 \in 1..Len(stack))
    BY <1>2
  <2>2. PICK f, m, r : f = stack[k] /\ m = mark[k] /\ r = resume(mark, k)
    OBVIOUS
  <2>3. f \in Frames /\ m \in Place /\ r \in Place
    BY <1>2, <2>1, <2>2 DEF resume
  <2>4. CallInv(k, f, m, r)
    BY <1>1, <2>2
  <2>5. Undisturbed(f.id)
    BY <1>2 DEF Undisturbed
  <2>6. CallInv(k, f, m, r)'
    BY <1>2, <2>1, <2>3, <2>4, <2>5, CallKept
  <2>7. f = stack'[k] /\ r = resume(mark, k)'
    BY <1>2, <2>2 DEF resume
  <2> QED
    BY <2>2, <2>6, <2>7
<1> QED
  BY <1>1, <1>3 DEF Calls

(* What is left of the invariant when the innermost call moves on.          *)
LEMMA TopKeeps ==
  ASSUME Typed, Numbered, Nesting, FaultAtTheEndOnly, stack # << >>,
         NEW g \in Frames, stack' = [stack EXCEPT ![Len(stack)] = g],
         g.by = top.by, g.id = top.id, g.n \in 1..(Len(g.text) + 1),
         g.at \notin {"char", "loop"} => g.n <= Len(g.text),
         cursor' \in [x : Nat, y : Nat],
         screen' \in [DOMAIN screen -> SUBSET ((1..texts) \X Nat)],
         UNCHANGED <<size, IF_flag, main, texts, count, torn, parted, lost>>
  PROVE  Typed' /\ Numbered' /\ Nesting' /\ FaultAtTheEndOnly'
<1>1. PICK length \in Nat \ {0} : length = Len(stack)
  <2>1. Len(stack) \in Nat \ {0}
    BY TypedFacts
  <2> QED
    BY <2>1
<1>2. /\ Len(stack') = length /\ stack'[length] = g /\ stack' \in Seq(Frames) /\ top = stack[length]
      /\ \A k \in 1..length : k # length => stack'[k] = stack[k]
  BY <1>1 DEF Typed, top
<1>3. \A k \in 1..length : stack'[k].by = stack[k].by /\ stack'[k].id = stack[k].id
  BY <1>2
<1>4. Typed'
  <2>1. \A k \in 1..length :
          /\ stack'[k].n \in 1..(Len(stack'[k].text) + 1)
          /\ stack'[k].at \notin {"char", "loop"} => stack'[k].n <= Len(stack'[k].text)
    BY <1>1, <1>2 DEF Typed
  <2>2. DOMAIN screen = (0..(size.rows - 1)) \X (0..(size.columns - 1))
    BY TypedFacts
  <2>3. Len(stack') <= StackDepth /\ stack' # << >>
    BY <1>1, <1>2 DEF Typed
  <2> QED
    BY <1>1, <1>2, <2>1, <2>2, <2>3 DEF Typed
<1>5. Numbered'
  BY <1>1, <1>2, <1>3 DEF Numbered
<1>6. Nesting'
  <2> SUFFICES ASSUME NEW k \in 1..length
               PROVE  /\ stack'[k].by = "kernel_main" => k = 1
                      /\ stack'[k].by \in {"keyboard", "timer"} =>
                           ~IF_flag /\ \A l \in 1..length : k < l => stack'[l].by = "pageFault"
                      /\ ~torn /\ k < length =>
                           stack'[k].at \in {"char", "loop"} \/ stack'[k + 1].by = "pageFault"
                      /\ k < length /\ stack'[k].at \in {"readX", "readY"} =>
                           isParted(stack'[k])
    BY <1>2 DEF Nesting, isParted
  <2>1. /\ stack[k].by = "kernel_main" => k = 1
        /\ stack[k].by \in {"keyboard", "timer"} =>
             ~IF_flag /\ \A l \in 1..length : k < l => stack[l].by = "pageFault"
        /\ ~torn /\ k < length =>
             stack[k].at \in {"char", "loop"} \/ stack[k + 1].by = "pageFault"
        /\ k < length /\ stack[k].at \in {"readX", "readY"} => isParted(stack[k])
    BY <1>1 DEF Nesting
  <2>2. k < length => k + 1 \in 1..length /\ stack'[k] = stack[k]
    BY <1>2
  <2> QED
    BY <1>3, <2>1, <2>2
<1>7. FaultAtTheEndOnly'
  <2> SUFFICES ASSUME NEW k \in 2..length, stack'[k].by = "pageFault"
               PROVE  \/ stack'[k - 1].y >= size.rows
                      \/ torn /\ stack'[k - 1].y = size.rows - 1 /\ stack'[k - 1].x >= size.columns
    BY <1>2 DEF FaultAtTheEndOnly
  <2>1. k \in 1..length /\ k - 1 \in 1..length /\ k - 1 # length
    BY <1>1
  <2>2. stack[k].by = "pageFault" /\ stack'[k - 1] = stack[k - 1]
    BY <1>2, <1>3, <2>1
  <2> QED
    BY <1>1, <2>2 DEF FaultAtTheEndOnly
<1> QED
  BY <1>4, <1>5, <1>6, <1>7

(* ... when print is called, or finds no room on the stack.                 *)
LEMMA CallStep ==
  ASSUME IInv, NEW by \in Callers, NEW text \in Seq(STRING), call(by, text),
         UNCHANGED <<size, cursor, screen>>,
         IF_flag' \in BOOLEAN, torn' \in BOOLEAN, torn => torn',
         parted' \in SUBSET ((1..texts) \X Nat), parted \subseteq parted',
         stack # << >> /\ top.at \in {"readX", "readY"} => <<top.id, top.n>> \in parted',
         main' \in 0..(Len(MainTexts) + 1), count' \in 0..InterruptLimit,
         by = "kernel_main" => stack = << >>,
         by \in {"keyboard", "timer"} => ~IF_flag',
         \A k \in 1..Len(stack) :
           stack[k].by \in {"keyboard", "timer"} => by = "pageFault" /\ ~IF_flag',
         ~torn' /\ stack # << >> =>
           top.at \in {"char", "loop"} \/ (by = "pageFault" /\ top.at = "put"),
         by = "pageFault" =>
           top.y >= size.rows \/ (torn /\ top.y = size.rows - 1 /\ top.x >= size.columns)
  PROVE  IInv'
<1>1. Typed /\ Numbered /\ Nesting /\ Calls /\ TextsKeepTheirOrder /\ FaultAtTheEndOnly
  BY DEF IInv
<1>2. TextsKeepTheirOrder'
  <2>1. \A c, d : {c, d} \cap parted' = {} => {c, d} \cap parted = {}
    OBVIOUS
  <2> QED
    BY <1>1, <2>1 DEF TextsKeepTheirOrder, before
<1>3. PICK length \in Nat : length = Len(stack)
  BY <1>1, TypedFacts
<1>4. size.columns \in Nat \ {0} /\ texts \in Nat /\ StackDepth \in Nat
  BY <1>1, TypedFacts, ConsoleAssumption DEF Typed
<1>5. CASE Len(stack) >= StackDepth
  <2>1. stack' = stack /\ texts' = texts /\ lost' = TRUE
    BY <1>3, <1>4, <1>5 DEF call
  <2>2. Calls'
    BY <1>1, <2>1, CallsKept
  <2>3. Typed'
    BY <1>1, <2>1 DEF Typed
  <2>4. Numbered'
    BY <1>1, <2>1 DEF Numbered
  <2>5. Nesting'
    BY <1>1, <2>1 DEF Nesting, isParted
  <2>6. FaultAtTheEndOnly'
    BY <1>1, <2>1 DEF FaultAtTheEndOnly
  <2> QED
    BY <1>2, <2>2, <2>3, <2>4, <2>5, <2>6 DEF IInv
<1>6. CASE Len(stack) < StackDepth
  <2>1. PICK g : g = context(by, text)
    OBVIOUS
  <2>2. /\ stack' = Append(stack, g) /\ texts' = texts + 1 /\ lost' = lost
    BY <1>6, <2>1 DEF call
  <2>3. /\ g \in Frames /\ g.at = "char" /\ g.n = 1 /\ g.id = texts + 1 /\ g.by = by
        /\ Len(g.text) \in Nat
    <3>1. texts + 1 \in Nat /\ IF_flag \in BOOLEAN
      BY <1>1, <1>4 DEF Typed
    <3>2. /\ g.by = by /\ g.text = text /\ g.id = texts + 1 /\ g.n = 1 /\ g.at = "char"
          /\ g.x = 0 /\ g.y = 0 /\ g.flag = IF_flag
      BY <2>1 DEF context
    <3>3. g \in Frames
      BY <2>1, <3>1 DEF context, Frames, Labels
    <3> QED
      BY <3>2, <3>3
  <2>4. /\ Len(stack') = length + 1 /\ stack'[length + 1] = g /\ stack' \in Seq(Frames)
        /\ \A k \in 1..length : stack'[k] = stack[k]
    BY <1>1, <1>3, <2>2, <2>3 DEF Typed
  <2>5. length # 0 => top = stack[length] /\ stack # << >>
    BY <1>3 DEF top
  <2>6. length = 0 => stack = << >>
    <3>1. stack \in Seq(Frames)
      BY <1>1 DEF Typed
    <3> QED
      BY <1>3, <3>1, EmptySeq
  <2>7. Calls'
    <3>1. ~torn' /\ stack # << >> => top.at \in {"char", "loop", "put"}
      OBVIOUS
    <3> QED
      BY <1>1, <2>2, <2>3, <3>1, PushStep
  <2>8. Typed'
    <3>1. \A k \in 1..(length + 1) :
            /\ stack'[k].n \in 1..(Len(stack'[k].text) + 1)
            /\ stack'[k].at \notin {"char", "loop"} => stack'[k].n <= Len(stack'[k].text)
      <4>1. \A k \in 1..length :
              /\ stack[k].n \in 1..(Len(stack[k].text) + 1)
              /\ stack[k].at \notin {"char", "loop"} => stack[k].n <= Len(stack[k].text)
        BY <1>1, <1>3 DEF Typed
      <4>2. g.n \in 1..(Len(g.text) + 1) /\ g.at \in {"char", "loop"}
        BY <2>3
      <4>3. \A k \in 1..(length + 1) : k \in 1..length \/ k = length + 1
        OBVIOUS
      <4> QED
        BY <2>4, <4>1, <4>2, <4>3
    <3>2. screen' \in [(0..(size.rows - 1)) \X (0..(size.columns - 1)) -> SUBSET ((1..(texts + 1)) \X Nat)]
      <4>1. (1..texts) \X Nat \subseteq (1..(texts + 1)) \X Nat
        BY <1>4
      <4> QED
        BY <1>1, <4>1 DEF Typed
    <3>3. texts' \in Nat /\ Len(stack') <= StackDepth /\ Len(stack') # 0
      BY <1>3, <1>4, <1>6, <2>2, <2>4
    <3>4. lost' \in BOOLEAN /\ stack' # << >> /\ parted' \in SUBSET ((1..texts') \X Nat)
      <4>1. (1..texts) \X Nat \subseteq (1..texts') \X Nat
        BY <1>4, <2>2
      <4> QED
        BY <1>1, <2>2, <2>4, <3>3, <4>1 DEF Typed
    <3> QED
      BY <1>1, <2>2, <2>4, <3>1, <3>2, <3>3, <3>4 DEF Typed
  <2>9. Numbered'
    <3>1. \A k \in 1..length : stack[k].id \in 1..texts
      BY <1>1, <1>3 DEF Numbered
    <3>2. \A k, l \in 1..length : k < l => stack[k].id < stack[l].id
      BY <1>1, <1>3 DEF Numbered
    <3>3. \A k \in 1..(length + 1) :
            /\ stack'[k].id \in 1..(texts + 1)
            /\ \A l \in 1..(length + 1) : k < l => stack'[k].id < stack'[l].id
      <4>1. \A k \in 1..(length + 1) :
              stack'[k].id \in 1..(texts + 1) /\ (k \in 1..length => stack'[k].id \in 1..texts)
        <5> SUFFICES ASSUME NEW k \in 1..(length + 1)
                     PROVE  /\ stack'[k].id \in 1..(texts + 1)
                            /\ k \in 1..length => stack'[k].id \in 1..texts
          OBVIOUS
        <5>1. CASE k = length + 1
          BY <1>4, <2>3, <2>4, <5>1
        <5>2. CASE k \in 1..length
          <6>1. stack'[k].id \in 1..texts
            BY <2>4, <3>1, <5>2
          <6> QED
            BY <1>4, <6>1
        <5> QED
          BY <5>1, <5>2
      <4> SUFFICES ASSUME NEW k \in 1..(length + 1), NEW l \in 1..(length + 1), k < l
                   PROVE  stack'[k].id < stack'[l].id
        BY <4>1
      <4>2. CASE l = length + 1
        <5>1. stack'[k].id \in 1..texts /\ stack'[l].id = texts + 1
          BY <2>3, <2>4, <4>1, <4>2
        <5> QED
          BY <1>4, <5>1
      <4>3. CASE l # length + 1
        <5>1. k \in 1..length /\ l \in 1..length
          BY <4>3
        <5> QED
          BY <2>4, <3>2, <5>1
      <4> QED
        BY <4>2, <4>3
    <3> QED
      BY <2>2, <2>4, <3>3 DEF Numbered
  <2>10. Nesting'
    <3>1. /\ \A k \in 1..length : stack[k].by = "kernel_main" => k = 1
          /\ \A k \in 1..length : stack[k].by \in {"keyboard", "timer"} =>
               \A l \in 1..length : k < l => stack[l].by = "pageFault"
      BY <1>1, <1>3 DEF Nesting
    <3>2. \A k \in 1..(length + 1) : stack'[k].by = "kernel_main" => k = 1
      BY <1>3, <2>3, <2>4, <3>1
    <3>3. ASSUME NEW k \in 1..(length + 1), stack'[k].by \in {"keyboard", "timer"}
          PROVE  ~IF_flag' /\ \A l \in 1..(length + 1) : k < l => stack'[l].by = "pageFault"
      <4>1. CASE k = length + 1
        BY <2>3, <2>4, <3>3, <4>1
      <4>2. CASE k \in 1..length
        <5>1. by = "pageFault" /\ ~IF_flag'
          BY <1>3, <2>4, <3>3, <4>2
        <5>2. \A l \in 1..length : k < l => stack'[l].by = "pageFault"
          BY <2>4, <3>1, <3>3, <4>2
        <5>3. stack'[length + 1].by = "pageFault"
          BY <2>3, <2>4, <5>1
        <5>4. \A l \in 1..(length + 1) : l \in 1..length \/ l = length + 1
          OBVIOUS
        <5> QED
          BY <5>1, <5>2, <5>3, <5>4
      <4> QED
        BY <4>1, <4>2
    <3>4. ASSUME ~torn', NEW k \in 1..length
          PROVE  stack'[k].at \in {"char", "loop"} \/ stack'[k + 1].by = "pageFault"
      <4>1. CASE k = length
        BY <2>3, <2>4, <2>5, <3>4, <4>1
      <4>2. CASE k # length
        <5>1. k + 1 \in 1..length /\ k < length /\ ~torn
          BY <3>4, <4>2
        <5>2. stack[k].at \in {"char", "loop"} \/ stack[k + 1].by = "pageFault"
          BY <1>1, <1>3, <5>1 DEF Nesting
        <5> QED
          BY <2>4, <5>1, <5>2
      <4> QED
        BY <4>1, <4>2
    <3>5. \A k \in 1..(length + 1) : k < length + 1 => k \in 1..length
      OBVIOUS
    <3>6. ASSUME NEW k \in 1..length, stack'[k].at \in {"readX", "readY"}
          PROVE  <<stack'[k].id, stack'[k].n>> \in parted'
      <4>1. CASE k = length
        <5>1. stack # << >> /\ stack'[k] = top
          BY <2>4, <2>5, <4>1
        <5> QED
          BY <3>6, <5>1
      <4>2. CASE k # length
        <5>1. isParted(stack[k])
          BY <1>1, <1>3, <2>4, <3>6, <4>2 DEF Nesting
        <5> QED
          BY <2>4, <5>1 DEF isParted
      <4> QED
        BY <4>1, <4>2
    <3> QED
      BY <2>4, <3>2, <3>3, <3>4, <3>5, <3>6 DEF Nesting, isParted
  <2>11. FaultAtTheEndOnly'
    <3> SUFFICES ASSUME NEW k \in 2..(length + 1), stack'[k].by = "pageFault"
                 PROVE  \/ stack'[k - 1].y >= size.rows
                        \/ /\ torn' /\ stack'[k - 1].y = size.rows - 1
                           /\ stack'[k - 1].x >= size.columns
      BY <2>4 DEF FaultAtTheEndOnly
    <3>1. k - 1 \in 1..length /\ stack'[k - 1] = stack[k - 1]
      BY <2>4
    <3>2. CASE k = length + 1
      <4>1. by = "pageFault" /\ top = stack[k - 1]
        BY <2>3, <2>4, <2>5, <3>1, <3>2
      <4> QED
        BY <3>1, <4>1
    <3>3. CASE k # length + 1
      <4>1. k \in 2..length /\ k \in 1..length
        BY <3>3
      <4>2. stack[k].by = "pageFault"
        BY <2>4, <4>1
      <4>3. \/ stack[k - 1].y >= size.rows
            \/ torn /\ stack[k - 1].y = size.rows - 1 /\ stack[k - 1].x >= size.columns
        BY <1>1, <1>3, <4>1, <4>2 DEF FaultAtTheEndOnly
      <4> QED
        BY <3>1, <4>3
    <3> QED
      BY <3>2, <3>3
  <2> QED
    BY <1>2, <2>7, <2>8, <2>9, <2>10, <2>11 DEF IInv
<1> QED
  BY <1>3, <1>4, <1>5, <1>6

(* ... when print returns. *)
LEMMA ReturnStep ==
  ASSUME IInv, stack # << >>, stack' = SubSeq(stack, 1, Len(stack) - 1),
         top.at = "char", top.by \in {"kernel_main", "keyboard"},
         IF_flag' = IF top.by = "keyboard" THEN top.flag ELSE IF_flag,
         UNCHANGED <<size, cursor, screen, main, texts, count, torn, parted, lost>>
  PROVE  IInv'
<1>1. Typed /\ Numbered /\ Nesting /\ Calls /\ TextsKeepTheirOrder /\ FaultAtTheEndOnly
  BY DEF IInv
<1>2. Calls' /\ (stack' = << >> => cursor.x < size.columns)
  BY <1>1, PopStep
<1>3. Len(stack) \in Nat \ {0} /\ stack \in Seq(Frames) /\ StackDepth \in Nat
  BY <1>1, TypedFacts, ConsoleAssumption DEF Typed
<1>4. PICK length \in Nat : Len(stack) = length + 1
  <2>1. Len(stack) - 1 \in Nat /\ Len(stack) = (Len(stack) - 1) + 1
    BY <1>3
  <2> QED
    BY <2>1
<1>5. /\ Len(stack') = length /\ stack' \in Seq(Frames) /\ \A k \in 1..length : stack'[k] = stack[k]
      /\ top = stack[length + 1] /\ top.flag \in BOOLEAN
  <2>1. top \in Frames
    BY <1>1, TypedFacts
  <2>2. top.flag \in BOOLEAN
    BY <2>1 DEF Frames
  <2>3. stack' \in Seq(Frames) /\ Len(stack') = length /\ \A k \in 1..length : stack'[k] = stack[k]
    BY <1>3, <1>4
  <2> QED
    BY <1>4, <2>2, <2>3 DEF top
<1>6. \A k \in 1..length : k \in 1..Len(stack) /\ k < Len(stack)
  BY <1>4
<1>7. Typed'
  <2>1. \A k \in 1..length :
          /\ stack'[k].n \in 1..(Len(stack'[k].text) + 1)
          /\ stack'[k].at \notin {"char", "loop"} => stack'[k].n <= Len(stack'[k].text)
    BY <1>1, <1>5, <1>6 DEF Typed
  <2>2. Len(stack') <= StackDepth
    BY <1>1, <1>3, <1>4, <1>5 DEF Typed
  <2>3. IF_flag' \in BOOLEAN
    BY <1>1, <1>5 DEF Typed
  <2> QED
    BY <1>1, <1>2, <1>5, <2>1, <2>2, <2>3 DEF Typed
<1>8. Numbered'
  <2>1. \A k, l \in 1..length : stack[k].id \in 1..texts /\ (k < l => stack[k].id < stack[l].id)
    BY <1>1, <1>6 DEF Numbered
  <2> QED
    BY <1>5, <2>1 DEF Numbered
<1>9. Nesting'
  <2> SUFFICES ASSUME NEW k \in 1..length
               PROVE  /\ stack[k].by = "kernel_main" => k = 1
                      /\ stack[k].by \in {"keyboard", "timer"} =>
                           ~IF_flag' /\ \A l \in 1..length : k < l => stack[l].by = "pageFault"
                      /\ ~torn /\ k < length =>
                           stack[k].at \in {"char", "loop"} \/ stack[k + 1].by = "pageFault"
                      /\ k < length /\ stack[k].at \in {"readX", "readY"} => isParted(stack[k])
    <3>1. \A k \in 1..length : k < length => k + 1 \in 1..length
      BY <1>4
    <3> QED
      BY <1>5, <3>1 DEF Nesting, isParted
  <2>1. Len(stack) \in 1..Len(stack) /\ top = stack[Len(stack)]
    BY <1>3 DEF top
  <2>2. stack[k].by \notin {"keyboard", "timer"}
    BY <1>1, <1>6, <2>1 DEF Nesting
  <2>3. /\ stack[k].by = "kernel_main" => k = 1
        /\ ~torn => stack[k].at \in {"char", "loop"} \/ stack[k + 1].by = "pageFault"
        /\ stack[k].at \in {"readX", "readY"} => isParted(stack[k])
    BY <1>1, <1>6 DEF Nesting
  <2> QED
    BY <2>2, <2>3
<1>10. FaultAtTheEndOnly'
  <2> SUFFICES ASSUME NEW k \in 2..length, stack'[k].by = "pageFault"
               PROVE  \/ stack'[k - 1].y >= size.rows
                      \/ torn /\ stack'[k - 1].y = size.rows - 1 /\ stack'[k - 1].x >= size.columns
    BY <1>5 DEF FaultAtTheEndOnly
  <2>1. k \in 2..Len(stack) /\ k \in 1..length /\ k - 1 \in 1..length
    BY <1>4
  <2>2. stack'[k] = stack[k] /\ stack'[k - 1] = stack[k - 1]
    BY <1>5, <2>1
  <2> QED
    BY <1>1, <2>1, <2>2 DEF FaultAtTheEndOnly
<1>11. TextsKeepTheirOrder'
  BY <1>1 DEF TextsKeepTheirOrder, before
<1> QED
  BY <1>2, <1>7, <1>8, <1>9, <1>10, <1>11 DEF IInv

-----------------------------------------------------------------------------
(* Nobody has printed.                                                      *)
LEMMA InitIInv == Init => IInv
<1> SUFFICES ASSUME Init PROVE IInv
  OBVIOUS
<1>1. size.columns \in Nat \ {0} /\ size.rows \in Nat \ {0} /\ StackDepth \in Nat
  BY ConsoleAssumption DEF Init
<1>2. stack = << >> /\ Len(stack) = 0 /\ stack \in Seq(Frames)
  BY EmptySeq DEF Init
<1>3. DOMAIN screen = (0..(size.rows - 1)) \X (0..(size.columns - 1))
      /\ \A a \in DOMAIN screen : screen[a] = {}
  BY DEF Init
<1>4. Typed
  <2>1. screen \in [(0..(size.rows - 1)) \X (0..(size.columns - 1)) -> SUBSET ((1..texts) \X Nat)]
    BY DEF Init
  <2>2. 0 \in 0..(Len(MainTexts) + 1) /\ 0 \in 0..InterruptLimit
    BY TextsAssumption, ConsoleAssumption
  <2>3. cursor \in [x : Nat, y : Nat] /\ cursor.x < size.columns
    BY <1>1 DEF Init
  <2>4. /\ size \in Screens /\ texts \in Nat /\ IF_flag \in BOOLEAN
        /\ torn \in BOOLEAN /\ lost \in BOOLEAN /\ parted \in SUBSET ((1..texts) \X Nat)
        /\ main \in 0..(Len(MainTexts) + 1) /\ count \in 0..InterruptLimit
    BY <2>2 DEF Init
  <2>5. Len(stack) <= StackDepth /\ \A k \in 1..Len(stack) : FALSE
    BY <1>1, <1>2
  <2> QED
    BY <1>2, <2>1, <2>3, <2>4, <2>5 DEF Typed
<1>5. Numbered /\ Nesting /\ FaultAtTheEndOnly
  BY <1>2 DEF Numbered, Nesting, FaultAtTheEndOnly
<1>6. TextsKeepTheirOrder
  BY <1>3 DEF TextsKeepTheirOrder
<1>7. Calls
  <2> DEFINE mark == [k \in 1..Len(stack) |-> <<0, 0>>]
  <2>1. mark \in [1..Len(stack) -> Place] /\ \A k \in 1..Len(stack) : FALSE
    BY <1>2 DEF Place
  <2> QED
    BY <2>1 DEF Calls
<1> QED
  BY <1>4, <1>5, <1>6, <1>7 DEF IInv

-----------------------------------------------------------------------------
(* Each step of print. *)
LEMMA MoveStep ==
  ASSUME IInv, Calls', stack # << >>, UNCHANGED screen, unchangedOthers,
         NEW g \in Frames, stack' = [stack EXCEPT ![Len(stack)] = g],
         g.by = top.by, g.id = top.id, g.n \in 1..(Len(g.text) + 1),
         g.at \notin {"char", "loop"} => g.n <= Len(g.text),
         cursor' \in [x : Nat, y : Nat]
  PROVE  IInv'
<1>1. Typed /\ Numbered /\ Nesting /\ Calls /\ TextsKeepTheirOrder /\ FaultAtTheEndOnly
  BY DEF IInv
<1>2. TextsKeepTheirOrder'
  BY <1>1 DEF TextsKeepTheirOrder, before, unchangedOthers
<1>3. screen' \in [DOMAIN screen -> SUBSET ((1..texts) \X Nat)]
  BY <1>1 DEF Typed
<1>4. Typed' /\ Numbered' /\ Nesting' /\ FaultAtTheEndOnly'
  BY <1>1, <1>3, TopKeeps DEF unchangedOthers
<1> QED
  BY <1>2, <1>4 DEF IInv

(* The place of the cursor is read for put.                                 *)
LEMMA ReadXStep == ASSUME IInv, ReadX PROVE IInv'
<1>1. /\ Typed /\ Calls /\ stack # << >> /\ top.at \in {"char", "readX"}
      /\ UNCHANGED screen /\ unchangedOthers
  BY DEF IInv, ReadX, glyphAhead, at
<1>2. Calls'
  BY <1>1, ReadXCalls
<1>3. /\ top \in Frames /\ top.n \in Nat \ {0} /\ Len(top.text) \in Nat
      /\ cursor \in [x : Nat, y : Nat] /\ cursor.x \in Nat
  BY <1>1, TopFacts DEF Typed
<1>4. PICK g :
        /\ g = [top EXCEPT !.at = IF top.at = "char" THEN "readY" ELSE "put", !.x = cursor.x]
        /\ stack' = [stack EXCEPT ![Len(stack)] = g]
  BY DEF ReadX, glyphAhead, at, set
<1>5. top.n <= Len(top.text)
  BY <1>1, TopFacts DEF ReadX, glyphAhead, at
<1>6. g \in Frames /\ g.by = top.by /\ g.id = top.id /\ g.text = top.text /\ g.n = top.n
  BY <1>3, <1>4 DEF Frames, Labels
<1>7. g.n \in 1..(Len(g.text) + 1) /\ (g.at \notin {"char", "loop"} => g.n <= Len(g.text))
  BY <1>3, <1>4, <1>5, <1>6
<1>8. cursor' \in [x : Nat, y : Nat]
  BY <1>3 DEF ReadX
<1> QED
  BY <1>1, <1>2, <1>4, <1>6, <1>7, <1>8, MoveStep

LEMMA ReadYStep == ASSUME IInv, ReadY PROVE IInv'
<1>1. /\ Typed /\ Calls /\ stack # << >> /\ top.at \in {"char", "readY"}
      /\ UNCHANGED screen /\ unchangedOthers
  BY DEF IInv, ReadY, glyphAhead, at
<1>2. Calls'
  BY <1>1, ReadYCalls
<1>3. /\ top \in Frames /\ top.n \in Nat \ {0} /\ Len(top.text) \in Nat
      /\ cursor \in [x : Nat, y : Nat] /\ cursor.y \in Nat
  BY <1>1, TopFacts DEF Typed
<1>4. PICK g :
        /\ g = [top EXCEPT !.at = IF top.at = "char" THEN "readX" ELSE "put", !.y = cursor.y]
        /\ stack' = [stack EXCEPT ![Len(stack)] = g]
  BY DEF ReadY, glyphAhead, at, set
<1>5. top.n <= Len(top.text)
  BY <1>1, TopFacts DEF ReadY, glyphAhead, at
<1>6. g \in Frames /\ g.by = top.by /\ g.id = top.id /\ g.text = top.text /\ g.n = top.n
  BY <1>3, <1>4 DEF Frames, Labels
<1>7. g.n \in 1..(Len(g.text) + 1) /\ (g.at \notin {"char", "loop"} => g.n <= Len(g.text))
  BY <1>3, <1>4, <1>5, <1>6
<1>8. cursor' \in [x : Nat, y : Nat]
  BY <1>3 DEF ReadY
<1> QED
  BY <1>1, <1>2, <1>4, <1>6, <1>7, <1>8, MoveStep

(* The addition to x begins.                                                *)
LEMMA LoadXStep == ASSUME IInv, LoadX PROVE IInv'
<1>1. Typed /\ Calls /\ stack # << >> /\ UNCHANGED screen /\ unchangedOthers
  BY DEF IInv, LoadX, at
<1>2. Calls'
  BY <1>1, LoadXCalls
<1>3. /\ top \in Frames /\ top.n \in Nat \ {0} /\ top.x \in Nat /\ top.y \in Nat
      /\ top.n <= Len(top.text) + 1 /\ Len(top.text) \in Nat
      /\ cursor \in [x : Nat, y : Nat] /\ cursor.x \in Nat /\ cursor.y \in Nat
  BY <1>1, TopFacts DEF Typed
<1>4. PICK g :
        /\ g = [top EXCEPT !.at = "storeX", !.x = cursor.x + 1]
        /\ stack' = [stack EXCEPT ![Len(stack)] = g]
  BY DEF LoadX, set
<1>5. top.n <= Len(top.text)
  BY <1>1, TopFacts DEF LoadX, at
<1>6. g \in Frames /\ g.by = top.by /\ g.id = top.id /\ g.text = top.text /\ g.n = top.n
  <2>1. PICK i \in Nat : i = cursor.x + 1
    BY <1>3
  <2>2. g = [top EXCEPT !.at = "storeX", !.x = i]
    BY <1>4, <2>1
  <2>3. g \in Frames /\ g.by = top.by /\ g.id = top.id /\ g.text = top.text
    BY <1>3, <2>2 DEF Frames, Labels
  <2>4. g.n = top.n
    BY <1>3, <2>2 DEF Frames
  <2> QED
    BY <2>1, <2>3, <2>4
<1>7. g.n \in 1..(Len(g.text) + 1) /\ (g.at \notin {"char", "loop"} => g.n <= Len(g.text))
  BY <1>3, <1>4, <1>5, <1>6
<1>8. cursor' \in [x : Nat, y : Nat]
  BY <1>3 DEF LoadX
<1> QED
  BY <1>1, <1>2, <1>4, <1>6, <1>7, <1>8, MoveStep

(* It ends.                                                                 *)
LEMMA StoreXStep == ASSUME IInv, StoreX PROVE IInv'
<1>1. Typed /\ Calls /\ stack # << >> /\ UNCHANGED screen /\ unchangedOthers
  BY DEF IInv, StoreX, at
<1>2. Calls'
  BY <1>1, StoreXCalls
<1>3. /\ top \in Frames /\ top.n \in Nat \ {0} /\ top.x \in Nat /\ top.y \in Nat
      /\ top.n <= Len(top.text) + 1 /\ Len(top.text) \in Nat
      /\ cursor \in [x : Nat, y : Nat] /\ cursor.x \in Nat /\ cursor.y \in Nat
  BY <1>1, TopFacts DEF Typed
<1>4. PICK g : g = [top EXCEPT !.at = "test"] /\ stack' = [stack EXCEPT ![Len(stack)] = g]
  BY DEF StoreX, goto, set
<1>5. top.n <= Len(top.text)
  BY <1>1, TopFacts DEF StoreX, at
<1>6. g \in Frames /\ g.by = top.by /\ g.id = top.id /\ g.text = top.text /\ g.n = top.n
  BY <1>3, <1>4 DEF Frames, Labels
<1>7. g.n \in 1..(Len(g.text) + 1) /\ (g.at \notin {"char", "loop"} => g.n <= Len(g.text))
  BY <1>3, <1>4, <1>5, <1>6
<1>8. cursor' \in [x : Nat, y : Nat]
  BY <1>3 DEF StoreX
<1> QED
  BY <1>1, <1>2, <1>4, <1>6, <1>7, <1>8, MoveStep

(* The cursor goes to the beginning of its row.                             *)
LEMMA HomeStep == ASSUME IInv, Home PROVE IInv'
<1>1. Typed /\ Calls /\ stack # << >> /\ UNCHANGED screen /\ unchangedOthers
  BY DEF IInv, Home, at
<1>2. Calls'
  BY <1>1, HomeCalls
<1>3. /\ top \in Frames /\ top.n \in Nat \ {0} /\ top.x \in Nat /\ top.y \in Nat
      /\ top.n <= Len(top.text) + 1 /\ Len(top.text) \in Nat
      /\ cursor \in [x : Nat, y : Nat] /\ cursor.x \in Nat /\ cursor.y \in Nat
  BY <1>1, TopFacts DEF Typed
<1>4. PICK g : g = [top EXCEPT !.at = "loadY"] /\ stack' = [stack EXCEPT ![Len(stack)] = g]
  BY DEF Home, goto, set
<1>5. top.n <= Len(top.text)
  BY <1>1, TopFacts DEF Home, at
<1>6. g \in Frames /\ g.by = top.by /\ g.id = top.id /\ g.text = top.text /\ g.n = top.n
  BY <1>3, <1>4 DEF Frames, Labels
<1>7. g.n \in 1..(Len(g.text) + 1) /\ (g.at \notin {"char", "loop"} => g.n <= Len(g.text))
  BY <1>3, <1>4, <1>5, <1>6
<1>8. cursor' \in [x : Nat, y : Nat]
  BY <1>3 DEF Home
<1> QED
  BY <1>1, <1>2, <1>4, <1>6, <1>7, <1>8, MoveStep

(* The addition to y begins.                                                *)
LEMMA LoadYStep == ASSUME IInv, LoadY PROVE IInv'
<1>1. Typed /\ Calls /\ stack # << >> /\ UNCHANGED screen /\ unchangedOthers
  BY DEF IInv, LoadY, at
<1>2. Calls'
  BY <1>1, LoadYCalls
<1>3. /\ top \in Frames /\ top.n \in Nat \ {0} /\ top.x \in Nat /\ top.y \in Nat
      /\ top.n <= Len(top.text) + 1 /\ Len(top.text) \in Nat
      /\ cursor \in [x : Nat, y : Nat] /\ cursor.x \in Nat /\ cursor.y \in Nat
  BY <1>1, TopFacts DEF Typed
<1>4. PICK g :
        /\ g = [top EXCEPT !.at = "storeY", !.y = cursor.y + 1]
        /\ stack' = [stack EXCEPT ![Len(stack)] = g]
  BY DEF LoadY, set
<1>5. top.n <= Len(top.text)
  BY <1>1, TopFacts DEF LoadY, at
<1>6. g \in Frames /\ g.by = top.by /\ g.id = top.id /\ g.text = top.text /\ g.n = top.n
  <2>1. PICK i \in Nat : i = cursor.y + 1
    BY <1>3
  <2>2. g = [top EXCEPT !.at = "storeY", !.y = i]
    BY <1>4, <2>1
  <2>3. g \in Frames /\ g.by = top.by /\ g.id = top.id /\ g.text = top.text
    BY <1>3, <2>2 DEF Frames, Labels
  <2>4. g.n = top.n
    BY <1>3, <2>2 DEF Frames
  <2> QED
    BY <2>1, <2>3, <2>4
<1>7. g.n \in 1..(Len(g.text) + 1) /\ (g.at \notin {"char", "loop"} => g.n <= Len(g.text))
  BY <1>3, <1>4, <1>5, <1>6
<1>8. cursor' \in [x : Nat, y : Nat]
  BY <1>3 DEF LoadY
<1> QED
  BY <1>1, <1>2, <1>4, <1>6, <1>7, <1>8, MoveStep

(* It ends.                                                                 *)
LEMMA StoreYStep == ASSUME IInv, StoreY PROVE IInv'
<1>1. Typed /\ Calls /\ stack # << >> /\ UNCHANGED screen /\ unchangedOthers
  BY DEF IInv, StoreY, at
<1>2. Calls'
  BY <1>1, StoreYCalls
<1>3. /\ top \in Frames /\ top.n \in Nat \ {0} /\ top.x \in Nat /\ top.y \in Nat
      /\ top.n <= Len(top.text) + 1 /\ Len(top.text) \in Nat
      /\ cursor \in [x : Nat, y : Nat] /\ cursor.x \in Nat /\ cursor.y \in Nat
  BY <1>1, TopFacts DEF Typed
<1>4. PICK g :
        /\ g = [top EXCEPT !.at = "char", !.n = @ + 1]
        /\ stack' = [stack EXCEPT ![Len(stack)] = g]
  BY DEF StoreY, nextChar, set
<1>5. top.n <= Len(top.text)
  BY <1>1, TopFacts DEF StoreY, at
<1>6. g \in Frames /\ g.by = top.by /\ g.id = top.id /\ g.text = top.text /\ g.n = top.n + 1
  <2>1. PICK i \in Nat : i = top.n + 1
    BY <1>3
  <2>2. g = [top EXCEPT !.at = "char", !.n = i]
    BY <1>4, <2>1
  <2>3. g \in Frames /\ g.by = top.by /\ g.id = top.id /\ g.text = top.text
    BY <1>3, <2>2 DEF Frames, Labels
  <2>4. g.n = i
    BY <1>3, <2>2 DEF Frames
  <2> QED
    BY <2>1, <2>3, <2>4
<1>7. g.n \in 1..(Len(g.text) + 1) /\ (g.at \notin {"char", "loop"} => g.n <= Len(g.text))
  BY <1>3, <1>4, <1>5, <1>6 DEF Frames
<1>8. cursor' \in [x : Nat, y : Nat]
  BY <1>3 DEF StoreY
<1> QED
  BY <1>1, <1>2, <1>4, <1>6, <1>7, <1>8, MoveStep

(* Another glyph fits into the row, or not.                                 *)
LEMMA TestStep == ASSUME IInv, Test PROVE IInv'
<1>1. /\ Typed /\ Calls /\ stack # << >> /\ top.at = "test" /\ UNCHANGED <<cursor, screen>>
      /\ unchangedOthers
  BY DEF IInv, Test, at
<1>2. /\ top \in Frames /\ top.n \in Nat \ {0} /\ top.x \in Nat /\ cursor.x \in Nat
      /\ top.n <= Len(top.text) /\ Len(top.text) \in Nat /\ size.columns \in Nat \ {0}
      /\ cursor' \in [x : Nat, y : Nat]
  BY <1>1, TopFacts, TypedFacts DEF Typed
<1>3. goto("home") \/ (nextChar /\ (top.x < size.columns \/ cursor.x < size.columns))
  <2>1. PICK x \in {top.x, cursor.x} : IF full(x) THEN goto("home") ELSE nextChar
    BY DEF Test
  <2> QED
    BY <1>2, <2>1 DEF full
<1>4. CASE goto("home")
  <2>1. PICK g : g = [top EXCEPT !.at = "home"] /\ stack' = [stack EXCEPT ![Len(stack)] = g]
    BY <1>4 DEF goto, set
  <2>2. g \in Frames /\ g.by = top.by /\ g.id = top.id /\ g.text = top.text /\ g.n = top.n
    BY <1>2, <2>1 DEF Frames, Labels
  <2>3. Calls'
    BY <1>1, <1>4, TestFullCalls
  <2>4. g.n \in 1..(Len(g.text) + 1) /\ g.n <= Len(g.text)
    BY <1>2, <2>2
  <2> QED
    BY <1>1, <1>2, <2>1, <2>2, <2>3, <2>4, MoveStep
<1>5. CASE nextChar /\ (top.x < size.columns \/ cursor.x < size.columns)
  <2>1. PICK i \in Nat : i = top.n + 1
    BY <1>2
  <2>2. PICK g :
        /\ g = [top EXCEPT !.at = "char", !.n = i]
        /\ stack' = [stack EXCEPT ![Len(stack)] = g]
    BY <1>5, <2>1 DEF nextChar, set
  <2>3. g \in Frames /\ g.by = top.by /\ g.id = top.id /\ g.text = top.text /\ g.at = "char"
    BY <1>2, <2>2 DEF Frames, Labels
  <2>4. g.n = i
    BY <1>2, <2>2 DEF Frames
  <2>5. Calls'
    BY <1>1, <1>5, TestCalls
  <2>6. g.n \in 1..(Len(g.text) + 1)
    BY <1>2, <2>1, <2>3, <2>4
  <2> QED
    BY <1>1, <1>2, <2>2, <2>3, <2>5, <2>6, MoveStep
<1> QED
  BY <1>3, <1>4, <1>5

(* A character is drawn.                                                    *)
LEMMA PutStep == ASSUME IInv, Put PROVE IInv'
<1>1. /\ Typed /\ Numbered /\ Nesting /\ Calls /\ TextsKeepTheirOrder /\ FaultAtTheEndOnly
      /\ stack # << >> /\ top.at = "put" /\ cursor' = cursor
      /\ UNCHANGED <<size, IF_flag, main, texts, count, torn, parted, lost>>
  BY DEF IInv, Put, at, unchangedOthers
<1>2. Calls' /\ TextsKeepTheirOrder'
  BY <1>1, PutCalls
<1>3. /\ top \in Frames /\ top.n \in Nat \ {0} /\ top.n <= Len(top.text) /\ Len(top.text) \in Nat
      /\ cursor' \in [x : Nat, y : Nat] /\ Len(stack) \in 1..Len(stack) /\ texts \in Nat
  BY <1>1, TopFacts, TypedFacts DEF Typed
<1>4. PICK g : g = [top EXCEPT !.at = "loadX"] /\ stack' = [stack EXCEPT ![Len(stack)] = g]
  BY DEF Put, goto, set
<1>5. g \in Frames /\ g.by = top.by /\ g.id = top.id /\ g.text = top.text /\ g.n = top.n
  BY <1>3, <1>4 DEF Frames, Labels
<1>6. g.n \in 1..(Len(g.text) + 1) /\ g.n <= Len(g.text)
  BY <1>3, <1>5
<1>7. screen' \in [DOMAIN screen -> SUBSET ((1..texts) \X Nat)]
  <2>1. top.id \in 1..texts
    BY <1>1, <1>3 DEF Numbered, top
  <2>2. <<top.id, top.n>> \in (1..texts) \X Nat
    BY <1>3, <2>1
  <2>3. screen \in [DOMAIN screen -> SUBSET ((1..texts) \X Nat)]
    BY <1>1 DEF Typed
  <2> QED
    BY <2>2, <2>3 DEF Put
<1>8. Typed' /\ Numbered' /\ Nesting' /\ FaultAtTheEndOnly'
  BY <1>1, <1>3, <1>4, <1>5, <1>6, <1>7, TopKeeps
<1> QED
  BY <1>2, <1>8 DEF IInv

(* A text ends: its caller goes on, or nobody does.                         *)
LEMMA EndOfTextStep == ASSUME IInv, EndOfText PROVE IInv'
<1>1. /\ Typed /\ Calls /\ stack # << >> /\ top.at = "char"
      /\ UNCHANGED <<size, cursor, screen, main, texts, count, torn, parted, lost>>
  BY DEF IInv, EndOfText, at
<1>2. CASE top.by \in {"kernel_main", "keyboard"}
  <2>1. /\ stack' = SubSeq(stack, 1, Len(stack) - 1)
        /\ IF_flag' = IF top.by = "keyboard" THEN top.flag ELSE IF_flag
    BY <1>2 DEF EndOfText
  <2> QED
    BY <1>1, <1>2, <2>1, ReturnStep
<1>3. CASE top.by \notin {"kernel_main", "keyboard"}
  <2>1. goto("loop") /\ UNCHANGED IF_flag
    BY <1>3 DEF EndOfText
  <2>2. Calls'
    BY <1>1, <2>1, LoopCalls
  <2>3. /\ top \in Frames /\ top.n \in Nat \ {0} /\ top.n <= Len(top.text) + 1
        /\ Len(top.text) \in Nat
        /\ cursor' \in [x : Nat, y : Nat]
    BY <1>1, TopFacts DEF Typed
  <2>4. PICK g : g = [top EXCEPT !.at = "loop"] /\ stack' = [stack EXCEPT ![Len(stack)] = g]
    BY <2>1 DEF goto, set
  <2>5. /\ g \in Frames /\ g.by = top.by /\ g.id = top.id /\ g.text = top.text /\ g.n = top.n
        /\ g.at = "loop"
    BY <2>3, <2>4 DEF Frames, Labels
  <2>6. g.n \in 1..(Len(g.text) + 1)
    BY <2>3, <2>5
  <2>7. UNCHANGED screen /\ unchangedOthers
    BY <1>1, <2>1 DEF unchangedOthers
  <2> QED
    BY <1>1, <2>2, <2>3, <2>4, <2>5, <2>6, <2>7, MoveStep
<1> QED
  BY <1>2, <1>3

(* A page fault on a screen that has room is the doing of an interrupt.     *)
LEMMA PageFaultStep == ASSUME IInv, PageFault PROVE IInv'
<1>1. /\ Typed /\ Nesting /\ Calls /\ stack # << >> /\ top.at = "put"
      /\ call("pageFault", HandlerTexts.pageFault)
      /\ UNCHANGED <<size, cursor, screen, IF_flag, main, count, torn, parted>>
  BY DEF IInv, PageFault, at
<1>2. /\ "pageFault" \in Callers /\ HandlerTexts.pageFault \in Seq(STRING)
      /\ IF_flag' \in BOOLEAN /\ torn' \in BOOLEAN /\ torn \in BOOLEAN
      /\ main' \in 0..(Len(MainTexts) + 1) /\ count' \in 0..InterruptLimit
      /\ parted' = parted /\ parted' \in SUBSET ((1..texts) \X Nat)
  BY <1>1, TextsAssumption DEF Typed, Callers
<1>3. /\ size.columns \in Nat \ {0} /\ size.rows \in Nat \ {0} /\ top.x \in Nat /\ top.y \in Nat
      /\ Len(stack) \in Nat \ {0}
  BY <1>1, TypedFacts, TopFacts
<1>4. ~torn => top.x < size.columns
  <2>1. PICK mark \in [1..Len(stack) -> Place] :
          \A k \in 1..Len(stack) : CallInv(k, stack[k], mark[k], resume(mark, k))
    BY <1>1 DEF Calls
  <2>2. top.x <= widest(Len(stack))
    BY <1>1, <1>3, <2>1 DEF CallInv, Fits, top
  <2> QED
    BY <1>3, <2>2 DEF widest
<1>5. top.y >= size.rows \/ (torn /\ top.y = size.rows - 1 /\ top.x >= size.columns)
  BY <1>2, <1>3, <1>4 DEF PageFault, below, beside
<1>6. \A k \in 1..Len(stack) : stack[k].by \in {"keyboard", "timer"} => ~IF_flag'
  BY <1>1 DEF Nesting
<1> QED
  BY <1>1, <1>2, <1>5, <1>6, CallStep

(* A handler interrupts whoever prints, unless interrupts are off.          *)
LEMMA InterruptStep ==
  ASSUME IInv, NEW by \in {"keyboard", "timer", "exception"}, Interrupt(by) PROVE IInv'
<1>1. /\ Typed /\ Nesting /\ IF_flag = TRUE /\ call(by, HandlerTexts[by])
      /\ UNCHANGED <<size, cursor, screen, main>>
      /\ IF_flag' = (by = "exception")
      /\ Numbered /\ ~lost
      /\ parted' = IF at("readX") \/ at("readY") THEN parted \cup {<<top.id, top.n>>} ELSE parted
      /\ torn' = (torn \/ (stack # << >> /\ top.at \notin {"char", "loop"}))
      /\ count < InterruptLimit /\ count' = count + 1
  BY DEF IInv, Interrupt, Typed
<1>2. by \in Callers /\ HandlerTexts[by] \in Seq(STRING) /\ by \notin {"kernel_main", "pageFault"}
  BY TextsAssumption DEF Callers
<1>3. main' \in 0..(Len(MainTexts) + 1) /\ torn \in BOOLEAN
  BY <1>1 DEF Typed
<1>4. count' \in 0..InterruptLimit
  <2>1. count \in 0..InterruptLimit
    BY <1>1 DEF Typed
  <2> QED
    BY <1>1, <2>1, ConsoleAssumption
<1>5. IF_flag' \in BOOLEAN /\ torn' \in BOOLEAN /\ (torn => torn')
  BY <1>1, <1>3
<1>6. ~torn' /\ stack # << >> => top.at \in {"char", "loop"}
  BY <1>1
<1>7. \A k \in 1..Len(stack) : stack[k].by \notin {"keyboard", "timer"}
  BY <1>1 DEF Nesting
<1>8. by \in {"keyboard", "timer"} => ~IF_flag'
  BY <1>1
<1>9. stack # << >> /\ top.at \in {"readX", "readY"} => <<top.id, top.n>> \in parted'
  BY <1>1 DEF at
<1>10. parted \subseteq parted'
  BY <1>1
<1>11. parted' \in SUBSET ((1..texts) \X Nat)
  <2>1. parted \in SUBSET ((1..texts) \X Nat)
    BY <1>1 DEF Typed
  <2>2. stack # << >> => <<top.id, top.n>> \in (1..texts) \X Nat
    <3> SUFFICES ASSUME stack # << >> PROVE <<top.id, top.n>> \in (1..texts) \X Nat
      OBVIOUS
    <3>1. Len(stack) \in 1..Len(stack) /\ top.n \in Nat
      BY <1>1, TypedFacts, TopFacts
    <3>2. top.id \in 1..texts
      BY <1>1, <3>1 DEF Numbered, top
    <3> QED
      BY <3>1, <3>2
  <2> QED
    BY <1>1, <2>1, <2>2 DEF at
<1> QED
  BY <1>1, <1>2, <1>3, <1>4, <1>5, <1>6, <1>7, <1>8, <1>9, <1>10, <1>11, CallStep

(* kernel_main prints, and switches interrupts on.                          *)
LEMMA KernelMainStep == ASSUME IInv, KernelMain PROVE IInv'
<1>1. /\ Typed /\ Numbered /\ Nesting /\ Calls /\ TextsKeepTheirOrder /\ FaultAtTheEndOnly
      /\ stack = << >> /\ \A k \in 1..Len(stack) : FALSE
  <2>1. stack = << >>
    BY DEF KernelMain, SizeLine, RAMLines, debugPrint, InitializeInterrupts, SoftwareInterrupt
  <2> QED
    BY <2>1, EmptySeq DEF IInv
<1>2. /\ IF_flag \in BOOLEAN /\ torn \in BOOLEAN /\ main \in 0..(Len(MainTexts) + 1)
      /\ count \in 0..InterruptLimit /\ Len(MainTexts) \in Nat
      /\ parted \in SUBSET ((1..texts) \X Nat)
  BY <1>1, TextsAssumption DEF Typed
<1>3. CASE SizeLine \/ RAMLines
  <2>1. /\ call("kernel_main", MainTexts[main + 1]) /\ main < Len(MainTexts) /\ main' = main + 1
        /\ UNCHANGED <<size, cursor, screen, IF_flag, count, torn, parted>>
    BY <1>3 DEF SizeLine, RAMLines, debugPrint
  <2>2. main + 1 \in 1..Len(MainTexts) /\ main' \in 0..(Len(MainTexts) + 1)
    BY <1>2, <2>1
  <2>3. MainTexts[main + 1] \in Seq(STRING) /\ "kernel_main" \in Callers
    BY <2>2, TextsAssumption DEF Callers
  <2> QED
    BY <1>1, <1>2, <2>1, <2>2, <2>3, CallStep
<1>4. CASE InitializeInterrupts
  <2>1. UNCHANGED <<size, cursor, screen, main, texts, stack, count, torn, parted, lost>> /\ IF_flag' = TRUE
    BY <1>4 DEF InitializeInterrupts
  <2>2. Calls'
    BY <1>1, <1>2, <2>1, CallsKept
  <2>3. Typed' /\ Numbered' /\ Nesting' /\ FaultAtTheEndOnly'
    BY <1>1, <2>1 DEF Typed, Numbered, Nesting, FaultAtTheEndOnly, isParted
  <2>4. TextsKeepTheirOrder'
    BY <1>1, <2>1 DEF TextsKeepTheirOrder, before
  <2> QED
    BY <2>2, <2>3, <2>4 DEF IInv
<1>5. CASE SoftwareInterrupt
  <2>1. /\ call("keyboard", HandlerTexts.keyboard) /\ main = Len(MainTexts) /\ main' = main + 1
        /\ IF_flag' = FALSE /\ UNCHANGED <<size, cursor, screen, count, torn, parted>>
    BY <1>5 DEF SoftwareInterrupt
  <2>2. HandlerTexts.keyboard \in Seq(STRING) /\ "keyboard" \in Callers
    BY TextsAssumption DEF Callers
  <2>3. main' \in 0..(Len(MainTexts) + 1)
    BY <1>2, <2>1
  <2> QED
    BY <1>1, <1>2, <2>1, <2>2, <2>3, CallStep
<1> QED
  BY <1>3, <1>4, <1>5 DEF KernelMain

-----------------------------------------------------------------------------
(* The inductive invariant, whoever interrupts whom.                        *)
THEOREM Invariant == Spec => []IInv
<1>1. IInv /\ [Next]_vars => IInv'
  <2> SUFFICES ASSUME IInv, [Next]_vars PROVE IInv'
    OBVIOUS
  <2>1. CASE KernelMain
    BY <2>1, KernelMainStep
  <2>2. CASE Printing
    BY <2>2, ReadXStep, ReadYStep, PutStep, PageFaultStep, LoadXStep, StoreXStep, TestStep, HomeStep,
       LoadYStep, StoreYStep, EndOfTextStep DEF Printing
  <2>3. ASSUME NEW by \in {"keyboard", "timer", "exception"}, Interrupt(by) PROVE IInv'
    BY <2>3, InterruptStep
  <2>4. CASE UNCHANGED vars
    <3>1. UNCHANGED <<size, cursor, screen, IF_flag, main, texts, stack, count, torn, parted, lost>>
      BY <2>4 DEF vars
    <3>2. Calls'
      BY <3>1, CallsKept DEF IInv, Typed
    <3>3. Typed' /\ Numbered' /\ Nesting' /\ FaultAtTheEndOnly'
      BY <3>1 DEF IInv, Typed, Numbered, Nesting, FaultAtTheEndOnly, isParted
    <3>4. TextsKeepTheirOrder'
      BY <3>1 DEF IInv, TextsKeepTheirOrder, before
    <3> QED
      BY <3>2, <3>3, <3>4 DEF IInv
  <2> QED
    BY <2>1, <2>2, <2>3, <2>4 DEF Next
<1> QED
  BY <1>1, InitIInv, PTL DEF Spec

(* The state keeps its type: the cursor leaves a row by no more cells than  *)
(* there are texts under way.                                               *)
THEOREM TypeCorrect == Spec => []TypeOK
<1>1. IInv => TypeOK
  <2> SUFFICES ASSUME IInv PROVE TypeOK
    OBVIOUS
  <2>1. Typed /\ Calls
    BY DEF IInv
  <2>2. /\ size.columns \in Nat \ {0} /\ cursor.x \in Nat /\ cursor.y \in Nat /\ Len(stack) \in Nat
        /\ \A k \in 1..Len(stack) : stack[k] \in Frames
        /\ DOMAIN stack = 1..Len(stack) /\ torn \in BOOLEAN
    BY <2>1, TypedFacts DEF Typed
  <2>3. cursor.x \in 0..(size.columns + Len(stack))
    <3>1. CASE stack = << >>
      BY <2>1, <2>2, <3>1 DEF Typed
    <3>2. CASE stack # << >>
      <4>1. Len(stack) \in Nat \ {0} /\ top.x \in Nat
        BY <2>1, <3>2, TypedFacts, TopFacts
      <4>2. PICK mark \in [1..Len(stack) -> Place] :
              \A k \in 1..Len(stack) : CallInv(k, stack[k], mark[k], resume(mark, k))
        BY <2>1 DEF Calls
      <4>3. Fits(Len(stack), top, mark[Len(stack)], cursorPlace)
        BY <4>1, <4>2 DEF CallInv, resume, top
      <4>4. PICK bound \in Int : bound = widest(Len(stack)) /\ bound < size.columns + Len(stack)
        <5>1. widest(Len(stack)) \in Int /\ widest(Len(stack)) < size.columns + Len(stack)
          BY <2>2, <4>1 DEF widest
        <5> QED
          BY <5>1
      <4>5. cursor.x <= bound + 1 \/ cursor.x < size.columns
        <5>1. cursorPlace[2] = cursor.x
          BY <2>1, TypedFacts
        <5> QED
          BY <2>2, <4>1, <4>3, <4>4, <5>1 DEF Fits
      <4> QED
        BY <2>2, <4>1, <4>4, <4>5
    <3> QED
      BY <3>1, <3>2
  <2>4. \A c \in DOMAIN screen : screen[c] \subseteq (1..texts) \X Nat
    BY <2>1 DEF Typed
  <2>5. /\ IF_flag \in BOOLEAN /\ torn \in BOOLEAN /\ lost \in BOOLEAN
        /\ main \in 0..(Len(MainTexts) + 1) /\ Len(stack) <= StackDepth
        /\ count \in 0..InterruptLimit
    BY <2>1 DEF Typed
  <2>7. parted \subseteq (1..texts) \X Nat
    BY <2>1 DEF Typed
  <2>6. \A k \in 1..Len(stack) :
          /\ stack[k].by \in Callers /\ stack[k].at \in Labels
          /\ stack[k].n \in 1..(Len(stack[k].text) + 1)
    <3> SUFFICES ASSUME NEW k \in 1..Len(stack)
                 PROVE  /\ stack[k].by \in Callers /\ stack[k].at \in Labels
                        /\ stack[k].n \in 1..(Len(stack[k].text) + 1)
      OBVIOUS
    <3>1. stack[k].by \in Callers /\ stack[k].at \in Labels
      BY <2>2 DEF Frames
    <3>2. stack[k].n \in 1..(Len(stack[k].text) + 1)
      BY <2>1 DEF Typed
    <3> QED
      BY <3>1, <3>2
  <2> QED
    BY <2>2, <2>3, <2>4, <2>5, <2>6, <2>7 DEF TypeOK, Labels
<1> QED
  BY <1>1, Invariant, PTL

(* As long as no interrupt came within putChar or next, and the screen is   *)
(* not full, the characters of every text under way show on it.             *)
THEOREM CharactersAreShown == Spec => []CharactersShow
<1>1. IInv => CharactersShow
  <2> SUFFICES ASSUME IInv, ~torn, cursor.y < size.rows, NEW k \in DOMAIN stack,
                      NEW m \in 1..(stack[k].n - 1), stack[k].text[m] # Newline
               PROVE  isDrawn(stack[k].id, m)
    BY DEF CharactersShow, isDrawn
  <2>1. Typed /\ Calls
    BY DEF IInv
  <2>2. k \in 1..Len(stack) /\ cursor.y \in Nat /\ size.rows \in Nat /\ stack[k].n \in Nat
    <3>1. k \in 1..Len(stack) /\ cursor.y \in Nat /\ size.rows \in Nat /\ stack[k] \in Frames
      BY <2>1, TypedFacts
    <3> QED
      BY <3>1 DEF Frames
  <2>3. PICK mark \in [1..Len(stack) -> Place] :
          \A l \in 1..Len(stack) : CallInv(l, stack[l], mark[l], resume(mark, l))
    BY <2>1 DEF Calls
  <2>4. Shown(stack[k], resume(mark, k))
    BY <2>2, <2>3 DEF CallInv
  <2>5. m \in 1..stack[k].n /\ m < stack[k].n
    BY <2>2
  <2>6. isDrawn(stack[k].id, m) \/ cursor.y >= size.rows
    BY <2>4, <2>5 DEF Shown
  <2> QED
    BY <2>2, <2>6
<1> QED
  BY <1>1, Invariant, PTL

(* Whatever interrupts whatever, the rows of one text's characters never go *)
(* up, and within the rows the characters stand in reading order, but for   *)
(* those with an interrupt between the two loads of their place.            *)
THEOREM OrderKept == Spec => []TextsKeepTheirOrder
BY Invariant, PTL DEF IInv

(* The frame buffer is left through its last row only, and before the end   *)
(* of that row is passed only if an interrupt tore a character.             *)
THEOREM FaultsAtTheEnd == Spec => []FaultAtTheEndOnly
BY Invariant, PTL DEF IInv

-----------------------------------------------------------------------------
(* The console as a typewriter.  As long as it is one, only the innermost   *)
(* call is within a character, and what it has read is what is there.       *)
intact == ~torn /\ cursor.y < size.rows

within(labels) == stack # << >> /\ top.at \in labels

filled(r) == {c \in 0..(size.columns - 1) : screen[<<r, c>>] # {}}

(* A character is drawn before the cursor moves. *)
pen == cursor.x + (IF within({"loadX", "storeX"}) THEN 1 ELSE 0)

UpToDate ==
  intact =>
    /\ within({"readY", "put"}) => top.x = cursor.x
    /\ within({"readX", "put"}) => top.y = cursor.y
    /\ within({"storeX"}) => top.x = cursor.x + 1
    /\ within({"loadY", "storeY"}) => cursor.x = 0
    /\ within({"storeY"}) => top.y = cursor.y + 1

(* Rows are filled from the left, the current one up to the pen, and those  *)
(* below it not at all.                                                     *)
Packed ==
  intact =>
    /\ \A r \in 0..(size.rows - 1) : \E w \in 0..size.columns : filled(r) = 0..(w - 1)
    /\ ~within({"loadY", "storeY"}) => filled(cursor.y) = 0..(pen - 1)
    /\ \A r \in 0..(size.rows - 1) : r > cursor.y => filled(r) = {}

(* Who prints, prints one of the texts, and not too many of them.           *)
Printed ==
  {MainTexts[n] : n \in DOMAIN MainTexts} \cup {HandlerTexts[by] : by \in DOMAIN HandlerTexts}

TextsKnown ==
  /\ \A k \in 1..Len(stack) : stack[k].text \in Printed
  /\ intact => texts <= main + count

PaperInv == IInv /\ UpToDate /\ Packed /\ TextsKnown

LEMMA Replaced ==
  ASSUME Typed, stack # << >>, NEW g, stack' = [stack EXCEPT ![Len(stack)] = g]
  PROVE  /\ top' = g /\ stack' # << >> /\ Len(stack') = Len(stack)
         /\ \A labels : within(labels)' <=> g.at \in labels
         /\ \A k \in 1..Len(stack) : k # Len(stack) => stack'[k] = stack[k]
<1>1. Len(stack) \in Nat \ {0} /\ stack \in Seq(Frames)
  BY TypedFacts DEF Typed
<1>2. Len(stack') = Len(stack) /\ stack'[Len(stack)] = g
      /\ \A k \in 1..Len(stack) : k # Len(stack) => stack'[k] = stack[k]
  BY <1>1
<1>3. top' = g /\ stack' # << >>
  <2>1. Len(stack') # 0
    BY <1>1, <1>2
  <2> QED
    BY <1>2, <2>1, EmptySeq DEF top
<1> QED
  BY <1>2, <1>3 DEF within

(* What is known of the call that is running. *)
LEMMA TopKnown ==
  ASSUME IInv, stack # << >>, ~torn
  PROVE  /\ top.at = "put" => top.x < size.columns /\ top.y <= cursor.y
         /\ top.at = "storeY" => top.y = cursor.y + 1
<1>1. /\ Typed /\ Len(stack) \in Nat \ {0} /\ size.columns \in Nat /\ top.x \in Nat /\ top.y \in Nat
      /\ cursor.x \in Nat /\ cursor.y \in Nat
  BY TypedFacts, TopFacts DEF IInv
<1>2. PICK r \in Place : r = cursorPlace /\ r[1] = cursor.y /\ r[2] = cursor.x
  BY <1>1, TypedFacts
<1>3. PICK m \in Place : CallInv(Len(stack), top, m, r)
  <2>1. PICK mark \in [1..Len(stack) -> Place] :
          \A k \in 1..Len(stack) : CallInv(k, stack[k], mark[k], resume(mark, k))
    BY DEF IInv, Calls
  <2> QED
    BY <1>1, <1>2, <2>1 DEF resume, top
<1>4. top.at = "put" => top.x < size.columns
  <2>1. top.at = "put" => top.x <= widest(Len(stack))
    BY <1>3 DEF CallInv, Fits
  <2> QED
    BY <1>1, <2>1 DEF widest
<1>5. top.at = "put" => top.y <= cursor.y
  BY <1>2, <1>3 DEF CallInv, Ordered, Registers
<1>6. top.at = "storeY" => top.y = cursor.y + 1
  BY <1>2, <1>3 DEF CallInv, Shown
<1> QED
  BY <1>4, <1>5, <1>6

(* The screen does not change its size, a torn character is not mended, and *)
(* unless one is torn the cursor does not go up.                            *)
LEMMA NoWayBack ==
  ASSUME IInv, [Next]_vars
  PROVE  size' = size /\ (torn => torn') /\ (~torn' => cursor.y <= cursor'.y)
<1>1. Typed /\ cursor \in [x : Nat, y : Nat] /\ cursor.y \in Nat
  BY DEF IInv, Typed
<1>2. CASE KernelMain
  BY <1>1, <1>2 DEF KernelMain, SizeLine, RAMLines, debugPrint, InitializeInterrupts, SoftwareInterrupt
<1>3. ASSUME NEW by \in {"keyboard", "timer", "exception"}, Interrupt(by)
      PROVE  size' = size /\ (torn => torn') /\ (~torn' => cursor.y <= cursor'.y)
  <2>1. size' = size /\ cursor' = cursor
    BY <1>3 DEF Interrupt
  <2>2. torn => torn'
    BY <1>3 DEF Interrupt
  <2>3. cursor.y <= cursor'.y
    BY <1>1, <2>1
  <2> QED
    BY <2>1, <2>2, <2>3
<1>4. CASE StoreY
  <2>1. size' = size /\ torn' = torn /\ cursor' = [cursor EXCEPT !.y = top.y]
        /\ stack # << >> /\ top.at = "storeY"
    BY <1>4 DEF StoreY, unchangedOthers, at
  <2>2. cursor'.y = top.y
    BY <1>1, <2>1
  <2> QED
    BY <1>1, <2>1, <2>2, TopKnown
<1>5. CASE Printing /\ ~StoreY
  <2>1. size' = size /\ torn' = torn
    BY <1>5 DEF Printing, ReadX, ReadY, Put, PageFault, LoadX, StoreX, Test, Home, LoadY, EndOfText,
         unchangedOthers
  <2>2. cursor'.y = cursor.y
    BY <1>1, <1>5 DEF Printing, ReadX, ReadY, Put, PageFault, LoadX, StoreX, Test, Home, LoadY,
         EndOfText
  <2> QED
    BY <1>1, <2>1, <2>2
<1>6. CASE UNCHANGED vars
  BY <1>1, <1>6 DEF vars
<1> QED
  BY <1>2, <1>3, <1>4, <1>5, <1>6 DEF Next

(* So it is a typewriter until it is none any more.                         *)
LEMMA IntactOnce ==
  ASSUME IInv, IInv', [Next]_vars, intact'
  PROVE  intact /\ ~torn /\ ~torn' /\ size' = size
<1>1. cursor.y \in Nat /\ cursor'.y \in Nat /\ size.rows \in Nat /\ torn \in BOOLEAN
  BY ConsoleAssumption DEF IInv, Typed
<1>2. size' = size /\ (torn => torn') /\ (~torn' => cursor.y <= cursor'.y)
  BY NoWayBack
<1> QED
  BY <1>1, <1>2 DEF intact

(* A page fault comes only when it is none.                                 *)
LEMMA FaultLapses ==
  ASSUME IInv, PageFault
  PROVE  ~intact /\ ~intact'
<1>1. /\ stack # << >> /\ top.at = "put" /\ (below \/ beside)
      /\ UNCHANGED <<size, cursor, torn, parted>>
  BY DEF PageFault, at
<1>2. SUFFICES ASSUME intact PROVE FALSE
  BY <1>1 DEF intact
<1>3. ~torn /\ cursor.y < size.rows
  BY <1>2 DEF intact
<1>4. Typed /\ top.x \in Nat /\ top.y \in Nat
  BY <1>1, TopFacts DEF IInv
<1>5. cursor.y \in Nat /\ size.rows \in Nat /\ size.columns \in Nat
  BY <1>4, TypedFacts
<1>6. top.x < size.columns /\ top.y <= cursor.y
  BY <1>1, <1>3, TopKnown
<1> QED
  BY <1>1, <1>3, <1>4, <1>5, <1>6 DEF below, beside

-----------------------------------------------------------------------------
(* A call either puts a context on the stack or leaves it alone.            *)
LEMMA Called ==
  ASSUME Typed, NEW by, NEW text, call(by, text)
  PROVE  \/ /\ texts' = texts + 1 /\ stack' # << >> /\ Len(stack') = Len(stack) + 1
            /\ top' = context(by, text) /\ stack'[Len(stack')] = top'
            /\ \A k \in 1..Len(stack) : stack'[k] = stack[k]
         \/ stack' = stack /\ texts' = texts
<1>1. PICK length \in Nat : length = Len(stack)
  <2>1. Len(stack) \in Nat
    BY DEF Typed
  <2> QED
    BY <2>1
<1>2. stack \in Seq(Frames)
  BY DEF Typed
<1>3. CASE length < StackDepth
  <2>1. PICK g : g = context(by, text)
    OBVIOUS
  <2>2. stack' = Append(stack, g) /\ texts' = texts + 1
    BY <1>1, <1>3, <2>1 DEF call
  <2>3. Len(stack') = length + 1 /\ stack'[length + 1] = g
        /\ \A k \in 1..length : stack'[k] = stack[k]
    BY <1>1, <1>2, <2>2
  <2>4. stack' # << >>
    <3>1. Len(stack') # 0
      BY <1>1, <2>3
    <3> QED
      BY <3>1, EmptySeq
  <2>5. top' = stack'[Len(stack')]
    BY DEF top
  <2> QED
    BY <1>1, <2>1, <2>2, <2>3, <2>4, <2>5
<1>4. CASE ~(length < StackDepth)
  BY <1>1, <1>4 DEF call
<1> QED
  BY <1>3, <1>4

(* Texts keep being known: each call brings one, and is counted.            *)
LEMMA TextsStep ==
  ASSUME PaperInv, IInv', [Next]_vars
  PROVE  TextsKnown'
<1>1. /\ Typed /\ IInv /\ Len(stack) \in Nat /\ stack \in Seq(Frames)
      /\ \A k \in 1..Len(stack) : stack[k].text \in Printed
  BY DEF PaperInv, IInv, Typed, TextsKnown
<1>2. /\ texts \in Nat /\ main \in Nat /\ count \in Nat
      /\ texts' \in Nat /\ main' \in Nat /\ count' \in Nat
  <2>1. Len(MainTexts) \in Nat /\ InterruptLimit \in Nat
    BY TextsAssumption, ConsoleAssumption
  <2>2. main \in 0..(Len(MainTexts) + 1) /\ count \in 0..InterruptLimit
        /\ main' \in 0..(Len(MainTexts) + 1) /\ count' \in 0..InterruptLimit
    BY DEF PaperInv, IInv, Typed
  <2>3. texts \in Nat /\ texts' \in Nat
    BY DEF PaperInv, IInv, Typed
  <2> QED
    BY <2>1, <2>2, <2>3
<1>3. intact' => intact /\ texts <= main + count
  BY <1>1, IntactOnce DEF PaperInv, TextsKnown
<1>4. ASSUME NEW by, NEW text \in Printed, call(by, text),
             main' + count' = main + count + 1 \/ ~intact'
      PROVE  TextsKnown'
  <2>1. PICK g : g = context(by, text)
    OBVIOUS
  <2>2. g.text = text
    BY <2>1 DEF context
  <2>3. intact' => texts <= main' + count' /\ texts + 1 <= main' + count'
    <3> SUFFICES ASSUME intact' PROVE texts <= main' + count' /\ texts + 1 <= main' + count'
      OBVIOUS
    <3>1. PICK begun \in Nat : begun = main + count
      BY <1>2
    <3>2. PICK known \in Nat : known = texts
      BY <1>2
    <3>3. main' + count' = begun + 1
      BY <1>4, <3>1
    <3>4. known <= begun
      BY <1>3, <3>1, <3>2
    <3>5. known <= begun + 1 /\ known + 1 <= begun + 1
      BY <3>4
    <3> QED
      BY <3>2, <3>3, <3>5
  <2>4. CASE texts' = texts + 1 /\ Len(stack') = Len(stack) + 1 /\ stack'[Len(stack')] = g
             /\ \A k \in 1..Len(stack) : stack'[k] = stack[k]
    <3>1. \A k \in 1..Len(stack') : k \in 1..Len(stack) \/ k = Len(stack')
      BY <1>1, <2>4
    <3>2. \A k \in 1..Len(stack') : stack'[k].text \in Printed
      BY <1>1, <1>4, <2>2, <2>4, <3>1
    <3>3. intact' => texts' <= main' + count'
      BY <1>2, <2>4, <2>3
    <3> QED
      BY <3>2, <3>3 DEF TextsKnown, Printed
  <2>5. CASE stack' = stack /\ texts' = texts
    <3>1. intact' => texts' <= main' + count'
      BY <1>2, <2>5, <2>3
    <3> QED
      BY <1>1, <2>5, <3>1 DEF TextsKnown, Printed
  <2> QED
    BY <1>1, <1>4, <2>1, <2>4, <2>5, Called
<1>5. ASSUME UNCHANGED <<texts, main, count>>, \A k \in 1..Len(stack') : stack'[k].text \in Printed
      PROVE  TextsKnown'
  BY <1>3, <1>5 DEF TextsKnown, Printed
<1>6. ASSUME NEW g, stack # << >>, stack' = [stack EXCEPT ![Len(stack)] = g], g.text = top.text
      PROVE  \A k \in 1..Len(stack') : stack'[k].text \in Printed
  <2>1. Len(stack') = Len(stack) /\ Len(stack) \in 1..Len(stack) /\ top' = g
        /\ \A k \in 1..Len(stack) : k # Len(stack) => stack'[k] = stack[k]
    BY <1>1, <1>6, TypedFacts, Replaced
  <2>2. stack'[Len(stack)] = g /\ top = stack[Len(stack)]
    BY <2>1 DEF top
  <2> QED
    BY <1>1, <1>6, <2>1, <2>2
<1>7. CASE SizeLine \/ RAMLines
  <2>1. call("kernel_main", MainTexts[main + 1]) /\ main' = main + 1 /\ count' = count
        /\ main + 1 \in DOMAIN MainTexts
    BY <1>2, <1>7, TextsAssumption DEF SizeLine, RAMLines, debugPrint
  <2>2. MainTexts[main + 1] \in Printed
    BY <2>1 DEF Printed
  <2>3. main' + count' = main + count + 1
    BY <1>2, <2>1
  <2> QED
    BY <1>4, <2>1, <2>2, <2>3
<1>8. CASE InitializeInterrupts
  BY <1>1, <1>5, <1>8 DEF InitializeInterrupts
<1>9. CASE SoftwareInterrupt
  <2>1. call("keyboard", HandlerTexts.keyboard) /\ main' = main + 1 /\ count' = count
    BY <1>9 DEF SoftwareInterrupt
  <2>2. HandlerTexts.keyboard \in Printed
    BY TextsAssumption DEF Printed
  <2>3. main' + count' = main + count + 1
    BY <1>2, <2>1
  <2> QED
    BY <1>4, <2>1, <2>2, <2>3
<1>10. ASSUME NEW by \in {"keyboard", "timer", "exception"}, Interrupt(by)
      PROVE  TextsKnown'
  <2>1. call(by, HandlerTexts[by]) /\ main' = main /\ count' = count + 1
    BY <1>10 DEF Interrupt
  <2>2. HandlerTexts[by] \in Printed
    BY TextsAssumption DEF Printed
  <2>3. main' + count' = main + count + 1
    BY <1>2, <2>1
  <2> QED
    BY <1>4, <2>1, <2>2, <2>3
<1>11. CASE PageFault
  <2>1. call("pageFault", HandlerTexts.pageFault)
    BY <1>11 DEF PageFault
  <2>2. ~intact'
    BY <1>1, <1>3, <1>11, FaultLapses
  <2>3. HandlerTexts.pageFault \in Printed
    BY TextsAssumption DEF Printed
  <2> QED
    BY <1>4, <2>1, <2>2, <2>3
<1>12. CASE EndOfText
  <2>1. /\ UNCHANGED <<texts, main, count>> /\ stack # << >>
        /\ stack' = SubSeq(stack, 1, Len(stack) - 1) \/ goto("loop")
    BY <1>12 DEF EndOfText, at
  <2>2. CASE stack' = SubSeq(stack, 1, Len(stack) - 1)
    <3>1. PICK length \in Nat : Len(stack) = length + 1
      <4>1. Len(stack) \in Nat \ {0}
        BY <1>1, <2>1, TypedFacts
      <4>2. Len(stack) - 1 \in Nat /\ Len(stack) = (Len(stack) - 1) + 1
        BY <4>1
      <4> QED
        BY <4>2
    <3>2. Len(stack') = length /\ \A k \in 1..length : stack'[k] = stack[k]
      BY <1>1, <2>2, <3>1
    <3>3. \A k \in 1..length : k \in 1..Len(stack)
      BY <3>1
    <3> QED
      BY <1>1, <1>5, <2>1, <3>2, <3>3
  <2>3. CASE goto("loop")
    <3>1. PICK g : g = [top EXCEPT !.at = "loop"] /\ stack' = [stack EXCEPT ![Len(stack)] = g]
      BY <2>3 DEF goto, set
    <3>2. g.text = top.text
      BY <1>1, <2>1, <3>1, TopFacts DEF Frames
    <3> QED
      BY <1>5, <1>6, <2>1, <3>1, <3>2
  <2> QED
    BY <2>1, <2>2, <2>3
<1>13. CASE Printing /\ ~PageFault /\ ~EndOfText
  <2>1. UNCHANGED <<texts, main, count>> /\ stack # << >>
    BY <1>13 DEF Printing, ReadX, ReadY, glyphAhead, Put, LoadX, StoreX, Test, Home, LoadY, StoreY, at,
       unchangedOthers
  <2>2. top \in Frames
    BY <1>1, <2>1, TopFacts
  <2>3. PICK g : g.text = top.text /\ stack' = [stack EXCEPT ![Len(stack)] = g]
    <3>1. CASE ReadX \/ ReadY
      BY <2>2, <3>1 DEF ReadX, ReadY, set, Frames
    <3>2. CASE Put \/ StoreX \/ Home
      BY <2>2, <3>2 DEF Put, StoreX, Home, goto, set, Frames
    <3>3. CASE LoadX \/ LoadY
      BY <2>2, <3>3 DEF LoadX, LoadY, set, Frames
    <3>4. CASE Test \/ StoreY
      BY <2>2, <3>4 DEF Test, StoreY, goto, nextChar, set, Frames
    <3> QED
      BY <1>13, <3>1, <3>2, <3>3, <3>4 DEF Printing
  <2> QED
    BY <1>5, <1>6, <2>1, <2>3
<1>14. CASE UNCHANGED vars
  BY <1>1, <1>5, <1>14 DEF vars
<1> QED
  BY <1>7, <1>8, <1>9, <1>10, <1>11, <1>12, <1>13, <1>14 DEF Next, KernelMain

-----------------------------------------------------------------------------
Inside == {"readX", "readY", "put", "loadX", "storeX", "loadY", "storeY"}

(* What a step between two characters leaves behind ...                     *)
LEMMA RestingStep ==
  ASSUME Packed, intact, UNCHANGED <<size, cursor, screen>>,
         ~within({"loadX", "storeX", "loadY", "storeY"}),
         ~within(Inside)'
  PROVE  UpToDate' /\ Packed'
<1>1. /\ ~within({"readX", "put"})' /\ ~within({"readY", "put"})'
      /\ ~within({"storeX"})' /\ ~within({"loadY", "storeY"})'
      /\ ~within({"storeY"})' /\ ~within({"loadX", "storeX"})'
      /\ ~within({"loadX", "storeX"}) /\ ~within({"loadY", "storeY"})
  BY DEF within, Inside
<1>2. UpToDate'
  BY <1>1 DEF UpToDate
<1>3. pen' = pen
  BY <1>1 DEF pen
<1>4. Packed'
  BY <1>1, <1>3 DEF Packed, filled
<1> QED
  BY <1>2, <1>4

(* ... and one that moves neither cursor nor ink.                           *)
LEMMA CallPacked ==
  ASSUME PaperInv, IInv', intact, intact', NEW by, NEW text, call(by, text),
         UNCHANGED <<size, cursor, screen>>,
         stack = << >> \/ top.at \in {"char", "loop"}
  PROVE  UpToDate' /\ Packed'
<1>1. Typed /\ Packed
  BY DEF PaperInv, IInv
<1>2. ~within(Inside)
      /\ ~within({"loadX", "storeX", "loadY", "storeY"})
  BY DEF within, Inside
<1>3. CASE top' = context(by, text)
  <2>1. top'.at = "char"
    BY <1>3 DEF context
  <2>2. ~within(Inside)'
    BY <2>1 DEF within, Inside
  <2> QED
    BY <1>1, <1>2, <2>2, RestingStep
<1>4. CASE stack' = stack
  <2>1. ~within(Inside)'
    BY <1>2, <1>4 DEF within, top
  <2> QED
    BY <1>1, <1>2, <2>1, RestingStep
<1> QED
  BY <1>1, <1>3, <1>4, Called

LEMMA ReturnPacked ==
  ASSUME PaperInv, intact, EndOfText
  PROVE  UpToDate' /\ Packed'
<1>1. /\ Typed /\ Packed /\ Nesting /\ ~torn /\ stack # << >> /\ top.at = "char"
      /\ UNCHANGED <<size, cursor, screen>>
  BY DEF PaperInv, IInv, intact, EndOfText, at
<1>2. ~within({"loadX", "storeX", "loadY", "storeY"})
  BY <1>1 DEF within
<1>3. Len(stack) \in Nat \ {0} /\ stack \in Seq(Frames)
  BY <1>1, TypedFacts DEF Typed
<1>4. CASE top.by \in {"kernel_main", "keyboard"}
  <2>1. stack' = SubSeq(stack, 1, Len(stack) - 1)
    BY <1>4 DEF EndOfText
  <2>2. PICK length \in Nat : Len(stack) = length + 1
    <3>1. Len(stack) - 1 \in Nat /\ Len(stack) = (Len(stack) - 1) + 1
      BY <1>3
    <3> QED
      BY <3>1
  <2>3. Len(stack') = length /\ \A k \in 1..length : stack'[k] = stack[k]
    BY <1>3, <2>1, <2>2
  <2>4. SUFFICES ASSUME stack' # << >> PROVE top'.at \in {"char", "loop"}
    <3>1. ~within(Inside)'
      BY <2>4 DEF within, Inside
    <3> QED
      BY <1>1, <1>2, <3>1, RestingStep
  <2>5. length \in 1..length
    <3>1. stack' \in Seq(Frames)
      BY <1>3, <2>1, <2>2
    <3>2. length # 0
      BY <2>3, <2>4, <3>1, EmptySeq
    <3> QED
      BY <3>2
  <2>6. top' = stack[length] /\ stack[length + 1] = top
    BY <2>2, <2>3, <2>5 DEF top
  <2>7. length \in 1..Len(stack) /\ length < Len(stack)
    BY <2>2, <2>5
  <2>8. stack[length].at \in {"char", "loop"} \/ stack[length + 1].by = "pageFault"
    BY <1>1, <2>7 DEF Nesting
  <2> QED
    BY <1>4, <2>6, <2>8
<1>5. CASE goto("loop")
  <2>1. PICK g : g = [top EXCEPT !.at = "loop"] /\ stack' = [stack EXCEPT ![Len(stack)] = g]
    BY <1>5 DEF goto, set
  <2>2. g.at = "loop"
    BY <1>1, <2>1, TopFacts DEF Frames
  <2>3. top' = g
    BY <1>1, <2>1, Replaced
  <2>4. ~within(Inside)'
    BY <2>2, <2>3 DEF within, Inside
  <2> QED
    BY <1>1, <1>2, <2>4, RestingStep
<1> QED
  BY <1>4, <1>5 DEF EndOfText

(* The steps of a character, one by one.  Most leave the row as it is.      *)
LEMMA RowKept ==
  ASSUME Packed, intact, UNCHANGED <<size, screen>>, cursor'.y = cursor.y,
         within({"loadY", "storeY"}) => within({"loadY", "storeY"})',
         within({"loadY", "storeY"})' \/ pen' = pen
  PROVE  Packed'
<1>1. \A r : filled(r)' = filled(r)
  BY DEF filled
<1>2. (filled(cursor.y))' = filled(cursor.y)
  BY DEF filled
<1>3. ~within({"loadY", "storeY"})' => filled(cursor.y) = 0..(pen' - 1)
  BY DEF Packed
<1>4. \A r \in 0..(size.rows - 1) : \E w \in 0..size.columns : filled(r) = 0..(w - 1)
  BY DEF Packed
<1>5. \A r \in 0..(size.rows - 1) : r > cursor.y => filled(r) = {}
  BY DEF Packed
<1> QED
  BY <1>1, <1>2, <1>3, <1>4, <1>5 DEF Packed

LEMMA ReadXPacked ==
  ASSUME PaperInv, intact, ReadX
  PROVE  UpToDate' /\ Packed'
<1>1. /\ Typed /\ Packed /\ UpToDate /\ stack # << >> /\ top.at \in {"char", "readX"}
      /\ top \in Frames /\ UNCHANGED <<size, cursor, screen>>
  BY TopFacts DEF PaperInv, IInv, ReadX, glyphAhead, at, unchangedOthers
<1>2. PICK g :
        /\ g = [top EXCEPT !.at = IF top.at = "char" THEN "readY" ELSE "put", !.x = cursor.x]
        /\ stack' = [stack EXCEPT ![Len(stack)] = g]
  BY DEF ReadX, glyphAhead, at, set
<1>3. g.at = (IF top.at = "char" THEN "readY" ELSE "put") /\ g.x = cursor.x /\ g.y = top.y
  BY <1>1, <1>2 DEF Frames
<1>4. top' = g
  BY <1>1, <1>2, Replaced
<1>5. /\ ~within({"storeX"})' /\ ~within({"loadY", "storeY"})' /\ ~within({"storeY"})'
      /\ ~within({"loadX", "storeX"})'
      /\ ~within({"loadX", "storeX"}) /\ ~within({"loadY", "storeY"})
  BY <1>1, <1>3, <1>4 DEF within
<1>6. UpToDate'
  <2>1. within({"readX", "put"})' => top.at = "readX" /\ within({"readX", "put"})
    BY <1>1, <1>3, <1>4 DEF within
  <2>2. top.at = "readX" => top.y = cursor.y
    BY <1>1, <2>1 DEF UpToDate, within
  <2> QED
    BY <1>1, <1>3, <1>4, <1>5, <2>1, <2>2 DEF UpToDate
<1>7. pen' = pen
  BY <1>1, <1>5 DEF pen
<1> QED
  BY <1>1, <1>5, <1>6, <1>7, RowKept

LEMMA ReadYPacked ==
  ASSUME PaperInv, intact, ReadY
  PROVE  UpToDate' /\ Packed'
<1>1. /\ Typed /\ Packed /\ UpToDate /\ stack # << >> /\ top.at \in {"char", "readY"}
      /\ top \in Frames /\ UNCHANGED <<size, cursor, screen>>
  BY TopFacts DEF PaperInv, IInv, ReadY, glyphAhead, at, unchangedOthers
<1>2. PICK g :
        /\ g = [top EXCEPT !.at = IF top.at = "char" THEN "readX" ELSE "put", !.y = cursor.y]
        /\ stack' = [stack EXCEPT ![Len(stack)] = g]
  BY DEF ReadY, glyphAhead, at, set
<1>3. g.at = (IF top.at = "char" THEN "readX" ELSE "put") /\ g.y = cursor.y /\ g.x = top.x
  BY <1>1, <1>2 DEF Frames
<1>4. top' = g
  BY <1>1, <1>2, Replaced
<1>5. /\ ~within({"storeX"})' /\ ~within({"loadY", "storeY"})' /\ ~within({"storeY"})'
      /\ ~within({"loadX", "storeX"})'
      /\ ~within({"loadX", "storeX"}) /\ ~within({"loadY", "storeY"})
  BY <1>1, <1>3, <1>4 DEF within
<1>6. UpToDate'
  <2>1. within({"readY", "put"})' => top.at = "readY" /\ within({"readY", "put"})
    BY <1>1, <1>3, <1>4 DEF within
  <2>2. top.at = "readY" => top.x = cursor.x
    BY <1>1, <2>1 DEF UpToDate, within
  <2> QED
    BY <1>1, <1>3, <1>4, <1>5, <2>1, <2>2 DEF UpToDate
<1>7. pen' = pen
  BY <1>1, <1>5 DEF pen
<1> QED
  BY <1>1, <1>5, <1>6, <1>7, RowKept

LEMMA LoadXPacked ==
  ASSUME PaperInv, intact, LoadX
  PROVE  UpToDate' /\ Packed'
<1>1. /\ Typed /\ Packed /\ stack # << >> /\ top.at = "loadX" /\ top \in Frames
      /\ UNCHANGED <<size, cursor, screen>>
  BY TopFacts DEF PaperInv, IInv, LoadX, at, unchangedOthers
<1>2. PICK g : g = [top EXCEPT !.at = "storeX", !.x = cursor.x + 1]
               /\ stack' = [stack EXCEPT ![Len(stack)] = g]
  BY DEF LoadX, set
<1>3. g.at = "storeX" /\ g.x = cursor.x + 1
  BY <1>1, <1>2 DEF Frames
<1>4. top' = g /\ stack' # << >>
  BY <1>1, <1>2, Replaced
<1>5. /\ ~within({"readX", "put"})' /\ ~within({"readY", "put"})'
      /\ ~within({"loadY", "storeY"})' /\ ~within({"storeY"})'
      /\ within({"loadX", "storeX"})'
      /\ within({"loadX", "storeX"}) /\ ~within({"loadY", "storeY"})
  BY <1>1, <1>3, <1>4 DEF within
<1>6. UpToDate'
  BY <1>1, <1>3, <1>4, <1>5 DEF UpToDate
<1>7. pen' = pen
  BY <1>1, <1>5 DEF pen
<1> QED
  BY <1>1, <1>5, <1>6, <1>7, RowKept

LEMMA StoreXPacked ==
  ASSUME PaperInv, intact, StoreX
  PROVE  UpToDate' /\ Packed'
<1>1. /\ Typed /\ Packed /\ UpToDate /\ stack # << >> /\ top.at = "storeX" /\ top \in Frames
      /\ UNCHANGED <<size, screen>> /\ cursor' = [cursor EXCEPT !.x = top.x] /\ goto("test")
      /\ cursor \in [x : Nat, y : Nat]
  BY TopFacts DEF PaperInv, IInv, StoreX, at, unchangedOthers, Typed
<1>2. PICK g : g = [top EXCEPT !.at = "test"] /\ stack' = [stack EXCEPT ![Len(stack)] = g]
  BY <1>1 DEF goto, set
<1>3. g.at = "test"
  BY <1>1, <1>2 DEF Frames
<1>4. top' = g
  BY <1>1, <1>2, Replaced
<1>5. /\ ~within({"readX", "put"})' /\ ~within({"readY", "put"})'
      /\ ~within({"loadY", "storeY"})' /\ ~within({"storeY"})'
      /\ ~within({"storeX"})' /\ ~within({"loadX", "storeX"})'
      /\ within({"storeX"}) /\ within({"loadX", "storeX"}) /\ ~within({"loadY", "storeY"})
  BY <1>1, <1>3, <1>4 DEF within
<1>6. UpToDate'
  BY <1>5 DEF UpToDate
<1>7. top.x = cursor.x + 1
  BY <1>1, <1>5 DEF UpToDate
<1>8. cursor'.y = cursor.y /\ cursor'.x = cursor.x + 1
  BY <1>1, <1>7
<1>9. pen' = pen
  <2>1. pen = cursor.x + 1
    BY <1>5 DEF pen
  <2>2. pen' = cursor'.x + 0
    BY <1>5 DEF pen
  <2>3. cursor'.x + 0 = cursor'.x
    BY <1>1, <1>8
  <2> QED
    BY <1>8, <2>1, <2>2, <2>3
<1> QED
  BY <1>1, <1>5, <1>6, <1>8, <1>9, RowKept

LEMMA TestPacked ==
  ASSUME PaperInv, intact, Test
  PROVE  UpToDate' /\ Packed'
<1>1. /\ Typed /\ Packed /\ stack # << >> /\ top.at = "test" /\ top \in Frames
      /\ UNCHANGED <<size, cursor, screen>> /\ (goto("home") \/ nextChar)
  BY TopFacts DEF PaperInv, IInv, Test, at, unchangedOthers
<1>2. top'.at \in {"home", "char"}
  <2>1. CASE goto("home")
    <3>1. PICK g : g = [top EXCEPT !.at = "home"] /\ stack' = [stack EXCEPT ![Len(stack)] = g]
      BY <2>1 DEF goto, set
    <3>2. g.at \in {"home", "char"}
      BY <1>1, <3>1 DEF Frames
    <3>3. top' = g
      BY <1>1, <3>1, Replaced
    <3> QED
      BY <3>2, <3>3
  <2>2. CASE nextChar
    <3>1. PICK g : g = [top EXCEPT !.at = "char", !.n = @ + 1]
                   /\ stack' = [stack EXCEPT ![Len(stack)] = g]
      BY <2>2 DEF nextChar, set
    <3>2. g.at \in {"home", "char"}
      BY <1>1, <3>1 DEF Frames
    <3>3. top' = g
      BY <1>1, <3>1, Replaced
    <3> QED
      BY <3>2, <3>3
  <2> QED
    BY <1>1, <2>1, <2>2
<1>3. ~within({"loadX", "storeX", "loadY", "storeY"})
      /\ ~within(Inside)'
  BY <1>1, <1>2 DEF within, Inside
<1> QED
  BY <1>1, <1>3, RestingStep

LEMMA HomePacked ==
  ASSUME PaperInv, intact, Home
  PROVE  UpToDate' /\ Packed'
<1>1. /\ Typed /\ Packed /\ stack # << >> /\ top.at \in {"home", "char"} /\ top \in Frames
      /\ UNCHANGED <<size, screen>> /\ cursor' = [cursor EXCEPT !.x = 0] /\ goto("loadY")
      /\ cursor \in [x : Nat, y : Nat]
  BY TopFacts DEF PaperInv, IInv, Home, at, unchangedOthers, Typed
<1>2. PICK g : g = [top EXCEPT !.at = "loadY"] /\ stack' = [stack EXCEPT ![Len(stack)] = g]
  BY <1>1 DEF goto, set
<1>3. g.at = "loadY"
  BY <1>1, <1>2 DEF Frames
<1>4. top' = g /\ stack' # << >>
  BY <1>1, <1>2, Replaced
<1>5. /\ ~within({"readX", "put"})' /\ ~within({"readY", "put"})'
      /\ ~within({"storeX"})' /\ ~within({"storeY"})'
      /\ within({"loadY", "storeY"})' /\ ~within({"loadY", "storeY"})
  BY <1>1, <1>3, <1>4 DEF within
<1>6. cursor'.y = cursor.y /\ cursor'.x = 0
  BY <1>1
<1>7. UpToDate'
  BY <1>5, <1>6 DEF UpToDate
<1> QED
  BY <1>1, <1>5, <1>6, <1>7, RowKept

LEMMA LoadYPacked ==
  ASSUME PaperInv, intact, LoadY
  PROVE  UpToDate' /\ Packed'
<1>1. /\ Typed /\ Packed /\ UpToDate /\ stack # << >> /\ top.at = "loadY" /\ top \in Frames
      /\ UNCHANGED <<size, cursor, screen>>
  BY TopFacts DEF PaperInv, IInv, LoadY, at, unchangedOthers
<1>2. PICK g : g = [top EXCEPT !.at = "storeY", !.y = cursor.y + 1]
               /\ stack' = [stack EXCEPT ![Len(stack)] = g]
  BY DEF LoadY, set
<1>3. g.at = "storeY" /\ g.y = cursor.y + 1
  BY <1>1, <1>2 DEF Frames
<1>4. top' = g /\ stack' # << >>
  BY <1>1, <1>2, Replaced
<1>5. /\ ~within({"readX", "put"})' /\ ~within({"readY", "put"})'
      /\ ~within({"storeX"})' /\ within({"loadY", "storeY"})'
      /\ within({"loadY", "storeY"})
  BY <1>1, <1>3, <1>4 DEF within
<1>6. cursor.x = 0
  BY <1>1, <1>5 DEF UpToDate
<1>7. UpToDate'
  BY <1>1, <1>3, <1>4, <1>5, <1>6 DEF UpToDate
<1> QED
  BY <1>1, <1>5, <1>7, RowKept

LEMMA StoreYPacked ==
  ASSUME PaperInv, intact, intact', StoreY
  PROVE  UpToDate' /\ Packed'
<1>1. /\ Typed /\ Packed /\ UpToDate /\ stack # << >> /\ top.at = "storeY" /\ top \in Frames
      /\ UNCHANGED <<size, screen>> /\ cursor' = [cursor EXCEPT !.y = top.y] /\ nextChar
      /\ cursor \in [x : Nat, y : Nat]
  BY TopFacts DEF PaperInv, IInv, StoreY, at, unchangedOthers, Typed
<1>2. PICK g : g = [top EXCEPT !.at = "char", !.n = @ + 1]
               /\ stack' = [stack EXCEPT ![Len(stack)] = g]
  BY <1>1 DEF nextChar, set
<1>3. g.at = "char"
  BY <1>1, <1>2 DEF Frames
<1>4. top' = g
  BY <1>1, <1>2, Replaced
<1>5. /\ ~within({"readX", "put"})' /\ ~within({"readY", "put"})'
      /\ ~within({"loadY", "storeY"})' /\ ~within({"storeY"})'
      /\ ~within({"storeX"})' /\ ~within({"loadX", "storeX"})'
      /\ within({"storeY"}) /\ within({"loadY", "storeY"})
  BY <1>1, <1>3, <1>4 DEF within
<1>6. UpToDate'
  BY <1>5 DEF UpToDate
<1>7. cursor.x = 0 /\ top.y = cursor.y + 1
  BY <1>1, <1>5 DEF UpToDate
<1>8. cursor'.y = cursor.y + 1 /\ cursor'.x = 0 /\ cursor.y \in Nat
  BY <1>1, <1>7
<1>9. cursor'.y \in 0..(size.rows - 1)
  <2>1. size' = size /\ cursor'.y < size'.rows /\ size.rows \in Nat
    BY <1>1, TypedFacts DEF intact
  <2> QED
    BY <1>8, <2>1
<1>10. \A r \in 0..(size.rows - 1) : r > cursor.y => filled(r) = {}
  BY <1>1 DEF Packed
<1>11. filled(cursor'.y) = {}
  BY <1>8, <1>9, <1>10
<1>12. pen' = 0
  <2>1. pen' = cursor'.x + 0
    BY <1>5 DEF pen
  <2> QED
    BY <1>8, <2>1
<1>13. \A r \in Int : filled(r)' = filled(r)
  BY <1>1 DEF filled
<1>14. (filled(cursor.y))' = filled(cursor'.y)
  BY <1>1 DEF filled
<1>15. \A r \in 0..(size.rows - 1) : r > cursor'.y => filled(r)' = {}
  BY <1>8, <1>10, <1>13
<1>16. 0..(pen' - 1) = {}
  BY <1>12
<1>17. \A r \in 0..(size.rows - 1) : \E w \in 0..size.columns : filled(r)' = 0..(w - 1)
  BY <1>1, <1>13 DEF Packed
<1> QED
  BY <1>1, <1>6, <1>11, <1>14, <1>15, <1>16, <1>17 DEF Packed

(* put draws into the first free cell of the row, which is the cursor's.    *)
LEMMA Inked ==
  ASSUME PaperInv, intact, Put
  PROVE  /\ cursor.x \in 0..(size.columns - 1) /\ cursor.y \in 0..(size.rows - 1)
         /\ filled(cursor.y) = 0..(cursor.x - 1)
         /\ screen[<<cursor.y, cursor.x>>] = {}
         /\ screen' = [screen EXCEPT ![<<cursor.y, cursor.x>>] = {<<top.id, top.n>>}]
         /\ UNCHANGED <<size, cursor, torn, parted>>
<1>1. /\ IInv /\ Typed /\ Packed /\ UpToDate /\ stack # << >> /\ top.at = "put"
      /\ UNCHANGED <<size, cursor, torn, parted>> /\ ~torn /\ cursor.y < size.rows
  BY DEF PaperInv, IInv, Put, at, unchangedOthers, intact
<1>2. /\ within({"put"}) /\ ~within({"loadX", "storeX"}) /\ ~within({"loadY", "storeY"})
  BY <1>1 DEF within
<1>3. top.x = cursor.x /\ top.y = cursor.y
  BY <1>1 DEF UpToDate, PaperInv, within
<1>4. cursor.x \in Nat /\ cursor.y \in Nat /\ size.rows \in Nat /\ size.columns \in Nat
  BY <1>1, TypedFacts
<1>5. top.x < size.columns
  BY <1>1, TopKnown
<1>6. cursor.x \in 0..(size.columns - 1) /\ cursor.y \in 0..(size.rows - 1)
  BY <1>1, <1>3, <1>4, <1>5
<1>7. filled(cursor.y) = 0..(cursor.x - 1)
  <2>1. pen = cursor.x + 0
    BY <1>2 DEF pen
  <2>2. pen = cursor.x
    BY <1>4, <2>1
  <2> QED
    BY <1>1, <1>2, <2>2 DEF Packed
<1>8. screen[<<cursor.y, cursor.x>>] = {}
  <2>1. cursor.x \notin filled(cursor.y)
    BY <1>4, <1>7
  <2> QED
    BY <1>6, <2>1 DEF filled
<1>9. screen' = [screen EXCEPT ![<<cursor.y, cursor.x>>] = {<<top.id, top.n>>}]
  <2>1. ~below /\ ~beside
    BY <1>3, <1>4, <1>6 DEF below, beside
  <2>2. screen' = [screen EXCEPT ![<<cursor.y, cursor.x>>] =
                     screen[<<cursor.y, cursor.x>>] \cup {<<top.id, top.n>>}]
    BY <1>3, <2>1 DEF Put
  <2>3. screen[<<cursor.y, cursor.x>>] \cup {<<top.id, top.n>>} = {<<top.id, top.n>>}
    BY <1>8
  <2> QED
    BY <2>2, <2>3
<1> QED
  BY <1>1, <1>6, <1>7, <1>8, <1>9

(* So that row has one more, and the others what they had.                  *)
LEMMA InkedRows ==
  ASSUME PaperInv, intact, Put
  PROVE  /\ \A r \in 0..(size.rows - 1) :
              r # cursor.y =>
                /\ filled(r)' = filled(r)
                /\ \A c \in 0..(size.columns - 1) : screen'[<<r, c>>] = screen[<<r, c>>]
         /\ (filled(cursor.y))' = 0..cursor.x
<1>1. PICK x, y : x = cursor.x /\ y = cursor.y
  OBVIOUS
<1>2. /\ x \in 0..(size.columns - 1) /\ y \in 0..(size.rows - 1) /\ x \in Nat /\ y \in Nat
      /\ filled(y) = 0..(x - 1)
      /\ screen' = [screen EXCEPT ![<<y, x>>] = {<<top.id, top.n>>}]
      /\ UNCHANGED <<size, cursor>>
      /\ DOMAIN screen = (0..(size.rows - 1)) \X (0..(size.columns - 1))
      /\ size.columns \in Nat
  BY <1>1, Inked, TypedFacts DEF PaperInv, IInv
<1>3. \A r \in 0..(size.rows - 1) : \A c \in 0..(size.columns - 1) :
        r # y => screen'[<<r, c>>] = screen[<<r, c>>]
  BY <1>2
<1>4. \A r \in 0..(size.rows - 1) : r # y => filled(r)' = filled(r)
  BY <1>2, <1>3 DEF filled
<1>5. filled(y)' = 0..x
  <2>1. \A c \in 0..(size.columns - 1) : c # x => screen'[<<y, c>>] = screen[<<y, c>>]
    BY <1>2
  <2>2. screen'[<<y, x>>] # {}
    BY <1>2
  <2>3. filled(y)' = filled(y) \cup {x}
    BY <1>2, <2>1, <2>2 DEF filled
  <2>4. (0..(x - 1)) \cup {x} = 0..x
    BY <1>2
  <2> QED
    BY <1>2, <2>3, <2>4
<1>6. (filled(cursor.y))' = filled(y)'
  BY <1>1, <1>2 DEF filled
<1> QED
  BY <1>1, <1>3, <1>4, <1>5, <1>6

LEMMA PutPacked ==
  ASSUME PaperInv, intact, Put
  PROVE  UpToDate' /\ Packed'
<1>1. /\ Typed /\ Packed /\ stack # << >> /\ top.at = "put" /\ top \in Frames /\ goto("loadX")
  BY TopFacts DEF PaperInv, IInv, Put, at
<1>2. PICK g : g = [top EXCEPT !.at = "loadX"] /\ stack' = [stack EXCEPT ![Len(stack)] = g]
  BY <1>1 DEF goto, set
<1>3. g.at = "loadX"
  BY <1>1, <1>2 DEF Frames
<1>4. top' = g /\ stack' # << >>
  BY <1>1, <1>2, Replaced
<1>5. /\ ~within({"readX", "put"})' /\ ~within({"readY", "put"})'
      /\ ~within({"loadY", "storeY"})' /\ ~within({"storeY"})'
      /\ ~within({"storeX"})' /\ within({"loadX", "storeX"})'
  BY <1>3, <1>4 DEF within
<1>6. UpToDate'
  BY <1>5 DEF UpToDate
<1>7. PICK x, y : x = cursor.x /\ y = cursor.y
  OBVIOUS
<1>8. /\ x \in 0..(size.columns - 1) /\ y \in 0..(size.rows - 1) /\ x \in Nat /\ y \in Nat
      /\ UNCHANGED <<size, cursor>> /\ size.columns \in Nat
  BY <1>1, <1>7, Inked, TypedFacts
<1>9. /\ \A r \in 0..(size.rows - 1) : r # y => filled(r)' = filled(r)
      /\ (filled(cursor.y))' = 0..x /\ filled(y)' = 0..x
  <2>1. (filled(cursor.y))' = filled(y)'
    BY <1>7, <1>8 DEF filled
  <2> QED
    BY <1>7, <2>1, InkedRows
<1>10. pen' = x + 1
  BY <1>5, <1>7, <1>8 DEF pen
<1>11. (filled(cursor.y))' = 0..(pen' - 1)
  <2>1. pen' - 1 = x
    BY <1>8, <1>10
  <2> QED
    BY <1>9, <2>1
<1>12. \A r \in 0..(size.rows - 1) : \E w \in 0..size.columns : filled(r)' = 0..(w - 1)
  <2> SUFFICES ASSUME NEW r \in 0..(size.rows - 1)
               PROVE  \E w \in 0..size.columns : filled(r)' = 0..(w - 1)
    OBVIOUS
  <2>1. CASE r = y
    <3>1. x + 1 \in 0..size.columns /\ (x + 1) - 1 = x
      BY <1>8
    <3> QED
      BY <1>9, <2>1, <3>1
  <2>2. CASE r # y
    BY <1>1, <1>9, <2>2 DEF Packed
  <2> QED
    BY <2>1, <2>2
<1>13. \A r \in 0..(size.rows - 1) : r > cursor'.y => filled(r)' = {}
  <2> SUFFICES ASSUME NEW r \in 0..(size.rows - 1), r > y
               PROVE  filled(r)' = {}
    BY <1>7, <1>8
  <2>1. r # y
    BY <1>8
  <2>2. filled(r) = {}
    BY <1>1, <1>7 DEF Packed
  <2> QED
    BY <1>9, <2>1, <2>2
<1>14. Packed'
  BY <1>8, <1>11, <1>12, <1>13 DEF Packed
<1> QED
  BY <1>6, <1>14

(* As long as nothing is torn, what is on the screen is a page of print.    *)
LEMMA PackedStep ==
  ASSUME PaperInv, IInv', [Next]_vars
  PROVE  UpToDate' /\ Packed'
<1>1. CASE ~intact'
  BY <1>1 DEF UpToDate, Packed
<1>2. CASE intact'
  <2>1. intact /\ ~torn /\ ~torn'
    BY <1>2, IntactOnce DEF PaperInv
  <2>2. CASE SizeLine \/ RAMLines
    <3>1. call("kernel_main", MainTexts[main + 1]) /\ UNCHANGED <<size, cursor, screen>>
          /\ stack = << >>
      BY <2>2 DEF SizeLine, RAMLines, debugPrint
    <3> QED
      BY <1>2, <2>1, <3>1, CallPacked
  <2>3. CASE SoftwareInterrupt
    <3>1. call("keyboard", HandlerTexts.keyboard) /\ UNCHANGED <<size, cursor, screen>>
          /\ stack = << >>
      BY <2>3 DEF SoftwareInterrupt
    <3> QED
      BY <1>2, <2>1, <3>1, CallPacked
  <2>4. ASSUME NEW by \in {"keyboard", "timer", "exception"}, Interrupt(by)
        PROVE  UpToDate' /\ Packed'
    <3>1. call(by, HandlerTexts[by]) /\ UNCHANGED <<size, cursor, screen>>
          /\ torn' = (torn \/ (stack # << >> /\ top.at \notin {"char", "loop"}))
      BY <2>4 DEF Interrupt
    <3>2. stack = << >> \/ top.at \in {"char", "loop"}
      BY <2>1, <3>1
    <3> QED
      BY <1>2, <2>1, <3>1, <3>2, CallPacked
  <2>5. CASE UNCHANGED <<size, cursor, screen, stack, torn, parted>>
    <3>1. UpToDate'
      BY <2>1, <2>5 DEF PaperInv, UpToDate, within, top
    <3>2. pen' = pen /\ (within({"loadY", "storeY"})' <=> within({"loadY", "storeY"}))
      BY <2>5 DEF pen, within, top
    <3> QED
      BY <2>1, <2>5, <3>1, <3>2, RowKept DEF PaperInv
  <2>6. CASE InitializeInterrupts \/ UNCHANGED vars
    BY <2>5, <2>6 DEF InitializeInterrupts, vars
  <2>7. CASE PageFault
    BY <2>1, <2>7, FaultLapses DEF PaperInv
  <2> QED
    BY <1>2, <2>1, <2>2, <2>3, <2>4, <2>6, <2>7, ReturnPacked, ReadXPacked, ReadYPacked, PutPacked,
       LoadXPacked, StoreXPacked, TestPacked, HomePacked, LoadYPacked, StoreYPacked
       DEF Next, KernelMain, Printing
<1> QED
  BY <1>1, <1>2

(* The beginning: an empty page.                                            *)
LEMMA InitPaperInv == Init => PaperInv
<1> SUFFICES ASSUME Init PROVE PaperInv
  OBVIOUS
<1>1. IInv
  BY InitIInv
<1>2. /\ stack = << >> /\ Len(stack) = 0 /\ texts = 0 /\ main = 0 /\ count = 0
      /\ cursor.x = 0 /\ cursor.y = 0 /\ size.columns \in Nat /\ size.rows \in Nat
      /\ screen = [c \in (0..(size.rows - 1)) \X (0..(size.columns - 1)) |-> {}]
  BY <1>1, TypedFacts DEF Init, IInv
<1>3. UpToDate /\ TextsKnown
  BY <1>2 DEF UpToDate, TextsKnown, within
<1>4. \A r \in 0..(size.rows - 1) : filled(r) = {}
  BY <1>2 DEF filled
<1>5. pen = 0
  BY <1>2 DEF pen, within
<1>6. 0..(0 - 1) = {} /\ 0 \in 0..size.columns
  BY <1>2
<1>7. Packed
  <2>1. intact => cursor.y \in 0..(size.rows - 1)
    BY <1>2 DEF intact
  <2> QED
    BY <1>4, <1>5, <1>6, <2>1 DEF Packed
<1> QED
  BY <1>1, <1>3, <1>7 DEF PaperInv

(* On every screen that can be reached.                                     *)
THEOREM PaperInvariant == Spec => []PaperInv
<1>1. PaperInv /\ IInv' /\ [Next]_vars => PaperInv'
  BY TextsStep, PackedStep DEF PaperInv
<1> QED
  BY <1>1, InitPaperInv, Invariant, PTL DEF Spec

-----------------------------------------------------------------------------
(* The lines of the page, as sequences.                                     *)
Line == Seq(SUBSET (Nat \X Nat))

page == [r \in 1..(lastRow + 1) |-> row(r - 1)]

LEMMA FunctionIsSequence ==
  ASSUME NEW S, NEW n \in Nat, NEW s \in [1..n -> S]
  PROVE  s \in Seq(S) /\ Len(s) = n
<1>1. s \in Seq(S)
  BY SeqDef
<1> QED
  BY <1>1

LEMMA AppendIs ==
  ASSUME NEW S, NEW n \in Nat, NEW s \in [1..n -> S], NEW t \in [1..(n + 1) -> S],
         \A k \in 1..n : t[k] = s[k]
  PROVE  t = Append(s, t[n + 1])
<1>1. s \in Seq(S) /\ Len(s) = n
  BY FunctionIsSequence
<1>2. n + 1 \in Nat /\ n + 1 \in 1..(n + 1) /\ t[n + 1] \in S
  OBVIOUS
<1>3. t \in Seq(S) /\ Len(t) = n + 1
  BY <1>2, FunctionIsSequence
<1>4. PICK a : a = Append(s, t[n + 1])
  OBVIOUS
<1>5. a \in Seq(S) /\ Len(a) = n + 1 /\ a[n + 1] = t[n + 1] /\ \A k \in 1..n : a[k] = s[k]
  BY <1>1, <1>2, <1>4
<1>6. \A k \in 1..(n + 1) : a[k] = t[k]
  <2>1. \A k \in 1..(n + 1) : k \in 1..n \/ k = n + 1
    OBVIOUS
  <2> QED
    BY <1>5, <2>1
<1>7. a = t
  BY <1>3, <1>5, <1>6, SeqEqual
<1> QED
  BY <1>4, <1>7

(* A row filled from the left is its cells. *)
LEMMA RowIs ==
  ASSUME Typed, NEW r \in 0..(size.rows - 1), NEW w \in 0..size.columns, filled(r) = 0..(w - 1)
  PROVE  /\ row(r) = [k \in 1..w |-> screen[<<r, k - 1>>]]
         /\ row(r) \in [1..w -> SUBSET (Nat \X Nat)]
         /\ row(r) \in Line /\ Len(row(r)) = w
<1>1. size.columns \in Nat /\ w \in Nat /\ r \in Nat
  BY TypedFacts
<1>2. Cardinality(0..(w - 1)) = w
  <2>1. 0 \in Int /\ w - 1 \in Int
    BY <1>1
  <2>2. Cardinality(0..(w - 1)) = IF 0 > w - 1 THEN 0 ELSE (w - 1) - 0 + 1
    BY <2>1, FS_Interval
  <2> QED
    BY <1>1, <2>2
<1>3. row(r) = [k \in 1..w |-> screen[<<r, k - 1>>]]
  BY <1>2 DEF row, filled
<1>4. \A k \in 1..w : screen[<<r, k - 1>>] \in SUBSET (Nat \X Nat)
  <2> SUFFICES ASSUME NEW k \in 1..w PROVE screen[<<r, k - 1>>] \in SUBSET (Nat \X Nat)
    OBVIOUS
  <2>1. k - 1 \in 0..(size.columns - 1)
    BY <1>1
  <2>2. screen[<<r, k - 1>>] \in SUBSET ((1..texts) \X Nat)
    BY <2>1 DEF Typed
  <2>3. 1..texts \subseteq Nat
    BY DEF Typed
  <2> QED
    BY <2>2, <2>3
<1>5. row(r) \in [1..w -> SUBSET (Nat \X Nat)]
  BY <1>3, <1>4
<1> QED
  BY <1>1, <1>3, <1>5, FunctionIsSequence DEF Line

LEMMA PageIs ==
  ASSUME PaperInv, intact
  PROVE  /\ lastRow = cursor.y /\ cursor.y \in Nat
         /\ page \in [1..(cursor.y + 1) -> Line]
         /\ page \in Seq(Line) /\ Len(page) = cursor.y + 1
         /\ \A r \in 1..(cursor.y + 1) : page[r] = row(r - 1)
<1>1. Typed /\ Packed /\ cursor.y < size.rows
  BY DEF PaperInv, IInv, intact
<1>2. cursor.y \in Nat /\ size.rows \in Nat /\ lastRow = cursor.y
  BY <1>1, TypedFacts DEF lastRow
<1>3. \A r \in 1..(cursor.y + 1) : row(r - 1) \in Line
  <2> SUFFICES ASSUME NEW r \in 1..(cursor.y + 1) PROVE row(r - 1) \in Line
    OBVIOUS
  <2>1. PICK i \in 0..(size.rows - 1) : i = r - 1
    BY <1>1, <1>2
  <2>2. PICK w \in 0..size.columns : filled(i) = 0..(w - 1)
    BY <1>1, <2>1 DEF Packed, PaperInv
  <2> QED
    BY <1>1, <2>1, <2>2, RowIs
<1>4. page = [r \in 1..(cursor.y + 1) |-> row(r - 1)]
  BY <1>2 DEF page
<1>5. page \in [1..(cursor.y + 1) -> Line]
  BY <1>3, <1>4
<1>6. cursor.y + 1 \in Nat
  BY <1>2
<1> QED
  BY <1>2, <1>4, <1>5, <1>6, FunctionIsSequence

(* The page stays as it is where neither ink nor the last row changes.      *)
LEMMA PageKept ==
  ASSUME UNCHANGED <<size, screen>>, lastRow' = lastRow
  PROVE  page' = page
<1>1. \A r : row(r)' = row(r)
  BY DEF row
<1> QED
  BY <1>1 DEF page

-----------------------------------------------------------------------------
(* Step by step.  A character that is drawn is typed ...                    *)
LEMMA PutTypes ==
  ASSUME PaperInv, intact, Put
  PROVE  /\ page' = [page EXCEPT ![Len(page)] = Append(page[Len(page)], {<<top.id, top.n>>})]
         /\ Len(page[Len(page)]) < size.columns
<1>1. PICK x, y : x = cursor.x /\ y = cursor.y
  OBVIOUS
<1>2. /\ x \in 0..(size.columns - 1) /\ y \in 0..(size.rows - 1) /\ x \in Nat /\ y \in Nat
      /\ filled(y) = 0..(x - 1)
      /\ screen' = [screen EXCEPT ![<<y, x>>] = {<<top.id, top.n>>}]
      /\ UNCHANGED <<size, cursor, torn, parted>>
      /\ DOMAIN screen = (0..(size.rows - 1)) \X (0..(size.columns - 1))
      /\ size.columns \in Nat /\ size.rows \in Nat
  BY <1>1, Inked, TypedFacts DEF PaperInv, IInv
<1>3. /\ page \in [1..(y + 1) -> Line] /\ Len(page) = y + 1 /\ lastRow = y
      /\ \A r \in 1..(y + 1) : page[r] = row(r - 1)
  BY <1>1, PageIs
<1>4. /\ row(y) = [k \in 1..x |-> screen[<<y, k - 1>>]]
      /\ row(y) \in [1..x -> SUBSET (Nat \X Nat)] /\ Len(row(y)) = x
  <2>1. x \in 0..size.columns
    BY <1>2
  <2> QED
    BY <1>2, <2>1, RowIs DEF PaperInv, IInv
<1>5. PICK ink : ink = {<<top.id, top.n>>}
  OBVIOUS
<1>6. ink \in SUBSET (Nat \X Nat)
  <2>1. top \in Frames
    BY TopFacts DEF PaperInv, IInv, Put, at
  <2>2. top.id \in Nat /\ top.n \in Nat
    BY <2>1 DEF Frames
  <2> QED
    BY <1>5, <2>2
<1>7. PICK t : t = row(y)'
  OBVIOUS
<1>8. t = [k \in 1..(x + 1) |-> screen'[<<y, k - 1>>]]
  <2>1. Cardinality(0..x) = x + 1
    <3>1. Cardinality(0..x) = IF 0 > x THEN 0 ELSE x - 0 + 1
      BY <1>2, FS_Interval
    <3> QED
      BY <1>2, <3>1
  <2>2. filled(y)' = 0..x
    <3>1. (filled(cursor.y))' = filled(y)'
      BY <1>1, <1>2 DEF filled
    <3> QED
      BY <1>1, <3>1, InkedRows
  <2> QED
    BY <1>7, <2>1, <2>2 DEF row, filled
<1>9. t[x + 1] = ink
  <2>1. x + 1 \in 1..(x + 1) /\ (x + 1) - 1 = x
    BY <1>2
  <2>2. screen'[<<y, x>>] = ink
    BY <1>2, <1>5
  <2> QED
    BY <1>8, <2>1, <2>2
<1>10. \A k \in 1..x : t[k] = row(y)[k]
  <2> SUFFICES ASSUME NEW k \in 1..x PROVE t[k] = row(y)[k]
    OBVIOUS
  <2>1. k \in 1..(x + 1) /\ k - 1 \in 0..(size.columns - 1) /\ k - 1 # x
    BY <1>2
  <2>2. screen'[<<y, k - 1>>] = screen[<<y, k - 1>>]
    BY <1>2, <2>1
  <2> QED
    BY <1>4, <1>8, <2>1, <2>2
<1>11. t \in [1..(x + 1) -> SUBSET (Nat \X Nat)]
  <2>1. \A k \in 1..(x + 1) : k \in 1..x \/ k = x + 1
    BY <1>2
  <2>2. \A k \in 1..(x + 1) : t[k] \in SUBSET (Nat \X Nat)
    BY <1>4, <1>6, <1>9, <1>10, <2>1
  <2> QED
    BY <1>8, <2>2
<1>12. t = Append(row(y), ink)
  BY <1>2, <1>4, <1>9, <1>10, <1>11, AppendIs
<1>13. ASSUME NEW r \in 0..(size.rows - 1), r # y PROVE row(r)' = row(r)
  <2>1. PICK w \in 0..size.columns : filled(r) = 0..(w - 1)
    BY DEF PaperInv, Packed
  <2>2. row(r) = [k \in 1..w |-> screen[<<r, k - 1>>]] /\ Len(row(r)) = w
    BY <2>1, RowIs DEF PaperInv, IInv
  <2>3. /\ filled(r)' = filled(r)
        /\ \A c \in 0..(size.columns - 1) : screen'[<<r, c>>] = screen[<<r, c>>]
    BY <1>1, <1>13, InkedRows
  <2>4. Cardinality(0..(w - 1)) = w
    <3>1. w \in Int /\ w - 1 \in Int /\ w >= 0
      BY <1>2
    <3>2. Cardinality(0..(w - 1)) = IF 0 > w - 1 THEN 0 ELSE (w - 1) - 0 + 1
      BY <3>1, FS_Interval
    <3> QED
      BY <3>1, <3>2
  <2>5. row(r)' = [k \in 1..w |-> screen'[<<r, k - 1>>]]
    BY <2>1, <2>3, <2>4 DEF row, filled
  <2>6. \A k \in 1..w : screen'[<<r, k - 1>>] = screen[<<r, k - 1>>]
    <3>1. \A k \in 1..w : k - 1 \in 0..(size.columns - 1)
      BY <1>2
    <3> QED
      BY <2>3, <3>1
  <2> QED
    BY <2>2, <2>5, <2>6
<1>14. page' = [r \in 1..(y + 1) |-> row(r - 1)']
  <2>1. lastRow' = lastRow
    BY <1>2 DEF lastRow
  <2> QED
    BY <1>3, <2>1 DEF page
<1>15. page' = [page EXCEPT ![y + 1] = Append(row(y), ink)]
  <2>1. ASSUME NEW r \in 1..(y + 1) PROVE page'[r] = IF r = y + 1 THEN t ELSE page[r]
    <3>1. r - 1 \in 0..(size.rows - 1) /\ (r - 1 = y <=> r = y + 1)
      BY <1>2
    <3>2. page'[r] = row(r - 1)'
      BY <1>14
    <3>3. CASE r = y + 1
      <4>1. row(r - 1)' = row(y)'
        BY <3>1, <3>3
      <4> QED
        BY <1>7, <3>2, <3>3, <4>1
    <3>4. CASE r # y + 1
      <4>1. PICK i \in 0..(size.rows - 1) : i = r - 1 /\ i # y
        BY <3>1, <3>4
      <4>2. row(r - 1)' = row(i)' /\ row(r - 1) = row(i)
        BY <4>1
      <4> QED
        BY <1>3, <1>13, <3>2, <3>4, <4>1, <4>2
    <3> QED
      BY <3>3, <3>4
  <2> QED
    BY <1>3, <1>12, <1>14, <2>1
<1>16. y + 1 \in 1..(y + 1) /\ (y + 1) - 1 = y
  BY <1>2
<1>17. page[y + 1] = row(y)
  BY <1>3, <1>16
<1>18. Len(row(y)) < size.columns
  BY <1>2, <1>4
<1> QED
  BY <1>3, <1>5, <1>15, <1>17, <1>18

LEMMA PutChars ==
  ASSUME PaperInv, intact, Put
  PROVE  <<top.id, top.n>> \in textNumbers \X places
<1>1. /\ IInv /\ Typed /\ Numbered /\ stack # << >> /\ top.at = "put"
      /\ Len(stack) \in 1..Len(stack) /\ top = stack[Len(stack)]
  <2>1. Typed /\ Numbered /\ stack # << >> /\ top.at = "put" /\ IInv
    BY DEF PaperInv, IInv, Put, at
  <2> QED
    BY <2>1, TypedFacts DEF top
<1>2. top.id \in 1..texts /\ texts <= main + count
  BY <1>1 DEF Numbered, PaperInv, TextsKnown
<1>3. top.id \in textNumbers
  <2>1. /\ main \in 0..(Len(MainTexts) + 1) /\ count \in 0..InterruptLimit /\ texts \in Nat
        /\ Len(MainTexts) \in Nat /\ InterruptLimit \in Nat /\ StackDepth \in Nat
    BY <1>1, TextsAssumption, ConsoleAssumption DEF Typed
  <2>2. main + count <= Len(MainTexts) + 1 + InterruptLimit + StackDepth
    BY <2>1
  <2> QED
    BY <1>2, <2>1, <2>2 DEF textNumbers
<1>4. top.n \in 1..Len(top.text)
  <2>1. top.n \in Nat \ {0} /\ top.n <= Len(top.text)
    BY <1>1, TopFacts DEF Typed
  <2>2. Len(top.text) \in Nat
    BY <1>1, TopFacts
  <2> QED
    BY <2>1, <2>2
<1>5. top.text \in Printed
  BY <1>1 DEF PaperInv, TextsKnown
<1>6. top.n \in places
  <2>1. places = UNION {1..Len(t) : t \in Printed}
    BY DEF places, Printed
  <2> QED
    BY <1>4, <1>5, <2>1
<1> QED
  BY <1>3, <1>6

(* ... a row that the cursor begins is a new line ...                       *)
LEMMA StoreYBegins ==
  ASSUME PaperInv, intact, intact', StoreY
  PROVE  page' = Append(page, << >>) /\ size' = size
<1>1. /\ Typed /\ UpToDate /\ stack # << >> /\ top.at = "storeY"
      /\ UNCHANGED <<size, screen>> /\ cursor' = [cursor EXCEPT !.y = top.y]
      /\ cursor \in [x : Nat, y : Nat]
  BY DEF PaperInv, IInv, StoreY, at, unchangedOthers, Typed
<1>2. top.y = cursor.y + 1
  BY <1>1 DEF UpToDate, within
<1>3. PICK y : y = cursor.y
  OBVIOUS
<1>4. y \in Nat /\ cursor'.y = y + 1 /\ size.rows \in Nat /\ size.columns \in Nat
  BY <1>1, <1>2, <1>3, TypedFacts
<1>5. y + 1 < size.rows
  BY <1>1, <1>4 DEF intact
<1>6. lastRow' = y + 1
  BY <1>1, <1>4, <1>5 DEF lastRow
<1>7. /\ page \in [1..(y + 1) -> Line] /\ \A r \in 1..(y + 1) : page[r] = row(r - 1)
  BY <1>3, PageIs
<1>8. row(y + 1) = << >>
  <2>1. y + 1 \in 0..(size.rows - 1) /\ y + 1 > y /\ 0 \in 0..size.columns /\ 0..(0 - 1) = {}
    BY <1>4, <1>5
  <2>2. filled(y + 1) = 0..(0 - 1)
    BY <1>3, <2>1 DEF PaperInv, Packed
  <2>3. row(y + 1) \in Line /\ Len(row(y + 1)) = 0
    BY <1>1, <2>1, <2>2, RowIs
  <2> QED
    BY <2>3, EmptySeq DEF Line
<1>9. PICK t : t = page'
  OBVIOUS
<1>10. t = [r \in 1..((y + 1) + 1) |-> row(r - 1)]
  <2>1. \A r : row(r)' = row(r)
    BY <1>1 DEF row
  <2> QED
    BY <1>6, <1>9, <2>1 DEF page
<1>11. \A r \in 1..(y + 1) : t[r] = page[r]
  <2>1. \A r \in 1..(y + 1) : r \in 1..((y + 1) + 1)
    BY <1>4
  <2> QED
    BY <1>7, <1>10, <2>1
<1>12. t[(y + 1) + 1] = << >>
  <2>1. (y + 1) + 1 \in 1..((y + 1) + 1) /\ ((y + 1) + 1) - 1 = y + 1
    BY <1>4
  <2> QED
    BY <1>8, <1>10, <2>1
<1>13. t \in [1..((y + 1) + 1) -> Line]
  <2>1. << >> \in Line
    BY EmptySeq DEF Line
  <2>2. \A r \in 1..((y + 1) + 1) : r \in 1..(y + 1) \/ r = (y + 1) + 1
    BY <1>4
  <2>3. \A r \in 1..((y + 1) + 1) : t[r] \in Line
    BY <1>7, <1>11, <1>12, <2>1, <2>2
  <2> QED
    BY <1>10, <2>3
<1>14. y + 1 \in Nat
  BY <1>4
<1> QED
  BY <1>1, <1>7, <1>9, <1>11, <1>12, <1>13, <1>14, AppendIs

(* ... and no other step is seen on the page, not the one that tears a      *)
(* character or leaves the last row either.                                 *)
LEMMA OthersKeep ==
  ASSUME PaperInv, PaperInv', [Next]_vars, intact, ~Put, ~(StoreY /\ intact')
  PROVE  page' = page /\ size' = size
<1>1. /\ Typed /\ IInv /\ cursor \in [x : Nat, y : Nat] /\ cursor.y < size.rows /\ ~torn
  BY DEF PaperInv, IInv, Typed, intact
<1>2. size' = size
  BY <1>1, NoWayBack
<1>3. screen' = screen
  BY DEF Next, KernelMain, SizeLine, RAMLines, debugPrint, InitializeInterrupts, SoftwareInterrupt, Printing, ReadX, ReadY,
     PageFault, LoadX, StoreX, Test, Home, LoadY, StoreY, EndOfText, Interrupt, vars
<1>4. cursor.y \in Nat /\ size.rows \in Nat
  BY <1>1, TypedFacts
<1>5. CASE StoreY
  <2>1. /\ torn' = torn /\ cursor' = [cursor EXCEPT !.y = top.y] /\ within({"storeY"})
    BY <1>5 DEF StoreY, at, unchangedOthers, within
  <2>2. top.y = cursor.y + 1
    BY <2>1 DEF PaperInv, UpToDate
  <2>3. cursor'.y = cursor.y + 1
    BY <1>1, <2>1, <2>2
  <2>4. ~(cursor'.y < size.rows)
    BY <1>1, <1>2, <1>5, <2>1 DEF intact
  <2>5. lastRow = cursor.y /\ lastRow' = cursor.y
    BY <1>1, <1>2, <1>4, <2>3, <2>4 DEF lastRow
  <2> QED
    BY <1>2, <1>3, <2>5, PageKept
<1>6. CASE ~StoreY
  <2>1. cursor'.y = cursor.y
    BY <1>1, <1>6 DEF Next, KernelMain, SizeLine, RAMLines, debugPrint, InitializeInterrupts, SoftwareInterrupt, Printing,
       ReadX, ReadY, PageFault, LoadX, StoreX, Test, Home, LoadY, EndOfText, Interrupt, vars
  <2>2. lastRow' = lastRow
    BY <1>2, <2>1 DEF lastRow
  <2> QED
    BY <1>2, <1>3, <2>2, PageKept
<1> QED
  BY <1>5, <1>6

(* As long as no interrupt comes within a character and the page is not     *)
(* full, the console is a typewriter: what Typewriter specifies, with the   *)
(* rows of the screen for its lines.                                        *)
THEOREM Implementation == Spec => ImplementsTypewriter
<1>1. Init => Paper!Init
  <2> SUFFICES ASSUME Init PROVE Paper!Init
    OBVIOUS
  <2>1. PaperInv /\ Typed
    BY InitPaperInv DEF PaperInv, IInv
  <2>2. cursor.y = 0 /\ ~torn /\ size.rows \in Nat \ {0} /\ size.columns \in Nat
    <3>1. size \in [columns : Nat \ {0}, rows : Nat \ {0}] /\ cursor.y = 0 /\ ~torn
      BY ConsoleAssumption DEF Init
    <3> QED
      BY <3>1
  <2>3. intact
    BY <2>2 DEF intact
  <2>4. page = << << >> >>
    <3>1. page \in [1..1 -> Line] /\ page[1] = row(0) /\ Len(page) = 1 /\ page \in Seq(Line)
      BY <2>1, <2>2, <2>3, PageIs
    <3>2. row(0) = << >>
      <4>1. filled(0) = 0..(0 - 1) /\ 0 \in 0..(size.rows - 1) /\ 0 \in 0..size.columns
        <5>1. \A c \in 0..(size.columns - 1) : screen[<<0, c>>] = {}
          BY <2>2 DEF Init
        <5>2. filled(0) = {}
          BY <5>1 DEF filled
        <5> QED
          BY <2>2, <5>2
      <4>2. row(0) \in Line /\ Len(row(0)) = 0
        BY <2>1, <4>1, RowIs
      <4> QED
        BY <4>2, EmptySeq DEF Line
    <3> QED
      BY <3>1, <3>2
  <2> QED
    BY <2>2, <2>3, <2>4 DEF Paper!Init, page, intact
<1>2. PaperInv /\ PaperInv' /\ [Next]_vars => [Paper!Next]_(Paper!vars)
  <2> SUFFICES ASSUME PaperInv, PaperInv', [Next]_vars PROVE [Paper!Next]_(Paper!vars)
    OBVIOUS
  <2>1. CASE ~intact
    <3>1. ~intact'
      BY <2>1, IntactOnce DEF PaperInv
    <3>2. Paper!Lapsed
      BY <2>1, <3>1 DEF Paper!Lapsed, intact
    <3> QED
      BY <3>2 DEF Paper!Next
  <2>2. CASE intact /\ Put
    <3>1. UNCHANGED <<size, cursor, torn, parted>>
      BY <2>2, Inked
    <3>2. intact' = intact
      BY <3>1 DEF intact
    <3>3. PICK c \in textNumbers \X places : c = <<top.id, top.n>>
      BY <2>2, PutChars
    <3>4. /\ page' = [page EXCEPT ![Len(page)] = Append(page[Len(page)], {c})]
          /\ Len(page[Len(page)]) < size.columns
      BY <2>2, <3>3, PutTypes
    <3>5. Paper!Type(c)
      BY <2>2, <3>1, <3>2, <3>4 DEF Paper!Type, page, intact
    <3> QED
      BY <3>5 DEF Paper!Next
  <2>3. CASE intact /\ intact' /\ StoreY
    <3>1. page' = Append(page, << >>) /\ size' = size
      BY <2>3, StoreYBegins
    <3>2. Paper!NewLine
      BY <2>3, <3>1 DEF Paper!NewLine, page, intact
    <3> QED
      BY <3>2 DEF Paper!Next
  <2>4. CASE intact /\ ~Put /\ ~(StoreY /\ intact')
    <3>1. page' = page /\ size' = size
      BY <2>4, OthersKeep
    <3>2. CASE intact'
      BY <2>4, <3>1, <3>2 DEF Paper!vars, page, intact
    <3>3. CASE ~intact'
      <4>1. Paper!Lapse
        BY <2>4, <3>1, <3>3 DEF Paper!Lapse, page, intact
      <4> QED
        BY <4>1 DEF Paper!Next
    <3> QED
      BY <3>2, <3>3
  <2> QED
    BY <2>1, <2>2, <2>3, <2>4
<1> QED
  BY <1>1, <1>2, PaperInvariant, PTL DEF Spec, ImplementsTypewriter, Paper!Spec

=============================================================================
