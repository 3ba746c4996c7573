---------------------------- MODULE Descriptors ----------------------------
(***************************************************************************)
(* The words the kernel shares with the processor, bit by bit: an entry of *)
(* a page table (kernel/src/pageTable.c), a gate of the interrupt          *)
(* descriptor table (kernel/src/interrupts.c) and the descriptor of the    *)
(* task state segment (kernel/src/gdt.c).  A word is the set of its bits   *)
(* that are 1, and so is a number.                                         *)
(***************************************************************************)
EXTENDS Integers

CONSTANTS
  Flags,     \* the flags of a page table entry that are set and cleared
  Words,     \* words an entry may hold before, and virtual addresses
  Numbers,   \* addresses and handlers passed to the setters, of 64 bits
  GateTypes, \* the type bytes of gates
  TssSize    \* sizeof(TSS) - 1

PTFlag ==
  [Present |-> 0, ReadWrite |-> 1, UserSuper |-> 2, WriteThrough |-> 3, CacheDisabled |-> 4,
   Accessed |-> 5, LargerPages |-> 7, Custom0 |-> 9, Custom1 |-> 10, Custom2 |-> 11, NX |-> 63]

ASSUME DescriptorsAssumption ==
  /\ Flags \subseteq DOMAIN PTFlag
  /\ Words \cup Numbers \subseteq SUBSET (0..63)
  /\ GateTypes \subseteq SUBSET (0..7)
  /\ TssSize \subseteq 0..15

VARIABLES
  kind,   \* what the word is: "entry", "gate", "tss" or "address"
  word,   \* an entry of a page table, an IDT, gdt[6] with gdt[7], or a virtual address
  answer  \* what the last getter returned

wordVars == <<kind, word, answer>>

shiftLeft(w, n) == {b + n : b \in w}
shiftRight(w, n) == {b - n : b \in {c \in w : c >= n}}

(* A member of a packed struct, as a place in the word. *)
assign(w, low, width, value) ==
  (w \ low..(low + width - 1)) \cup shiftLeft(value \cap 0..(width - 1), low)
member(w, low, width) == shiftRight(w \cap low..(low + width - 1), low)

-----------------------------------------------------------------------------
(* pageTable.c *)
setPageTableFlag(w, flag, enabled) ==
  (w \ {PTFlag[flag]}) \cup (IF enabled THEN {PTFlag[flag]} ELSE {})

getPageTableFlag(w, flag) == PTFlag[flag] \in w

PAGE_MASK == 12..51

getPageTableAddress(w) == shiftRight(w \cap PAGE_MASK, 12)

\* Variant: the address is not cut to 40 bits.
setPageTableAddressUncut(w, number) ==
  (w \cap (0..11 \cup 52..63)) \cup (shiftLeft(number, 12) \cap 0..63)

setPageTableAddress(w, number) ==
  (w \cap (0..11 \cup 52..63)) \cup shiftLeft(number \cap 0..39, 12)

(* Nine bits after nine bits are shifted out. *)
getPageTableIndex(number) ==
  LET shifted[level \in 0..3] ==
        IF level = 0 THEN shiftRight(number, 12) ELSE shiftRight(shifted[level - 1], 9)
      index(level) == shifted[level] \cap 0..8
  IN  [P_i |-> index(0), PT_i |-> index(1), PD_i |-> index(2), PDP_i |-> index(3)]

(* interrupts.c *)
setIDTOffset(w, offset) ==
  LET low    == assign(w, 0, 16, offset \cap 0..15)
      middle == assign(low, 48, 16, shiftRight(offset \cap 16..31, 16))
  IN  assign(middle, 64, 32, shiftRight(offset \cap 32..63, 32))

getIDTOffset(w) ==
  member(w, 0, 16) \cup shiftLeft(member(w, 48, 16), 16)
    \cup shiftLeft(member(w, 64, 32), 32)

setIRQ(w, handler, type, selector) ==
  assign(assign(setIDTOffset(w, handler), 40, 8, type), 16, 16, selector)

(* gdt.c.  Type 9 is an available task state segment. *)
initializeGDT(w, base) ==
  LET limit == assign(assign(w, 0, 16, TssSize), 48, 4, {})
      bits  == assign(assign(assign(limit, 40, 5, {0, 3}), 45, 2, {}), 47, 1, {0})
      low   == assign(assign(bits, 55, 1, {}), 16, 24, base)
  IN  assign(low, 56, 40, shiftRight(base, 24))

-----------------------------------------------------------------------------
WordStart(ofKind, content) ==
  /\ kind = ofKind
  /\ word = content
  /\ answer = << >>

WordInit ==
  \/ \E ofKind \in {"entry", "address"}, content \in Words : WordStart(ofKind, content)
  \/ \E ofKind \in {"gate", "tss"} : WordStart(ofKind, {})

KernelCode == {3} \* the selector 0x08

storeWord(ofKind, new) ==
  /\ kind = ofKind
  /\ word' = new
  /\ UNCHANGED <<kind, answer>>

SetFlag ==
  \E flag \in Flags, enabled \in BOOLEAN : storeWord("entry", setPageTableFlag(word, flag, enabled))

SetAddress == \E number \in Numbers : storeWord("entry", setPageTableAddress(word, number))

SetIRQ ==
  \E handler \in Numbers, type \in GateTypes :
    storeWord("gate", setIRQ(word, handler, type, KernelCode))

InitializeGDT == \E base \in Numbers : storeWord("tss", initializeGDT(word, base))

get(ofKind, value) ==
  /\ kind = ofKind
  /\ answer' = value
  /\ UNCHANGED <<kind, word>>

GetFlag ==
  \E flag \in Flags :
    get("entry", [name \in {flag} |-> IF getPageTableFlag(word, name) THEN {0} ELSE {}])

GetAddress == get("entry", [address |-> getPageTableAddress(word)])
GetOffset  == get("gate", [handler |-> getIDTOffset(word)])
GetIndex   == get("address", getPageTableIndex(word))

WordNext ==
  \/ SetFlag \/ SetAddress \/ SetIRQ \/ InitializeGDT
  \/ GetFlag \/ GetAddress \/ GetOffset \/ GetIndex

WordSpec == WordInit /\ [][WordNext]_wordVars

-----------------------------------------------------------------------------
(* Where the processor looks for the fields.  Those that are in pieces, the *)
(* handler of a gate and the base of a segment, are put together from them. *)
processorFields ==
  CASE kind = "entry" ->
         [name \in DOMAIN PTFlag \cup {"address", "rest"} |->
            CASE name = "address" -> member(word, 12, 40)
              [] name = "rest" -> word \ (12..51 \cup {PTFlag[flag] : flag \in DOMAIN PTFlag})
              [] OTHER -> member(word, PTFlag[name], 1)]
    [] kind = "address" ->
         [P_i |-> member(word, 12, 9), PT_i |-> member(word, 21, 9),
          PD_i |-> member(word, 30, 9), PDP_i |-> member(word, 39, 9)]
    [] kind = "gate" ->
         [handler |-> {b \in 0..63 : (IF b < 16 THEN b ELSE b + 32) \in word},
          type |-> member(word, 40, 8), selector |-> member(word, 16, 16),
          stackTable |-> member(word, 32, 8)]
    [] kind = "tss" ->
         [base |-> {b \in 0..63 : (IF b < 24 THEN b + 16 ELSE b + 32) \in word},
          limit |-> member(word, 0, 16) \cup shiftLeft(member(word, 48, 4), 16),
          type |-> member(word, 40, 8), granularity |-> member(word, 55, 1)]

assignments ==
  CASE kind = "entry" ->
         {[name \in {flag} |-> value] : flag \in Flags, value \in {{}, {0}}}
           \cup {[address |-> number \cap 0..39] : number \in Numbers}
    [] kind = "address" -> {}
    [] kind = "gate" ->
         {[handler |-> handler, type |-> type, selector |-> KernelCode] :
            handler \in Numbers, type \in GateTypes}
    [] kind = "tss" ->
         {[base |-> base, limit |-> TssSize, type |-> {0, 3, 7}, granularity |-> {}] :
            base \in Numbers}

(* Setters change the field they are named for and no other - no flag is    *)
(* lost when an address is stored, and none set by an address of more than  *)
(* 40 bits - and the processor, and the getters, find what was stored.      *)
AbstractRecord == INSTANCE FieldRecord
  WITH fields <- processorFields,
       offers <- assignments,
       Questions <- {{flag} : flag \in Flags}
                      \cup {{"address"}, {"handler"}, {"P_i", "PT_i", "PD_i", "PDP_i"}}

ImplementsFieldRecord == AbstractRecord!Spec

=============================================================================
