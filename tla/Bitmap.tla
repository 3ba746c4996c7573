------------------------------- MODULE Bitmap -------------------------------
(***************************************************************************)
(* The bitmap of the page frame allocator as it lies in memory             *)
(* (kernel/src/bitmap.c, after initializeBitmap of kernel/src/pageFrame.c):*)
(* bytes, and of each byte the bits that are 1, 7 the most significant.    *)
(***************************************************************************)
EXTENDS Integers

CONSTANTS
  Base,       \* pageBitmap.bits, the address of the first byte
  Size,       \* pageBitmap.size, in bytes
  MemorySize, \* bytes of memory
  Contents,   \* what memory may hold before
  Indexes     \* the indexes callers pass

Byte == SUBSET (0..7)
Addresses == 0..(MemorySize - 1)

ASSUME BitmapAssumption ==
  /\ {Base, Size, MemorySize} \subseteq Nat
  /\ Base + Size < MemorySize
  /\ Contents \subseteq [Addresses -> Byte]
  /\ Indexes \subseteq Nat

VARIABLES
  memory, \* each byte
  result  \* what the last call has returned

bitmapVars == <<memory, result>>

initializeBitmap(content) ==
  [b \in Addresses |-> IF b \in Base..(Base + Size - 1) THEN {} ELSE content[b]]

BitmapStart(content) ==
  /\ memory = initializeBitmap(content)
  /\ result = FALSE

BitmapInit == \E content \in Contents : BitmapStart(content)

byteIndex(index) == Base + index \div 8

\* Variant: the shift goes by the number of the byte.
bitIndexerOfByte(index) == 7 - ((index \div 8) % 8)

(* 0b10000000 >> index % 8 *)
bitIndexer(index) == 7 - (index % 8)

(* One index too many passes: Size * 8 is the first of the byte behind. *)
refused(index) == index > Size * 8

getBitmap(index) ==
  /\ result' = (~refused(index) /\ bitIndexer(index) \in memory[byteIndex(index)])
  /\ UNCHANGED memory

(* The bit is cleared first, and then set if value says so. *)
setBitmap(index, value) ==
  /\ memory' = IF refused(index) THEN memory
               ELSE [memory EXCEPT ![byteIndex(index)] =
                       (@ \ {bitIndexer(index)}) \cup (IF value THEN {bitIndexer(index)} ELSE {})]
  /\ result' = ~refused(index)

BitmapNext ==
  \E index \in Indexes : getBitmap(index) \/ \E value \in BOOLEAN : setBitmap(index, value)

BitmapSpec == BitmapInit /\ [][BitmapNext]_bitmapVars

-----------------------------------------------------------------------------
(* A call changes the bit it names, no other bit and no other byte, and a   *)
(* question is answered with what was stored last.  So the bytes implement  *)
(* the set of bits that the model of the allocator works with, and no two   *)
(* frames share a bit - the first bit of the byte behind included, which    *)
(* belongs to somebody else.                                                *)
Held == 0..(Size * 8)

bit(index) == <<Base + (index \div 8), 7 - (index % 8)>>

bits == {bit(index) : index \in Held}

members == {index \in Held : bit(index)[2] \in memory[bit(index)[1]]}

(* Each bit of memory that is 1 and none of these, by its byte and its place. *)
others ==
  {place \in (Addresses \X (0..7)) \ bits : place[2] \in memory[place[1]]}

AbstractSet == INSTANCE BitSet
  WITH Numbers <- Indexes, Capacity <- Held, answer <- result

ImplementsBitSet == AbstractSet!Spec

=============================================================================
