-------------------------- MODULE PageFrameProofs --------------------------
(***************************************************************************)
(* Proofs about the page-frame allocator, for every memory map and every   *)
(* caller: PageFrame keeps its type, the hint of requestPage is sound, the *)
(* counters follow the bitmap, and the allocator implements                *)
(* FrameAllocator.  And about the first of its callers, kernel_main, on    *)
(* the memory the boot loader leaves it (Handoff): it is a caller that     *)
(* PageFrame allows, and nothing in use is touched.                        *)
(***************************************************************************)
EXTENDS Handoff, MemoryProofs

-----------------------------------------------------------------------------
(* The inductive invariant: the allocator is sane, it is untouched until it *)
(* is initialised, and from then on its counters match its bitmap.          *)
IInv ==
  /\ memoryMapInfo \in MemoryMaps \cup {<< >>}
  /\ stray \in 0..1
  /\ page \in {NoCall} \cup Nat
  /\ Sane(pf)
  /\ ~Ready => pf = ZeroedAllocator
  /\ Ready => /\ memoryMapInfo # << >>
              /\ Accounted(pf, getMemorySize(memoryMapInfo), stray)

(* The invariant holds of the zero-initialised globals. *)
LEMMA InitIInv == Init => IInv
<1> SUFFICES ASSUME Init
             PROVE  IInv
  OBVIOUS
<1>1. pf = ZeroedAllocator
  BY DEF Init
<1>2. Sane(pf)
  BY <1>1, WordAssumption DEF Sane, Allocators, ZeroedAllocator, NULL
<1>3. ~Ready
  BY <1>1 DEF Ready, ZeroedAllocator
<1> QED
  BY <1>2, <1>3 DEF Init, IInv, NoCall

(* Each operation preserves it. *)
LEMMA NextIInv == IInv /\ [Next]_vars => IInv'
<1> SUFFICES ASSUME IInv, [Next]_vars
             PROVE  IInv'
  OBVIOUS
<1>1. \A c \in Calls : PageRun(c[1], c[2]) \in SUBSET Nat
  <2>1. ASSUME NEW c \in Calls
        PROVE  PageRun(c[1], c[2]) \in SUBSET (0..(Word - 1))
    <3>1. c[1] \in Nat /\ c[2] \in Int
      BY CallsAssumption, WordAssumption
    <3> QED
      BY <3>1, PageRunType
  <2> QED
    BY <2>1, WordAssumption
<1>2. Ready => memoryMapInfo \in MemoryMaps
  BY DEF IInv
<1>3. Ready => getMemorySize(memoryMapInfo) \in Nat
  BY <1>2, MemoryMapAssumption, WordAssumption DEF ValidMap
<1>4. ASSUME NEW q, Call(q), Kept(pf, q)
      PROVE  IInv'
  BY <1>3, <1>4 DEF IInv, Call, Ready, NoCall, Kept
<1>k. Sane(pf)
  BY DEF IInv
<1>5. CASE \E info \in MemoryMaps : InitializeMemory(info)
  <2>1. PICK info \in MemoryMaps : InitializeMemory(info)
    BY <1>5
  <2>2. ~Ready
    BY <2>1 DEF InitializeMemory, IInv
  <2> QED
    BY <2>1, <2>2 DEF IInv, InitializeMemory, Ready
<1>6. CASE \E g \in 0..1 : InitializePageFrame(g)
  <2>1. PICK g \in 0..1 : InitializePageFrame(g)
    BY <1>6
  <2>2. memoryMapInfo \in MemoryMaps /\ pf = ZeroedAllocator
    BY <2>1 DEF InitializePageFrame, IInv
  <2>3. Sane(pf') /\ pf'.size > 0 /\ Accounted(pf', getMemorySize(memoryMapInfo), g)
    BY <2>1, <2>2, MemoryMapAssumption, InitializeFacts DEF InitializePageFrame
  <2> QED
    BY <2>1, <2>2, <2>3 DEF InitializePageFrame, IInv, Ready, NoCall
<1>7. CASE \E c \in Calls : ReservePages(c[1], c[2])
  <2>1. PICK c \in Calls : Call(reservePages(pf, PageRun(c[1], c[2])))
    BY <1>7 DEF ReservePages
  <2>2. Kept(pf, reservePages(pf, PageRun(c[1], c[2])))
    BY <1>1, <1>k, PagesKeep
  <2> QED
    BY <1>4, <2>1, <2>2
<1>8. CASE \E c \in Calls : UnreservePages(c[1], c[2])
  <2>1. PICK c \in Calls : Call(unreservePages(pf, PageRun(c[1], c[2])))
    BY <1>8 DEF UnreservePages
  <2>2. Kept(pf, unreservePages(pf, PageRun(c[1], c[2])))
    BY <1>1, <1>k, PagesKeep
  <2> QED
    BY <1>4, <2>1, <2>2
<1>9. CASE \E c \in Calls : LockPages(c[1], c[2])
  <2>1. PICK c \in Calls : Call(lockPages(pf, PageRun(c[1], c[2])))
    BY <1>9 DEF LockPages
  <2>2. Kept(pf, lockPages(pf, PageRun(c[1], c[2])))
    BY <1>1, <1>k, PagesKeep
  <2> QED
    BY <1>4, <2>1, <2>2
<1>10. CASE \E c \in Calls : FreePages(c[1], c[2])
  <2>1. PICK c \in Calls : Call(freePages(pf, PageRun(c[1], c[2])))
    BY <1>10 DEF FreePages
  <2>2. Kept(pf, freePages(pf, PageRun(c[1], c[2])))
    BY <1>1, <1>k, PagesKeep
  <2> QED
    BY <1>4, <2>1, <2>2
<1>11. CASE RequestPage
  <2>1. Sane(pf)
    BY DEF IInv
  <2>2. requestedPage(pf) \in Nat
    <3>1. \A i \in 0..(pf.size * 8 - 1) : i \in Nat
      BY <2>1 DEF Sane, Allocators
    <3> QED
      BY <2>1, <3>1, RequestFacts DEF NULL
  <2> QED
    BY <1>3, <1>11, <2>1, <2>2, RequestFacts DEF RequestPage, IInv, Ready
<1>12. CASE UNCHANGED vars
  BY <1>12 DEF vars, IInv, Ready
<1> QED
  BY <1>5, <1>6, <1>7, <1>8, <1>9, <1>10, <1>11, <1>12 DEF Next
-----------------------------------------------------------------------------
(* The theorems.                                                            *)

(* The inductive invariant holds in every reachable state. *)
THEOREM Invariant == Spec => []IInv
BY InitIInv, NextIInv, PTL DEF Spec

(* The allocator's globals keep their types, the bitmap has no bit beyond   *)
(* the one index 8 * size the bounds check of bitmap.c lets through, and    *)
(* the hint never leaves the bitmap.                                        *)
THEOREM TypeCorrect == Spec => []TypeOK
<1>1. IInv => TypeOK
  BY DEF IInv, TypeOK, Sane, Allocators
<1> QED
  BY <1>1, Invariant, PTL

(* pageBitmapIndex never passes a clear bit, whatever the callers do.       *)
THEOREM HintIsSound == Spec => []HintSound
<1>1. IInv => HintSound
  BY DEF IInv, HintSound, Sane
<1> QED
  BY <1>1, Invariant, PTL

(* FREE_MEMORY, RESERVED_MEMORY and USED_MEMORY follow the bitmap exactly.  *)
THEOREM CountersAreExact == Spec => []CountersMatchBitmap
<1>1. IInv => CountersMatchBitmap
  BY DEF IInv, CountersMatchBitmap, Accounted, Balanced
<1> QED
  BY <1>1, Invariant, PTL

(* Initialisation, and every call, is a step of the abstract allocator.     *)
THEOREM Implementation == Spec => ImplementsFrameAllocator
<1>1. Init => Allocator!Init
  <2> SUFFICES ASSUME Init
               PROVE  clearFrames = {} /\ page = NoCall
    BY DEF Allocator!Init
  <2> QED
    BY DEF Init, clearFrames, ZeroedAllocator
<1>2. ASSUME NEW q, Sane(q)
      PROVE  {i \in 0..(q.size * 8 - 1) : i \notin q.bits} \subseteq 0..(Word - 1)
  BY <1>2, WordAssumption DEF Sane, Allocators
<1>3. IInv /\ IInv' /\ [Next]_vars => [Allocator!Next]_(Allocator!vars)
  <2> SUFFICES ASSUME IInv, IInv', [Next]_vars
               PROVE  Allocator!Next \/ UNCHANGED <<clearFrames, page>>
    BY DEF Allocator!vars
  <2>1. Sane(pf) /\ Sane(pf') /\ clearFrames' \subseteq 0..(Word - 1)
    BY <1>2 DEF IInv, clearFrames
  <2>2. \A c \in Calls : PageRun(c[1], c[2]) \in SUBSET Nat
    <3>1. ASSUME NEW c \in Calls
          PROVE  PageRun(c[1], c[2]) \in SUBSET (0..(Word - 1))
      <4>1. c[1] \in Nat /\ c[2] \in Int
        BY CallsAssumption, WordAssumption
      <4> QED
        BY <4>1, PageRunType
    <3> QED
      BY <3>1, WordAssumption
  <2>3. CASE \E info \in MemoryMaps : InitializeMemory(info)
    BY <2>3 DEF InitializeMemory, clearFrames
  <2>4. CASE \E g \in 0..1 : InitializePageFrame(g)
    <3>1. clearFrames = {} /\ page' = NoCall
      BY <2>4 DEF InitializePageFrame, IInv, clearFrames, ZeroedAllocator
    <3>2. Allocator!GiveBack
      BY <2>1, <3>1 DEF Allocator!GiveBack
    <3> QED
      BY <3>2 DEF Allocator!Next
  <2>5. ASSUME NEW q, NEW F \in SUBSET Nat, Call(q),
               q = reservePages(pf, F) \/ q = lockPages(pf, F)
        PROVE  Allocator!Next
    <3>1. q.size = pf.size /\ pf.bits \subseteq q.bits
      BY <2>1, <2>5, TakeFacts
    <3>2. clearFrames' \subseteq clearFrames /\ page' = NoCall
      BY <2>5, <3>1 DEF Call, clearFrames
    <3>3. Allocator!Withdraw
      BY <3>2 DEF Allocator!Withdraw
    <3> QED
      BY <3>3 DEF Allocator!Next
  <2>6. ASSUME NEW q, NEW F \in SUBSET Nat, Call(q),
               q = unreservePages(pf, F) \/ q = freePages(pf, F)
        PROVE  Allocator!Next
    <3>1. q.size = pf.size /\ q.bits \subseteq pf.bits
      BY <2>1, <2>6, GiveFacts
    <3>2. clearFrames \subseteq clearFrames' /\ page' = NoCall
      BY <2>6, <3>1 DEF Call, clearFrames
    <3>3. Allocator!GiveBack
      BY <2>1, <3>2 DEF Allocator!GiveBack
    <3> QED
      BY <3>3 DEF Allocator!Next
  <2>7. CASE \E c \in Calls : ReservePages(c[1], c[2])
    BY <2>2, <2>5, <2>7 DEF ReservePages
  <2>8. CASE \E c \in Calls : UnreservePages(c[1], c[2])
    BY <2>2, <2>6, <2>8 DEF UnreservePages
  <2>9. CASE \E c \in Calls : LockPages(c[1], c[2])
    BY <2>2, <2>5, <2>9 DEF LockPages
  <2>10. CASE \E c \in Calls : FreePages(c[1], c[2])
    BY <2>2, <2>6, <2>10 DEF FreePages
  <2>11. CASE RequestPage
    <3>1. /\ pf'.size = pf.size
          /\ \/ /\ page' = NULL
                /\ 0..(pf.size * 8 - 1) \subseteq pf.bits
                /\ pf'.bits = pf.bits
             \/ /\ page' \in (0..(pf.size * 8 - 1)) \ pf.bits
                /\ pf'.bits = pf.bits \cup {page'}
      BY <2>1, <2>11, RequestFacts DEF RequestPage
    <3>2. CASE /\ page' = NULL
               /\ 0..(pf.size * 8 - 1) \subseteq pf.bits
               /\ pf'.bits = pf.bits
      <4>1. clearFrames = {} /\ clearFrames' = clearFrames
        BY <3>1, <3>2 DEF clearFrames
      <4> QED
        BY <3>2, <4>1 DEF Allocator!Next, Allocator!Refuse
    <3>3. CASE /\ page' \in (0..(pf.size * 8 - 1)) \ pf.bits
               /\ pf'.bits = pf.bits \cup {page'}
      <4>1. page' \in clearFrames /\ clearFrames' = clearFrames \ {page'}
        BY <3>1, <3>3 DEF clearFrames
      <4>2. page' \in 0..(Word - 1)
        BY <1>2, <2>1, <4>1 DEF clearFrames
      <4>3. Allocator!Grant(page')
        BY <4>1 DEF Allocator!Grant
      <4> QED
        BY <4>2, <4>3 DEF Allocator!Next
    <3> QED
      BY <3>1, <3>2, <3>3
  <2>12. CASE UNCHANGED vars
    BY <2>12 DEF vars, clearFrames
  <2> QED
    BY <2>3, <2>4, <2>7, <2>8, <2>9, <2>10, <2>11, <2>12 DEF Next
<1> QED
  BY <1>1, <1>3, Invariant, PTL
     DEF Spec, ImplementsFrameAllocator, Allocator!Spec

-----------------------------------------------------------------------------
(* The memory map: describe makes a descriptor of each run of frames of one *)
(* type.                                                                    *)

(* Memory with its type, up to a last frame. *)
MemoryUpTo(last) == last \in 0..(Word - 10) /\ memory \in [0..last -> Types]

(* The runs describe makes descriptors of: where they start and end. *)
runStarts ==
  {f \in DOMAIN memory : memory[f] # Absent /\ (f = 0 \/ memory[f - 1] # memory[f])}

runEnd(f) ==
  CHOOSE e \in f..Cardinality(DOMAIN memory) :
    /\ \A g \in f..(e - 1) : memory[g] = memory[f]
    /\ e \in DOMAIN memory => memory[e] # memory[f]

nthRun(n) == CHOOSE f \in runStarts : Cardinality({g \in runStarts : g < f}) = n - 1

(* describe, by these names. *)
LEMMA DescribeRuns ==
  describe = [n \in 1..Cardinality(runStarts) |->
                [type |-> memory[nthRun(n)], start |-> nthRun(n),
                 count |-> runEnd(nthRun(n)) - nthRun(n)]]
BY DEF describe, runStarts, runEnd, nthRun

(* A run ends behind its last frame. *)
LEMMA RunEnds ==
  ASSUME NEW last, MemoryUpTo(last), NEW f \in 0..last
  PROVE  /\ runEnd(f) \in (f + 1)..(last + 1)
         /\ \A g \in f..(runEnd(f) - 1) : memory[g] = memory[f]
         /\ runEnd(f) \in 0..last => memory[runEnd(f)] # memory[f]
<1> DEFINE ends == {e \in (f + 1)..(last + 1) : e = last + 1 \/ memory[e] # memory[f]}
           e0 == Min(ends)
           isEnd(e) == /\ \A g \in f..(e - 1) : memory[g] = memory[f]
                       /\ e \in 0..last => memory[e] # memory[f]
<1>1. last \in Nat /\ DOMAIN memory = 0..last /\ Cardinality(DOMAIN memory) = last + 1
  <2>1. last \in Nat /\ DOMAIN memory = 0..last
    BY DEF MemoryUpTo
  <2> QED
    BY <2>1, FS_Interval
<1>2. e0 \in ends /\ \A e \in ends : e0 <= e
  <2>1. last + 1 \in ends
    BY <1>1
  <2>2. ends \in SUBSET Nat
    BY <1>1
  <2> HIDE DEF ends
  <2> QED
    BY <2>1, <2>2, MinOfNaturals
<1> HIDE DEF e0
<1>3. e0 \in (f + 1)..(last + 1) /\ (e0 = last + 1 \/ memory[e0] # memory[f])
  BY <1>2
<1>4. ASSUME NEW g \in f..(e0 - 1)
      PROVE  memory[g] = memory[f]
  <2>1. CASE g = f
    BY <2>1
  <2>2. CASE g # f
    <3>1. g \in (f + 1)..(last + 1) /\ ~(e0 <= g)
      BY <1>1, <1>3, <2>2
    <3>2. g \notin ends
      BY <1>2, <3>1
    <3> QED
      BY <3>1, <3>2
  <2> QED
    BY <2>1, <2>2
<1>5. e0 \in 0..last => memory[e0] # memory[f]
  BY <1>1, <1>3
<1>6. e0 \in f..(last + 1) /\ isEnd(e0)
  BY <1>1, <1>3, <1>4, <1>5
<1>7. runEnd(f) = CHOOSE e \in f..(last + 1) : isEnd(e)
  BY <1>1 DEF runEnd
<1>8. runEnd(f) \in f..(last + 1) /\ isEnd(runEnd(f))
  <2> HIDE DEF isEnd
  <2> QED
    BY <1>6, <1>7
<1>9. runEnd(f) # f
  BY <1>1, <1>8
<1> QED
  BY <1>1, <1>8, <1>9

(* The runs are disjoint and in order, and cover all memory there is. *)
LEMMA RunsCover ==
  ASSUME NEW last, MemoryUpTo(last)
  PROVE  /\ runStarts \in SUBSET (0..last)
         /\ \A f, h \in runStarts : f < h => runEnd(f) <= h
         /\ \A x \in 0..last : memory[x] # Absent =>
              \E f \in runStarts : f <= x /\ x < runEnd(f) /\ memory[f] = memory[x]
<1>1. last \in Nat /\ DOMAIN memory = 0..last
  BY DEF MemoryUpTo
<1>2. runStarts \in SUBSET (0..last)
  BY <1>1 DEF runStarts
<1>3. ASSUME NEW f \in runStarts, NEW h \in runStarts, f < h
      PROVE  runEnd(f) <= h
  <2>1. f \in 0..last /\ h \in 0..last /\ h # 0
    BY <1>1, <1>2, <1>3
  <2>2. memory[h - 1] # memory[h]
    BY <2>1 DEF runStarts
  <2>3. /\ runEnd(f) \in (f + 1)..(last + 1)
        /\ \A g \in f..(runEnd(f) - 1) : memory[g] = memory[f]
    BY <2>1, RunEnds
  <2>4. SUFFICES ASSUME h < runEnd(f)
                 PROVE  FALSE
    BY <2>1, <2>3
  <2>5. h \in f..(runEnd(f) - 1) /\ h - 1 \in f..(runEnd(f) - 1)
    BY <1>3, <2>1, <2>3, <2>4
  <2> QED
    BY <2>2, <2>3, <2>5
<1>4. ASSUME NEW x \in 0..last, memory[x] # Absent
      PROVE  \E f \in runStarts : f <= x /\ x < runEnd(f) /\ memory[f] = memory[x]
  <2> DEFINE same == {g \in 0..x : \A h \in g..x : memory[h] = memory[x]}
             f == Min(same)
  <2>1. f \in same /\ \A g \in same : f <= g
    <3>1. x \in same /\ same \in SUBSET Nat
      BY <1>1
    <3> HIDE DEF same
    <3> QED
      BY <3>1, MinOfNaturals
  <2> HIDE DEF f
  <2>2. f \in 0..x /\ \A h \in f..x : memory[h] = memory[x]
    BY <2>1
  <2>3. memory[f] = memory[x]
    BY <2>2
  <2>4. f = 0 \/ memory[f - 1] # memory[f]
    <3>1. SUFFICES ASSUME f # 0, memory[f - 1] = memory[f]
                   PROVE  FALSE
      OBVIOUS
    <3>2. f - 1 \in 0..x /\ ~(f <= f - 1)
      BY <2>2, <3>1
    <3>3. \A h \in (f - 1)..x : h = f - 1 \/ h \in f..x
      BY <2>2
    <3>4. f - 1 \in same
      BY <2>2, <2>3, <3>1, <3>2, <3>3
    <3> QED
      BY <2>1, <3>2, <3>4
  <2>5. f \in 0..last /\ f \in runStarts
    BY <1>1, <1>4, <2>2, <2>3, <2>4 DEF runStarts
  <2>6. x < runEnd(f)
    <3>1. /\ runEnd(f) \in (f + 1)..(last + 1)
          /\ runEnd(f) \in 0..last => memory[runEnd(f)] # memory[f]
      BY <2>5, RunEnds
    <3>2. SUFFICES ASSUME runEnd(f) <= x
                   PROVE  FALSE
      BY <1>1, <3>1
    <3>3. runEnd(f) \in f..x /\ runEnd(f) \in 0..last
      BY <1>1, <2>2, <3>1, <3>2
    <3> QED
      BY <2>2, <2>3, <3>1, <3>3
  <2> QED
    BY <2>2, <2>3, <2>5, <2>6
<1> QED
  BY <1>2, <1>3, <1>4

(* Each descriptor has a run, each run a descriptor, in order. *)
LEMMA RunsNumbered ==
  ASSUME NEW last, MemoryUpTo(last)
  PROVE  LET k == Cardinality(runStarts)
         IN  /\ k \in Nat
             /\ \A n \in 1..k : nthRun(n) \in runStarts
             /\ \A f \in runStarts : \E n \in 1..k : nthRun(n) = f
             /\ \A n, m \in 1..k : n < m => nthRun(n) < nthRun(m)
<1> DEFINE k == Cardinality(runStarts)
<1>1. last \in Nat /\ runStarts \in SUBSET (0..last)
  BY RunsCover DEF MemoryUpTo
<1>2. runStarts \in SUBSET Nat /\ IsFiniteSet(runStarts)
  <2>1. IsFiniteSet(0..last)
    BY <1>1, FS_Interval
  <2>2. IsFiniteSet(runStarts)
    BY <1>1, <2>1, FS_Subset
  <2> QED
    BY <1>1, <2>2
<1>3. /\ k \in Nat
      /\ \A x \in runStarts : rank(runStarts, x) \in 0..(k - 1)
      /\ \A x, y \in runStarts : x < y => rank(runStarts, x) < rank(runStarts, y)
      /\ \A r \in 0..(k - 1) : \E x \in runStarts : rank(runStarts, x) = r
  BY <1>2, Ranks
<1> HIDE DEF k
<1>4. ASSUME NEW n
      PROVE  nthRun(n) = CHOOSE f \in runStarts : rank(runStarts, f) = n - 1
  BY DEF nthRun, rank
<1>5. ASSUME NEW n \in 1..k
      PROVE  nthRun(n) \in runStarts /\ rank(runStarts, nthRun(n)) = n - 1
  <2>1. n - 1 \in 0..(k - 1)
    BY <1>3
  <2>2. \E x \in runStarts : rank(runStarts, x) = n - 1
    BY <1>3, <2>1
  <2> QED
    BY <1>4, <2>2
<1>6. ASSUME NEW f \in runStarts
      PROVE  \E n \in 1..k : nthRun(n) = f
  <2> DEFINE r == rank(runStarts, f)
             h == nthRun(r + 1)
  <2>1. r \in 0..(k - 1)
    BY <1>3
  <2> HIDE DEF r
  <2>2. r + 1 \in 1..k /\ (r + 1) - 1 = r
    BY <1>3, <2>1
  <2>3. h \in runStarts /\ rank(runStarts, h) = r
    BY <1>5, <2>2
  <2> HIDE DEF h
  <2>4. h \in Nat /\ f \in Nat /\ ~(h < f) /\ ~(f < h)
    BY <1>2, <1>3, <2>1, <2>3 DEF r
  <2>5. h = f
    BY <2>4
  <2> QED
    BY <2>2, <2>5 DEF h
<1>7. ASSUME NEW n \in 1..k, NEW m \in 1..k, n < m
      PROVE  nthRun(n) < nthRun(m)
  <2> DEFINE f == nthRun(n)
             h == nthRun(m)
  <2>1. /\ f \in runStarts /\ h \in runStarts
        /\ rank(runStarts, f) = n - 1 /\ rank(runStarts, h) = m - 1
    BY <1>5
  <2> HIDE DEF f, h
  <2>2. f \in Nat /\ h \in Nat
    BY <1>2, <2>1
  <2>3. rank(runStarts, f) < rank(runStarts, h) /\ ~(rank(runStarts, h) < rank(runStarts, f))
    BY <1>7, <2>1
  <2>4. ~(h < f) /\ f # h
    BY <1>3, <2>1, <2>3
  <2>5. f < h
    BY <2>2, <2>4
  <2> QED
    BY <2>5 DEF f, h
<1> QED
  BY <1>3, <1>5, <1>6, <1>7 DEF k

(* A descriptor. *)
LEMMA DescriptorFacts ==
  ASSUME NEW last, MemoryUpTo(last), NEW n \in 1..Cardinality(runStarts)
  PROVE  /\ describe[n].type = memory[nthRun(n)]
         /\ describe[n].start = nthRun(n)
         /\ describe[n].count = runEnd(nthRun(n)) - nthRun(n)
         /\ describe[n].count \in Nat /\ describe[n].count > 0
         /\ nthRun(n) \in 0..last
         /\ runEnd(nthRun(n)) \in 1..(last + 1)
<1> DEFINE f == nthRun(n)
           e == runEnd(f)
<1>1. last \in Nat
  BY DEF MemoryUpTo
<1>2. f \in 0..last
  <2>1. f \in runStarts
    BY RunsNumbered
  <2> HIDE DEF f
  <2> QED
    BY <2>1, RunsCover
<1>3. e \in (f + 1)..(last + 1)
  BY <1>2, RunEnds
<1>4. describe[n] = [type |-> memory[f], start |-> f, count |-> e - f]
  BY DescribeRuns
<1> HIDE DEF f, e
<1>5. e - f \in Nat /\ e - f > 0 /\ e \in 1..(last + 1)
  BY <1>1, <1>2, <1>3
<1>6. /\ describe[n].type = memory[f]
      /\ describe[n].start = f
      /\ describe[n].count = e - f
  BY <1>4
<1> QED
  BY <1>2, <1>5, <1>6 DEF f, e

(* The counts never get past the end of a run, so their sum stays in memory.*)
LEMMA DescribeSize ==
  ASSUME NEW last, MemoryUpTo(last)
  PROVE  getMemorySize(describe) \in 0..(last + 1)
<1> DEFINE k == Cardinality(runStarts)
<1>1. last \in Nat
  BY DEF MemoryUpTo
<1>2. k \in Nat /\ Len(describe) = k
  <2>1. k \in Nat
    BY RunsNumbered
  <2> QED
    BY <2>1, DescribeRuns
<1>3. PICK total \in [0..k -> Nat] :
        /\ total[0] = 0
        /\ \A i \in 1..k : total[i] = total[i - 1] + describe[i].count
        /\ getMemorySize(describe) = total[k]
  <2>1. \A i \in 1..k : describe[i].count \in Nat
    BY DescriptorFacts
  <2> HIDE DEF k
  <2> QED
    BY <1>2, <2>1, RunningTotal
<1> DEFINE past(i) == total[i] > runEnd(nthRun(i))
           Past == {i \in 1..k : past(i)}
           least == Min(Past)
<1>4. Past = {}
  <2>1. SUFFICES ASSUME Past # {}
                 PROVE  FALSE
    OBVIOUS
  <2>2. least \in Past /\ \A i \in Past : least <= i
    <3>1. Past \in SUBSET Nat
      OBVIOUS
    <3> HIDE DEF Past
    <3> QED
      BY <2>1, <3>1, MinOfNaturals
  <2> HIDE DEF least
  <2>3. least \in 1..k /\ past(least)
    BY <2>2
  <2>4. total[least] = total[least - 1] + (runEnd(nthRun(least)) - nthRun(least))
    BY <1>3, <2>3, DescriptorFacts
  <2>5. nthRun(least) \in Nat /\ runEnd(nthRun(least)) \in Nat
    <3>1. nthRun(least) \in 0..last /\ runEnd(nthRun(least)) \in 1..(last + 1)
      BY <2>3, DescriptorFacts
    <3> QED
      BY <1>1, <3>1
  <2>6. CASE least = 1
    BY <1>3, <2>3, <2>4, <2>5, <2>6
  <2>7. CASE least # 1
    <3>1. least - 1 \in 1..k /\ ~(least <= least - 1) /\ least - 1 < least
      BY <1>2, <2>3, <2>7
    <3>2. ~past(least - 1)
      BY <2>2, <3>1
    <3>3. nthRun(least - 1) < nthRun(least)
      BY <2>3, <3>1, RunsNumbered
    <3>4. runEnd(nthRun(least - 1)) <= nthRun(least)
      <4>1. nthRun(least - 1) \in runStarts /\ nthRun(least) \in runStarts
        BY <2>3, <3>1, RunsNumbered
      <4> QED
        BY <3>3, <4>1, RunsCover
    <3>5. runEnd(nthRun(least - 1)) \in Nat
      <4>1. runEnd(nthRun(least - 1)) \in 1..(last + 1)
        BY <3>1, DescriptorFacts
      <4> QED
        BY <1>1, <4>1
    <3>6. total[least - 1] \in Nat /\ total[least] \in Nat
      BY <1>2, <1>3, <2>3, <3>1
    <3>7. total[least - 1] <= nthRun(least)
      BY <2>5, <3>2, <3>4, <3>5, <3>6
    <3> QED
      BY <2>3, <2>4, <2>5, <3>6, <3>7
  <2> QED
    BY <2>6, <2>7
<1>5. CASE k = 0
  BY <1>1, <1>3, <1>5
<1>6. CASE k # 0
  <2>1. k \in 1..k
    BY <1>2, <1>6
  <2>2. ~past(k)
    BY <1>4, <2>1
  <2>3. runEnd(nthRun(k)) \in 1..(last + 1)
    BY <2>1, DescriptorFacts
  <2>4. total[k] \in Nat
    BY <1>2, <1>3
  <2> HIDE DEF k
  <2> QED
    BY <1>1, <1>3, <2>2, <2>3, <2>4
<1> QED
  BY <1>5, <1>6

(* What PageFrame assumes of the map, the firmware's maps have. *)
LEMMA DescribeValid ==
  ASSUME NEW last, MemoryUpTo(last)
  PROVE  ValidMap(describe)
<1> DEFINE k == Cardinality(runStarts)
           R == [type : Nat, start : 0..(Word - 1), count : Nat]
           size == getMemorySize(describe)
<1>1. last \in Nat /\ last <= Word - 10 /\ Word \in Nat
  BY WordAssumption DEF MemoryUpTo
<1>2. k \in Nat
  BY RunsNumbered
<1>3. ASSUME NEW n \in 1..k
      PROVE  [type |-> memory[nthRun(n)], start |-> nthRun(n),
              count |-> runEnd(nthRun(n)) - nthRun(n)] \in R
  <2>1. nthRun(n) \in 0..last /\ runEnd(nthRun(n)) - nthRun(n) \in Nat
    BY <1>3, DescriptorFacts
  <2>2. nthRun(n) \in 0..(Word - 1)
    BY <1>1, <2>1
  <2>3. memory[nthRun(n)] \in Nat
    BY <2>1 DEF MemoryUpTo, Types, EfiLoaderData, EfiBootServicesData, EfiConventionalMemory, Absent
  <2> QED
    BY <2>1, <2>2, <2>3
<1>4. describe \in Seq(R)
  <2> HIDE DEF k, R
  <2>1. \A n \in 1..k : describe[n] \in R
    BY <1>3, DescribeRuns DEF k
  <2>2. describe = [n \in 1..k |-> describe[n]]
    BY DescribeRuns DEF k
  <2> QED
    BY <1>2, <2>1, <2>2
<1>5. size \in 0..(last + 1)
  BY DescribeSize
<1> HIDE DEF size
<1>6. size \in 0..(Word - 1) /\ (size \div 8 + 1) * 8 < Word
  BY <1>1, <1>5
<1> QED
  BY <1>4, <1>6 DEF ValidMap, size

(* The frames of one descriptor. *)
LEMMA DescriptorRun ==
  ASSUME NEW last, MemoryUpTo(last), NEW n \in 1..Cardinality(runStarts)
  PROVE  PageRun(describe[n].start, describe[n].count) = nthRun(n)..(runEnd(nthRun(n)) - 1)
<1> DEFINE f == nthRun(n)
           e == runEnd(f)
<1>1. last \in Nat /\ last <= Word - 10 /\ Word \in Nat
  BY WordAssumption DEF MemoryUpTo
<1>2. /\ f \in 0..last /\ e \in 1..(last + 1) /\ e - f \in Nat
      /\ describe[n].start = f /\ describe[n].count = e - f
  BY DescriptorFacts
<1> HIDE DEF f, e
<1>3. \A i \in 0..((e - f) - 1) : (f + i) % Word = f + i
  BY <1>1, <1>2
<1>4. PageRun(f, e - f) = {f + i : i \in 0..((e - f) - 1)}
  BY <1>3 DEF PageRun
<1>5. \A x \in f..(e - 1) : x - f \in 0..((e - f) - 1) /\ x = f + (x - f)
  BY <1>1, <1>2
<1>6. \A i \in 0..((e - f) - 1) : f + i \in f..(e - 1)
  BY <1>1, <1>2
<1>7. PageRun(f, e - f) = f..(e - 1)
  BY <1>4, <1>5, <1>6
<1> QED
  BY <1>2, <1>7 DEF f, e

(* The map names every free frame as conventional memory, and no other. *)
LEMMA DescribeConventional ==
  ASSUME NEW last, MemoryUpTo(last)
  PROVE  /\ Conventional(describe)
              = {n \in 1..Cardinality(runStarts) : nthRun(n) \in free}
         /\ ConventionalFrames(describe) = free
<1> DEFINE k == Cardinality(runStarts)
           C == {n \in 1..k : nthRun(n) \in free}
<1>1. last \in Nat /\ DOMAIN memory = 0..last
  BY DEF MemoryUpTo
<1>2. DOMAIN describe = 1..k
  BY DescribeRuns
<1>3. \A n \in 1..k : describe[n].type = EfiConventionalMemory <=> nthRun(n) \in free
  BY <1>1, DescriptorFacts DEF free
<1>4. Conventional(describe) = C
  BY <1>2, <1>3 DEF Conventional
<1>5. ASSUME NEW n \in C, NEW x \in nthRun(n)..(runEnd(nthRun(n)) - 1)
      PROVE  x \in free
  <2>1. nthRun(n) \in 0..last /\ n \in 1..k /\ memory[nthRun(n)] = EfiConventionalMemory
    BY <1>1, DescriptorFacts DEF free
  <2>2. /\ runEnd(nthRun(n)) \in (nthRun(n) + 1)..(last + 1)
        /\ memory[x] = memory[nthRun(n)]
    BY <2>1, RunEnds
  <2>3. x \in 0..last
    BY <1>1, <2>1, <2>2
  <2> QED
    BY <1>1, <2>1, <2>2, <2>3 DEF free
<1>6. ASSUME NEW x \in free
      PROVE  \E n \in C : x \in nthRun(n)..(runEnd(nthRun(n)) - 1)
  <2>1. x \in 0..last /\ memory[x] = EfiConventionalMemory /\ memory[x] # Absent
    BY <1>1 DEF free, EfiConventionalMemory, Absent
  <2>2. PICK f \in runStarts : f <= x /\ x < runEnd(f) /\ memory[f] = memory[x]
    BY <2>1, RunsCover
  <2>3. PICK n \in 1..k : nthRun(n) = f
    BY RunsNumbered
  <2>4. f \in 0..last /\ runEnd(f) \in (f + 1)..(last + 1)
    BY RunsCover, RunEnds
  <2>5. f \in free
    BY <1>1, <2>1, <2>2, <2>4 DEF free
  <2>6. x \in f..(runEnd(f) - 1)
    BY <1>1, <2>1, <2>2, <2>4
  <2> QED
    BY <2>3, <2>5, <2>6
<1>7. \A n \in C : PageRun(describe[n].start, describe[n].count)
                     = nthRun(n)..(runEnd(nthRun(n)) - 1)
  BY DescriptorRun
<1>8. ConventionalFrames(describe) = UNION {nthRun(n)..(runEnd(nthRun(n)) - 1) : n \in C}
  <2> HIDE DEF C
  <2> QED
    BY <1>4, <1>7 DEF ConventionalFrames
<1> HIDE DEF C
<1>9. ConventionalFrames(describe) = free
  BY <1>5, <1>6, <1>8
<1> QED
  BY <1>4, <1>9 DEF C

(* The segment the allocator puts its bitmap in is as long as any run of    *)
(* free frames there is.                                                    *)
LEMMA LargestSegment ==
  ASSUME NEW last, MemoryUpTo(last), NEW n \in Nat \ {0},
         NEW f \in free, f..(f + n - 1) \subseteq free
  PROVE  LET b == largestFreeMemorySegment(describe)
         IN  b \in Nat /\ b..(b + n - 1) \subseteq free
<1> DEFINE k == Cardinality(runStarts)
           C == Conventional(describe)
           longest == {i \in C : /\ describe[i].count > 0
                                 /\ \A j \in C : describe[j].count <= describe[i].count}
<1>1. last \in Nat /\ DOMAIN memory = 0..last
  BY DEF MemoryUpTo
<1>2. C = {i \in 1..k : nthRun(i) \in free}
  BY DescribeConventional
<1> HIDE DEF k, C
<1>3. ASSUME NEW i \in C
      PROVE  /\ i \in 1..k /\ nthRun(i) \in free
             /\ describe[i].start = nthRun(i)
             /\ describe[i].count = runEnd(nthRun(i)) - nthRun(i)
             /\ describe[i].count \in Nat /\ describe[i].count > 0
             /\ nthRun(i) \in 0..last
             /\ runEnd(nthRun(i)) \in (nthRun(i) + 1)..(last + 1)
             /\ describe[i].count <= last + 1
  <2>1. i \in 1..k /\ nthRun(i) \in free
    BY <1>2
  <2>2. /\ describe[i].start = nthRun(i)
        /\ describe[i].count = runEnd(nthRun(i)) - nthRun(i)
        /\ describe[i].count \in Nat /\ describe[i].count > 0
        /\ nthRun(i) \in 0..last
    BY <2>1, DescriptorFacts DEF k
  <2>3. runEnd(nthRun(i)) \in (nthRun(i) + 1)..(last + 1)
    BY <2>2, RunEnds
  <2>4. describe[i].count <= last + 1
    BY <1>1, <2>2, <2>3
  <2> QED
    BY <2>1, <2>2, <2>3, <2>4
<1>4. PICK c \in C : f \in nthRun(c)..(runEnd(nthRun(c)) - 1)
  <2>1. f \in 0..last /\ memory[f] = EfiConventionalMemory /\ memory[f] # Absent
    BY <1>1 DEF free, EfiConventionalMemory, Absent
  <2>2. PICK h \in runStarts : h <= f /\ f < runEnd(h) /\ memory[h] = memory[f]
    BY <2>1, RunsCover
  <2>3. PICK i \in 1..k : nthRun(i) = h
    BY RunsNumbered DEF k
  <2>4. h \in 0..last /\ runEnd(h) \in (h + 1)..(last + 1)
    BY RunsCover, RunEnds
  <2>5. h \in free
    BY <1>1, <2>1, <2>2, <2>4 DEF free
  <2>6. f \in h..(runEnd(h) - 1)
    BY <1>1, <2>1, <2>2, <2>4
  <2> QED
    BY <1>2, <2>3, <2>5, <2>6
<1>5. describe[c].count >= n
  <2> DEFINE e == runEnd(nthRun(c))
  <2>1. f + n <= e
    <3>1. SUFFICES ASSUME e < f + n
                   PROVE  FALSE
      BY <1>1, <1>3, <1>4
    <3>2. e \in f..(f + n - 1)
      BY <1>1, <1>3, <1>4, <3>1
    <3>3. e \in free
      BY <3>2
    <3>4. e \in 0..last /\ memory[e] = EfiConventionalMemory
      BY <1>1, <3>3 DEF free
    <3>5. memory[e] # memory[nthRun(c)]
      BY <1>3, <3>4, RunEnds
    <3>6. memory[nthRun(c)] = EfiConventionalMemory
      BY <1>3 DEF free
    <3> QED
      BY <3>4, <3>5, <3>6
  <2>2. nthRun(c) <= f /\ nthRun(c) \in Int /\ f \in Int /\ e \in Int
    BY <1>1, <1>3, <1>4
  <2> HIDE DEF e
  <2>3. e - nthRun(c) >= n
    BY <2>1, <2>2
  <2> QED
    BY <1>3, <2>3 DEF e
<1>6. longest # {}
  <2> DEFINE counts == {describe[i].count : i \in C}
  <2>1. Max(counts) \in counts /\ \A y \in counts : y <= Max(counts)
    <3>1. counts \in SUBSET Nat /\ counts # {} /\ \A y \in counts : y <= last + 1
      BY <1>3, <1>4
    <3>2. last + 1 \in Nat
      BY <1>1
    <3> HIDE DEF counts
    <3> QED
      BY <3>1, <3>2, MaxOfNaturals
  <2> DEFINE most == Max(counts)
  <2> HIDE DEF most
  <2>2. most \in counts /\ \A y \in counts : y <= most
    BY <2>1 DEF most
  <2>3. PICK i \in C : describe[i].count = most
    BY <2>2
  <2>4. i \in longest
    BY <1>3, <2>2, <2>3
  <2> QED
    BY <2>4
<1> DEFINE i == Min(longest)
           b == nthRun(i)
<1>7. i \in longest
  <2>1. longest \in SUBSET Nat
    BY <1>3
  <2> HIDE DEF longest
  <2> QED
    BY <1>6, <2>1, MinOfNaturals
<1>8. largestFreeMemorySegment(describe) = describe[i].start
  BY <1>6 DEF largestFreeMemorySegment, C
<1> HIDE DEF i
<1>9. /\ i \in C /\ b \in free /\ b \in 0..last
      /\ describe[i].start = b
      /\ runEnd(b) \in (b + 1)..(last + 1)
      /\ runEnd(b) - b >= n
  <2>1. i \in C /\ describe[c].count <= describe[i].count
    BY <1>7
  <2>2. /\ describe[i].count \in Nat /\ describe[c].count \in Nat
        /\ describe[i].count = runEnd(b) - b
    BY <1>3, <2>1
  <2> QED
    BY <1>3, <1>5, <2>1, <2>2
<1> HIDE DEF b
<1>10. b..(b + n - 1) \subseteq free
  <2>1. ASSUME NEW x \in b..(b + n - 1)
        PROVE  x \in free
    <3>1. x \in b..(runEnd(b) - 1) /\ x \in 0..last
      BY <1>1, <1>9
    <3>2. memory[x] = memory[b]
      BY <1>9, <3>1, RunEnds
    <3> QED
      BY <1>1, <1>9, <3>1, <3>2 DEF free
  <2> QED
    BY <2>1
<1>11. b \in Nat
  BY <1>1, <1>9
<1> QED
  BY <1>8, <1>9, <1>10, <1>11

-----------------------------------------------------------------------------
(* The inductive invariant of Handoff.                                      *)

bitmapRun == PageRun(pf.base, pf.size \div PageSize + 1)
kernelRun == PageRun(Min(KernelFrames), kernelCount)
grantedBefore(n) == {granted[m] : m \in 1..(n - 1)}

(* A grant as it should be: of a free frame nobody has, or of none. *)
ProperGrant(n) ==
  \/ granted[n] \in free \ (kept \cup grantedBefore(n))
  \/ /\ granted[n] = NULL \/ granted[n] >= memoryPages
     /\ free \cap 0..(memoryPages - 1) \subseteq kept \cup grantedBefore(n)

(* What has been taken of the frames that were open. *)
shut ==
  IF pc = "run" THEN bitmapRun \cup kernelRun \cup grantedBefore(Len(granted) + 1) ELSE bitmapRun

(* The allocator on the kernel's map: a bit is clear as long as its frame   *)
(* was open when the allocator was initialised and has not been taken.      *)
BitmapInv ==
  /\ Sane(pf)
  /\ pf.size = getMemorySize(map) \div 8 + 1
  /\ pf.base = largestFreeMemorySegment(map)
  /\ pf.bits = (0..(pf.size * 8)) \ (Opened(map, pf.size, stray = 1) \ shut)
  /\ \A n \in DOMAIN granted : ProperGrant(n)

(* The inductive invariant: as long as nothing has changed since, the map   *)
(* the loader has is that of memory; the kernel enters only then, and       *)
(* builds its bitmap on it.                                                 *)
HandoffInv ==
  /\ \E last \in 0..(Word - 10) : MemoryUpTo(last)
  /\ key \in Nat
  /\ granted \in Seq(Nat)
  /\ pc \notin {"loadKernelImage", "returned"} => KernelFrames \subseteq DOMAIN memory
  /\ pc = "exitBootServices" =>
       /\ mapKey \in Nat /\ mapKey <= key
       /\ mapKey = key => map = describe
  /\ pc \in {"initializeMemory", "initializePageFrame", "lockKernel", "run"} => map = describe
  /\ memoryMapInfo = IF pc \in {"initializePageFrame", "lockKernel", "run"} THEN map ELSE << >>
  /\ pc \notin {"lockKernel", "run"} => pf = ZeroedAllocator
  /\ pc # "run" => granted = << >>
  /\ pc \in {"lockKernel", "run"} => BitmapInv

(* What the firmware's allocations leave of memory. *)
LEMMA AllocateFacts ==
  ASSUME NEW last, MemoryUpTo(last), key \in Nat,
         NEW F, NEW type \in Types, allocate(F, type)
  PROVE  MemoryUpTo(last)' /\ DOMAIN memory' = DOMAIN memory /\ key' = key + 1
<1>1. memory' = [f \in DOMAIN memory |-> IF f \in F THEN type ELSE memory[f]] /\ key' = key + 1
  BY DEF allocate
<1>2. DOMAIN memory = 0..last /\ \A f \in 0..last : memory[f] \in Types
  BY DEF MemoryUpTo
<1>3. memory' \in [0..last -> Types]
  BY <1>1, <1>2
<1> QED
  BY <1>1, <1>3 DEF MemoryUpTo

(* The state the loader starts in. *)
LEMMA InitHandoffInv == HandoffInit => HandoffInv
<1> SUFFICES ASSUME HandoffInit
             PROVE  HandoffInv
  OBVIOUS
<1>1. \E last \in 0..(Word - 10) : MemoryUpTo(last)
  BY HandoffAssumption DEF HandoffInit, MemoryUpTo
<1>2. /\ memoryMapInfo = << >> /\ pf = ZeroedAllocator
      /\ granted = << >> /\ pc = "loadKernelImage" /\ key \in Nat
  BY DEF HandoffInit, Init
<1>3. granted \in Seq(Nat)
  BY <1>2
<1> QED
  BY <1>1, <1>2, <1>3 DEF HandoffInv

(* The steps before the kernel is entered, the loader's and the firmware's. *)
LoaderPcs ==
  {"loadKernelImage", "loadFont", "mapAllocate", "getMap", "exitBootServices", "returned"}

(* What such a step has to leave. *)
LEMMA LoaderKeeps ==
  ASSUME HandoffInv, pc' \in LoaderPcs, UNCHANGED <<vars, granted>>, pc \in LoaderPcs,
         NEW last, MemoryUpTo(last), MemoryUpTo(last)', key' \in Nat,
         pc' \notin {"loadKernelImage", "returned"} => KernelFrames \subseteq DOMAIN memory,
         pc' = "exitBootServices" =>
           /\ mapKey' \in Nat /\ mapKey' <= key'
           /\ mapKey' = key' => map' = describe'
  PROVE  HandoffInv'
<1>1. last \in 0..(Word - 10) /\ DOMAIN memory' = DOMAIN memory
  BY DEF MemoryUpTo
<1>2. pf' = pf /\ granted' = granted /\ memoryMapInfo' = memoryMapInfo
  BY DEF vars
<1>3. /\ granted \in Seq(Nat) /\ granted = << >>
      /\ pf = ZeroedAllocator /\ memoryMapInfo = << >>
  BY DEF HandoffInv, LoaderPcs
<1>4. pc' \notin {"initializeMemory", "initializePageFrame", "lockKernel", "run"}
  BY DEF LoaderPcs
<1>5. pc' \notin {"loadKernelImage", "returned"} => KernelFrames \subseteq DOMAIN memory'
  BY <1>1
<1> QED
  BY <1>1, <1>2, <1>3, <1>4, <1>5 DEF HandoffInv

(* The calls of efi_main before the last, and the firmware between them.    *)
LEMMA LoaderStep ==
  HandoffInv /\ (LoadKernelImage \/ LoadPSD1Font \/ AllocateMemoryMap \/ GetMemoryMap
                   \/ FirmwareChangesMap)
    => HandoffInv'
<1> SUFFICES ASSUME HandoffInv,
                    LoadKernelImage \/ LoadPSD1Font \/ AllocateMemoryMap \/ GetMemoryMap
                      \/ FirmwareChangesMap
             PROVE  HandoffInv'
  OBVIOUS
<1>1. key \in Nat
  BY DEF HandoffInv
<1>2. PICK last \in 0..(Word - 10) : MemoryUpTo(last)
  BY DEF HandoffInv
<1>3. DOMAIN memory = 0..last /\ free \subseteq DOMAIN memory
  BY <1>2 DEF MemoryUpTo, free
<1>k. pc \notin {"loadKernelImage", "returned"} => KernelFrames \subseteq DOMAIN memory
  BY DEF HandoffInv
<1>4. EfiLoaderData \in Types /\ EfiBootServicesData \in Types /\ EfiConventionalMemory \in Types
  BY DEF Types
<1>5. CASE LoadKernelImage
  <2>1. CASE loaderStep("loadKernelImage", "loadFont") /\ allocate(KernelFrames, EfiLoaderData)
    <3>1. MemoryUpTo(last)' /\ key' = key + 1
      BY <1>1, <1>2, <1>4, <2>1, AllocateFacts
    <3>2. KernelFrames \subseteq DOMAIN memory
      BY <1>3, <2>1 DEF allocate
    <3>3. pc = "loadKernelImage" /\ pc' = "loadFont" /\ UNCHANGED <<vars, granted>>
      BY <2>1 DEF loaderStep
    <3> QED
      BY <1>1, <1>2, <3>1, <3>2, <3>3, LoaderKeeps DEF LoaderPcs
  <2>2. CASE loaderStep("loadKernelImage", "returned") /\ UNCHANGED <<memory, key, map, mapKey>>
    <3>1. pc = "loadKernelImage" /\ pc' = "returned" /\ UNCHANGED <<vars, granted>>
      BY <2>2 DEF loaderStep
    <3>2. MemoryUpTo(last)' /\ key' \in Nat
      BY <1>1, <1>2, <2>2 DEF MemoryUpTo
    <3> QED
      BY <1>2, <3>1, <3>2, LoaderKeeps DEF LoaderPcs
  <2> QED
    BY <1>5, <2>1, <2>2 DEF LoadKernelImage
<1>6. CASE LoadPSD1Font
  <2>1. PICK F \in SUBSET free : allocate(F, EfiLoaderData)
    BY <1>6 DEF LoadPSD1Font
  <2>2. MemoryUpTo(last)' /\ key' = key + 1
    BY <1>1, <1>2, <1>4, <2>1, AllocateFacts
  <2>3. pc = "loadFont" /\ pc' = "mapAllocate" /\ UNCHANGED <<vars, granted>>
    BY <1>6 DEF loaderStep, LoadPSD1Font
  <2> QED
    BY <1>1, <1>2, <1>k, <2>2, <2>3, LoaderKeeps DEF LoaderPcs
<1>7. CASE AllocateMemoryMap
  <2>1. MemoryUpTo(last)' /\ key' = key + 1
    <3>1. CASE \E f \in free : allocate({f}, EfiLoaderData)
      BY <1>1, <1>2, <1>4, <3>1, AllocateFacts
    <3>2. CASE UNCHANGED memory /\ key' = key + 1
      BY <1>2, <3>2 DEF MemoryUpTo
    <3> QED
      BY <1>7, <3>1, <3>2 DEF AllocateMemoryMap, allocatePool
  <2>2. pc = "mapAllocate" /\ pc' = "getMap" /\ UNCHANGED <<vars, granted>>
    BY <1>7 DEF loaderStep, AllocateMemoryMap
  <2> QED
    BY <1>1, <1>2, <1>k, <2>1, <2>2, LoaderKeeps DEF LoaderPcs
<1>8. CASE GetMemoryMap
  <2>1. /\ pc = "getMap" /\ pc' = "exitBootServices" /\ UNCHANGED <<vars, granted>>
        /\ map' = describe /\ mapKey' = key /\ UNCHANGED <<memory, key>>
    BY <1>8 DEF loaderStep, GetMemoryMap
  <2>2. describe' = describe
    BY <2>1 DEF describe
  <2>3. MemoryUpTo(last)' /\ key' \in Nat /\ mapKey' \in Nat /\ mapKey' <= key'
    BY <1>1, <1>2, <2>1 DEF MemoryUpTo
  <2> QED
    BY <1>2, <1>k, <2>1, <2>2, <2>3, LoaderKeeps DEF LoaderPcs
<1>9. CASE FirmwareChangesMap
  <2>1. MemoryUpTo(last)' /\ key' = key + 1
    <3>1. CASE \E f \in free : allocate({f}, EfiBootServicesData)
      BY <1>1, <1>2, <1>4, <3>1, AllocateFacts
    <3>2. CASE \E f \in DOMAIN memory :
                 /\ memory' = [memory EXCEPT ![f] = EfiConventionalMemory]
                 /\ key' = key + 1
      <4>1. memory' \in [0..last -> Types]
        BY <1>2, <1>4, <3>2 DEF MemoryUpTo
      <4> QED
        BY <1>2, <3>2, <4>1 DEF MemoryUpTo
    <3> QED
      BY <1>9, <3>1, <3>2 DEF FirmwareChangesMap
  <2>2. /\ pc \in LoaderPcs /\ pc' = pc /\ pc # "returned"
        /\ UNCHANGED <<vars, map, mapKey, granted>>
    BY <1>9 DEF FirmwareChangesMap, LoaderPcs
  <2>3. pc = "exitBootServices" => mapKey' \in Nat /\ mapKey' < key'
    BY <1>1, <2>1, <2>2 DEF HandoffInv
  <2>4. pc' = "exitBootServices" =>
           /\ mapKey' \in Nat /\ mapKey' <= key'
           /\ mapKey' = key' => map' = describe'
    BY <1>1, <2>1, <2>2, <2>3
  <2> QED
    BY <1>1, <1>2, <1>k, <2>1, <2>2, <2>4, LoaderKeeps
<1> QED
  BY <1>5, <1>6, <1>7, <1>8, <1>9

(* What a step of the kernel leaves of what the loader has made. *)
LEMMA KernelKeeps ==
  ASSUME HandoffInv, UNCHANGED <<memory, key, map, mapKey, changes>>,
         pc \in {"initializeMemory", "initializePageFrame", "lockKernel", "run"},
         pc' \in {"initializePageFrame", "lockKernel", "run"},
         granted' \in Seq(Nat), pc' # "run" => granted' = << >>,
         memoryMapInfo' = map,
         pc' = "initializePageFrame" => pf' = ZeroedAllocator,
         pc' # "initializePageFrame" => BitmapInv'
  PROVE  HandoffInv'
<1>1. PICK last \in 0..(Word - 10) : MemoryUpTo(last)
  BY DEF HandoffInv
<1>2. MemoryUpTo(last)'
  BY <1>1 DEF MemoryUpTo
<1>3. KernelFrames \subseteq DOMAIN memory /\ map = describe /\ key \in Nat
  BY DEF HandoffInv
<1>4. map' = describe'
  BY <1>3 DEF describe
<1> QED
  BY <1>1, <1>2, <1>3, <1>4 DEF HandoffInv

(* Entering the kernel: the map is the one the key belongs to. *)
LEMMA EnterKeeps == HandoffInv /\ ExitBootServices => HandoffInv'
<1> SUFFICES ASSUME HandoffInv, ExitBootServices
             PROVE  HandoffInv'
  OBVIOUS
<1>1. PICK last \in 0..(Word - 10) : MemoryUpTo(last)
  BY DEF HandoffInv
<1>2. UNCHANGED <<vars, granted, memory, key, map, mapKey>> /\ pc = "exitBootServices"
  BY DEF ExitBootServices, loaderStep
<1>3. MemoryUpTo(last)' /\ describe' = describe
  BY <1>1, <1>2 DEF MemoryUpTo, describe
<1>4. pf' = pf /\ memoryMapInfo' = memoryMapInfo
  BY <1>2 DEF vars
<1>5. \/ pc' = "initializeMemory" /\ mapKey = key
      \/ pc' = "returned"
  BY DEF ExitBootServices, loaderStep
<1>6. /\ KernelFrames \subseteq DOMAIN memory /\ key \in Nat /\ granted \in Seq(Nat)
      /\ mapKey = key => map = describe
      /\ pf = ZeroedAllocator /\ memoryMapInfo = << >> /\ granted = << >>
  BY <1>2 DEF HandoffInv
<1>7. KernelFrames \subseteq DOMAIN memory'
  BY <1>2, <1>6
<1> QED
  BY <1>1, <1>2, <1>3, <1>4, <1>5, <1>6, <1>7 DEF HandoffInv

(* initializeMemory has the map of the memory the kernel starts in. *)
LEMMA ReadMapKeeps == HandoffInv /\ ReadMap => HandoffInv'
<1> SUFFICES ASSUME HandoffInv, ReadMap
             PROVE  HandoffInv'
  OBVIOUS
<1>1. /\ pc = "initializeMemory" /\ pc' = "initializePageFrame"
      /\ UNCHANGED <<memory, key, map, mapKey, changes>>
      /\ granted' = granted /\ memoryMapInfo' = map /\ pf' = pf
  BY DEF ReadMap, kernelStep, InitializeMemory
<1>2. granted \in Seq(Nat) /\ granted = << >> /\ pf = ZeroedAllocator
  BY <1>1 DEF HandoffInv
<1> QED
  BY <1>1, <1>2, KernelKeeps

(* initializePageFrame opens what is free, except for low memory and the    *)
(* bitmap.                                                                  *)
LEMMA MakeBitmapKeeps == HandoffInv /\ MakeBitmap => HandoffInv'
<1> SUFFICES ASSUME HandoffInv, MakeBitmap
             PROVE  HandoffInv'
  OBVIOUS
<1>1. /\ pc = "initializePageFrame" /\ pc' = "lockKernel"
      /\ UNCHANGED <<memory, key, map, mapKey, changes>>
      /\ granted' = granted
  BY DEF MakeBitmap, kernelStep
<1>2. PICK g \in 0..1 : InitializePageFrame(g)
  BY DEF MakeBitmap
<1>3. /\ granted \in Seq(Nat) /\ granted = << >> /\ pf = ZeroedAllocator
      /\ memoryMapInfo = map /\ map = describe
  BY <1>1 DEF HandoffInv
<1>4. ValidMap(map)
  <2>1. PICK last \in 0..(Word - 10) : MemoryUpTo(last)
    BY DEF HandoffInv
  <2> QED
    BY <1>3, <2>1, DescribeValid
<1> DEFINE q == initializePageFrame(ZeroedAllocator, map, g = 1)
<1>5. pf' = q /\ stray' = g /\ memoryMapInfo' = map
  BY <1>2, <1>3 DEF InitializePageFrame
<1>6. /\ Sane(q) /\ q.size = getMemorySize(map) \div 8 + 1
      /\ q.base = largestFreeMemorySegment(map)
  BY <1>4, InitializeFacts
<1>7. q.bits = (0..(q.size * 8))
                 \ (Opened(map, q.size, g = 1) \ PageRun(q.base, q.size \div PageSize + 1))
  <2>1. Opens(map, g = 1, q)
    BY <1>4, InitializedFrames
  <2> HIDE DEF q
  <2> QED
    BY <2>1 DEF Opens
<1> HIDE DEF q
<1>8. BitmapInv'
  <2>1. shut' = PageRun(q.base, q.size \div PageSize + 1)
    BY <1>1, <1>5 DEF shut, bitmapRun
  <2>2. pf'.bits = (0..(pf'.size * 8)) \ (Opened(map', pf'.size, stray' = 1) \ shut')
    BY <1>1, <1>5, <1>7, <2>1
  <2>3. DOMAIN granted' = {}
    BY <1>1, <1>3
  <2> QED
    BY <1>1, <1>5, <1>6, <2>2, <2>3 DEF BitmapInv
<1> QED
  BY <1>1, <1>3, <1>5, <1>8, KernelKeeps

(* The frames a run of the kernel's locks. *)
LEMMA RunFacts ==
  ASSUME HandoffInv, pc \in {"lockKernel", "run"}
  PROVE  bitmapRun \in SUBSET Nat /\ kernelRun \in SUBSET Nat
<1>1. PICK last \in 0..(Word - 10) : MemoryUpTo(last)
  BY DEF HandoffInv
<1>2. KernelFrames \in SUBSET (0..last) /\ last \in Nat
  BY <1>1 DEF HandoffInv, MemoryUpTo
<1>3. kernelCount \in Int
  <2>1. IsFiniteSet(0..last)
    BY <1>2, FS_Interval
  <2>2. Cardinality(KernelFrames) \in Nat
    BY <1>2, <2>1, FS_Subset, FS_CardinalityType
  <2> QED
    BY <2>2 DEF kernelCount
<1>4. Min(KernelFrames) \in Nat
  <2>1. KernelFrames \in SUBSET Nat /\ KernelFrames # {}
    BY HandoffAssumption
  <2>2. Min(KernelFrames) \in KernelFrames
    BY <2>1, MinOfNaturals
  <2> QED
    BY <2>1, <2>2
<1>5. kernelRun \in SUBSET Nat
  <2>1. kernelRun \in SUBSET (0..(Word - 1))
    BY <1>3, <1>4, PageRunType DEF kernelRun
  <2> QED
    BY <2>1, WordAssumption
<1>6. bitmapRun \in SUBSET Nat
  <2>1. pf.base \in Nat /\ pf.size \in Nat
    BY DEF HandoffInv, BitmapInv, Sane, Allocators
  <2>2. pf.size \div PageSize + 1 \in Int
    BY <2>1, PageSizeAssumption
  <2>3. bitmapRun \in SUBSET (0..(Word - 1))
    BY <2>1, <2>2, PageRunType DEF bitmapRun
  <2> QED
    BY <2>3, WordAssumption
<1> QED
  BY <1>5, <1>6

(* Locking the kernel shuts its frames. *)
LEMMA LockKernelKeeps == HandoffInv /\ LockKernel => HandoffInv'
<1> SUFFICES ASSUME HandoffInv, LockKernel
             PROVE  HandoffInv'
  OBVIOUS
<1>1. /\ pc = "lockKernel" /\ pc' = "run"
      /\ UNCHANGED <<memory, key, map, mapKey, changes>>
      /\ granted' = granted /\ stray' = stray
      /\ pf' = lockPages(pf, kernelRun) /\ memoryMapInfo' = memoryMapInfo
  BY DEF LockKernel, kernelStep, LockPages, Call, kernelRun
<1>2. granted \in Seq(Nat) /\ granted = << >> /\ BitmapInv /\ memoryMapInfo = map
  BY <1>1 DEF HandoffInv
<1>3. kernelRun \in SUBSET Nat
  BY <1>1, RunFacts
<1> DEFINE all == 0..(pf.size * 8)
           open == Opened(map, pf.size, stray = 1)
<1>4. /\ Sane(pf) /\ pf.size = getMemorySize(map) \div 8 + 1
      /\ pf.base = largestFreeMemorySegment(map)
      /\ pf.bits = all \ (open \ bitmapRun)
  BY <1>1, <1>2 DEF BitmapInv, shut
<1>5. /\ Sane(pf') /\ pf'.size = pf.size /\ pf'.base = pf.base
      /\ pf'.bits = pf.bits \cup Settable(pf, kernelRun)
  BY <1>1, <1>3, <1>4, TakeFacts
<1>6. pf'.bits = all \ (open \ (bitmapRun \cup kernelRun))
  <2>1. /\ Settable(pf, kernelRun) \subseteq all
        /\ kernelRun \cap all \subseteq pf.bits \cup Settable(pf, kernelRun)
    BY <1>3, <1>4, SettableFacts
  <2>2. Settable(pf, kernelRun) \subseteq kernelRun
    BY DEF Settable
  <2> HIDE DEF all, open
  <2> QED
    BY <1>4, <1>5, <2>1, <2>2
<1>7. BitmapInv'
  <2>1. shut' = bitmapRun \cup kernelRun
    <3>1. Len(granted') + 1 = 1
      BY <1>1, <1>2
    <3>2. grantedBefore(1)' = {}
      BY DEF grantedBefore
    <3>3. bitmapRun' = bitmapRun /\ kernelRun' = kernelRun
      BY <1>5 DEF bitmapRun, kernelRun, kernelCount
    <3>4. shut' = bitmapRun' \cup kernelRun' \cup grantedBefore(Len(granted) + 1)'
      BY <1>1 DEF shut
    <3>5. grantedBefore(Len(granted) + 1)' = {}
      BY <3>1 DEF grantedBefore
    <3> QED
      BY <3>3, <3>4, <3>5
  <2>2. pf'.bits = (0..(pf'.size * 8)) \ (Opened(map', pf'.size, stray' = 1) \ shut')
    BY <1>1, <1>5, <1>6, <2>1
  <2>3. DOMAIN granted' = {}
    BY <1>1, <1>2
  <2> QED
    BY <1>1, <1>4, <1>5, <2>2, <2>3 DEF BitmapInv
<1> QED
  BY <1>1, <1>2, <1>7, KernelKeeps

(* The frames that are open, below the memory size: all that are free and   *)
(* not low.                                                                 *)
LEMMA OpenFacts ==
  ASSUME NEW last \in 0..(Word - 10), MemoryUpTo(last), map = describe,
         Sane(pf), pf.size = getMemorySize(map) \div 8 + 1
  PROVE  LET open == Opened(map, pf.size, stray = 1)
         IN  /\ memoryPages \in Nat /\ memoryPages < pf.size * 8
             /\ open \in SUBSET (0..(pf.size * 8))
             /\ \A f \in open : f \notin 0..(LowPages - 1)
             /\ \A f \in open : f \in free \/ f > memoryPages
             /\ \A f \in free : f < memoryPages => f \in open \/ f \in 0..(LowPages - 1)
<1> DEFINE open == Opened(map, pf.size, stray = 1)
<1>1. memoryPages \in 0..(last + 1) /\ pf.size = memoryPages \div 8 + 1
  BY DescribeSize DEF memoryPages
<1>2. last \in Nat /\ last < Word /\ Word \in Nat /\ DOMAIN memory = 0..last
  BY WordAssumption DEF MemoryUpTo
<1>3. memoryPages \in Nat /\ memoryPages < pf.size * 8 /\ pf.size * 8 < Word /\ pf.size * 8 \in Nat
  <2>1. pf.size * 8 < Word
    BY DEF Sane
  <2>2. memoryPages \in Nat
    BY <1>1, <1>2
  <2> HIDE DEF memoryPages
  <2>3. memoryPages < (memoryPages \div 8 + 1) * 8 /\ (memoryPages \div 8 + 1) * 8 \in Nat
    BY <2>2
  <2> QED
    BY <1>1, <2>1, <2>2, <2>3
<1>4. ConventionalFrames(map) = free
  BY DescribeConventional
<1>5. open = {f \in 0..(pf.size * 8) :
                \/ f \in free
                \/ f > memoryPages /\ ~((stray = 1) /\ f = pf.size * 8)} \ PageRun(0, LowPages)
  BY <1>4 DEF Opened, memoryPages
<1> HIDE DEF open, memoryPages
<1>6. ASSUME NEW f \in open
      PROVE  f \notin 0..(LowPages - 1)
  <2>1. f \in 0..(Word - 1) /\ f \notin PageRun(0, LowPages)
    BY <1>2, <1>3, <1>5
  <2> QED
    BY <2>1, LowFrames
<1>7. ASSUME NEW f \in free, f < memoryPages
      PROVE  f \in open \/ f \in 0..(LowPages - 1)
  <2>1. f \in 0..last
    BY <1>2 DEF free
  <2>2. f \in 0..(Word - 1) /\ f \in 0..(pf.size * 8)
    BY <1>2, <1>3, <1>7, <2>1
  <2> QED
    BY <1>5, <2>2, LowFrames
<1>8. open \in SUBSET (0..(pf.size * 8))
  BY <1>5
<1>9. \A f \in open : f \in free \/ f > memoryPages
  BY <1>5
<1> QED
  BY <1>3, <1>6, <1>7, <1>8, <1>9 DEF open

(* What a request adds to the grants. *)
LEMMA TakePageKeeps == HandoffInv /\ TakePage => HandoffInv'
<1> SUFFICES ASSUME HandoffInv, TakePage
             PROVE  HandoffInv'
  OBVIOUS
<1> DEFINE new == requestedPage(pf)
<1>1. /\ pc = "run" /\ pc' = "run"
      /\ UNCHANGED <<memory, key, map, mapKey, changes>>
      /\ granted' = Append(granted, new) /\ stray' = stray
      /\ pf' = requestPage(pf) /\ memoryMapInfo' = memoryMapInfo
  BY DEF TakePage, kernelStep, RequestPage
<1>2. PICK last \in 0..(Word - 10) : MemoryUpTo(last)
  BY DEF HandoffInv
<1>3. granted \in Seq(Nat) /\ BitmapInv /\ map = describe /\ memoryMapInfo = map
  BY <1>1 DEF HandoffInv
<1>k. PICK k \in Nat : k = Len(granted) + 1
  BY <1>3
<1> DEFINE all == 0..(pf.size * 8)
           open == Opened(map, pf.size, stray = 1)
           low == 0..(LowPages - 1)
<1>4. /\ Sane(pf) /\ pf.size = getMemorySize(map) \div 8 + 1
      /\ pf.base = largestFreeMemorySegment(map)
      /\ pf.bits = all \ (open \ shut)
      /\ \A n \in DOMAIN granted : ProperGrant(n)
  BY <1>3 DEF BitmapInv
<1>5. /\ memoryPages \in Nat /\ memoryPages < pf.size * 8
      /\ open \in SUBSET all
      /\ \A f \in open : f \notin low
      /\ \A f \in open : f \in free \/ f > memoryPages
      /\ \A f \in free : f < memoryPages => f \in open \/ f \in low
  BY <1>2, <1>3, <1>4, OpenFacts
<1>6. pf.size > 0
  <2>1. getMemorySize(map) \in Nat
    BY <1>5 DEF memoryPages
  <2> HIDE DEF all, open
  <2> QED
    BY <1>4, <2>1
<1> HIDE DEF open
<1>7. /\ Sane(pf') /\ pf'.size = pf.size /\ pf'.base = pf.base
      /\ new \in Nat
      /\ pf'.bits = all \ (open \ (shut \cup {new}))
      /\ \/ new \in open \ shut /\ \A f \in open : f < new => f \in shut
         \/ new = NULL /\ \A f \in open : f < pf.size * 8 => f \in shut
  <2>1. /\ Sane(pf) /\ pf.size > 0 /\ open \in SUBSET (0..(pf.size * 8))
        /\ pf.bits = (0..(pf.size * 8)) \ (open \ shut)
    BY <1>4, <1>5, <1>6
  <2> DEFINE q == requestPage(pf)
  <2>2. /\ Sane(q) /\ q.size = pf.size /\ q.base = pf.base
        /\ new \in Nat
        /\ q.bits = (0..(pf.size * 8)) \ (open \ (shut \cup {new}))
        /\ \/ new \in open \ shut /\ \A f \in open : f < new => f \in shut
           \/ new = NULL /\ \A f \in open : f < pf.size * 8 => f \in shut
    BY <2>1, RequestShuts
  <2> HIDE DEF new, q
  <2>3. pf' = q
    BY <1>1 DEF q
  <2> QED
    BY <2>2, <2>3
<1> HIDE DEF new, all
<1>8. /\ granted' \in Seq(Nat) /\ Len(granted') = k /\ k \in Nat
      /\ DOMAIN granted' = 1..k /\ DOMAIN granted = 1..(k - 1)
      /\ granted'[k] = new
      /\ \A m \in 1..(k - 1) : granted'[m] = granted[m]
  BY <1>1, <1>3, <1>7, <1>k
<1>9. /\ free' = free /\ memoryPages' = memoryPages /\ kept' = kept
      /\ bitmapRun' = bitmapRun /\ kernelRun' = kernelRun
  BY <1>1, <1>7 DEF free, memoryPages, kept, bitmapRun, kernelRun, kernelCount
<1>10. ASSUME NEW n \in 1..k
       PROVE  grantedBefore(n)' = grantedBefore(n)
  <2>1. \A m \in 1..(n - 1) : m \in 1..(k - 1)
    BY <1>8
  <2>2. \A m \in 1..(n - 1) : granted'[m] = granted[m]
    BY <1>8, <2>1
  <2>3. grantedBefore(n)' = {granted'[m] : m \in 1..(n - 1)}
    BY DEF grantedBefore
  <2> QED
    BY <2>2, <2>3 DEF grantedBefore
<1>11. shut = bitmapRun \cup kernelRun \cup grantedBefore(k)
  BY <1>1, <1>k DEF shut
<1>12. kept = low \cup bitmapRun \cup kernelRun
  BY DEF kept, bitmapRun, kernelRun
<1>13. shut' = shut \cup {new}
  <2>1. grantedBefore(k + 1)' = grantedBefore(k) \cup {new}
    <3>1. grantedBefore(k + 1)' = {granted'[m] : m \in 1..k}
      <4>1. (k + 1) - 1 = k
        BY <1>8
      <4> QED
        BY <4>1 DEF grantedBefore
    <3>2. grantedBefore(k) = {granted'[m] : m \in 1..(k - 1)}
      BY <1>8 DEF grantedBefore
    <3>3. \A m \in 1..k : m = k \/ m \in 1..(k - 1)
      BY <1>8
    <3>4. k \in 1..k /\ \A m \in 1..(k - 1) : m \in 1..k
      BY <1>3, <1>8, <1>k
    <3> QED
      BY <1>8, <3>1, <3>2, <3>3, <3>4
  <2>2. shut' = bitmapRun' \cup kernelRun' \cup grantedBefore(k + 1)'
    BY <1>1, <1>8 DEF shut, grantedBefore
  <2> QED
    BY <1>9, <1>11, <2>1, <2>2
<1>14. ASSUME NEW n \in 1..(k - 1)
       PROVE  ProperGrant(n)'
  <2>1. ProperGrant(n) /\ granted'[n] = granted[n] /\ n \in 1..k
    BY <1>4, <1>8
  <2>2. grantedBefore(n)' = grantedBefore(n)
    BY <1>10, <2>1
  <2> QED
    BY <1>9, <2>1, <2>2 DEF ProperGrant
<1>15. ProperGrant(k)'
  <2>1. k \in 1..k
    BY <1>3, <1>8, <1>k
  <2>2. grantedBefore(k)' = grantedBefore(k)
    BY <1>10, <2>1
  <2>3. ASSUME NEW f \in free \cap 0..(memoryPages - 1),
               f \in open => f \in shut
        PROVE  f \in kept \cup grantedBefore(k)
    <3>1. f \in open \/ f \in low
      BY <1>5, <2>3
    <3> QED
      BY <1>11, <1>12, <2>3, <3>1
  <2>4. CASE new \in open \ shut /\ \A f \in open : f < new => f \in shut
    <3>1. new \notin kept \cup grantedBefore(k)
      BY <1>5, <1>11, <1>12, <2>4
    <3>2. CASE new \in free
      BY <1>8, <1>9, <2>2, <3>1, <3>2 DEF ProperGrant
    <3>3. CASE new > memoryPages
      <4>1. \A f \in free \cap 0..(memoryPages - 1) : f < new
        BY <1>5, <1>7, <3>3
      <4>2. free \cap 0..(memoryPages - 1) \subseteq kept \cup grantedBefore(k)
        BY <2>3, <2>4, <4>1
      <4>3. new >= memoryPages
        BY <1>5, <1>7, <3>3
      <4> QED
        BY <1>8, <1>9, <2>2, <4>2, <4>3 DEF ProperGrant
    <3> QED
      BY <1>5, <2>4, <3>2, <3>3
  <2>5. CASE new = NULL /\ \A f \in open : f < pf.size * 8 => f \in shut
    <3>1. \A f \in 0..(memoryPages - 1) : f < pf.size * 8
      <4>1. pf.size * 8 \in Nat
        BY <1>4 DEF Sane, Allocators
      <4> QED
        BY <1>5, <4>1
    <3>2. free \cap 0..(memoryPages - 1) \subseteq kept \cup grantedBefore(k)
      BY <2>3, <2>5, <3>1
    <3> QED
      BY <1>8, <1>9, <2>2, <2>5, <3>2 DEF ProperGrant
  <2> QED
    BY <1>7, <2>4, <2>5
<1>16. BitmapInv'
  <2>1. \A n \in DOMAIN granted' : ProperGrant(n)'
    <3>1. \A n \in 1..k : n = k \/ n \in 1..(k - 1)
      BY <1>8
    <3> QED
      BY <1>8, <1>14, <1>15, <3>1
  <2>2. pf'.bits = (0..(pf'.size * 8)) \ (Opened(map', pf'.size, stray' = 1) \ shut')
    BY <1>1, <1>7, <1>13 DEF all, open
  <2> QED
    BY <1>1, <1>4, <1>7, <2>1, <2>2 DEF BitmapInv
<1> QED
  BY <1>1, <1>3, <1>8, <1>16, KernelKeeps

(* A free run as long as longestFree says. *)
LEMMA LongestFacts ==
  ASSUME NEW last, MemoryUpTo(last)
  PROVE  /\ longestFree \in Nat
         /\ longestFree # 0 => \E f \in free : f..(f + longestFree - 1) \subseteq free
<1> DEFINE S == {0} \cup {n \in 1..Cardinality(DOMAIN memory) :
                           \E f \in free : f..(f + n - 1) \subseteq free}
<1>1. last \in Nat /\ DOMAIN memory = 0..last
  BY DEF MemoryUpTo
<1>2. Cardinality(DOMAIN memory) = last + 1
  BY <1>1, FS_Interval
<1>3. S \in SUBSET Nat /\ 0 \in S /\ \A n \in S : n <= last + 1
  BY <1>1, <1>2
<1>4. \A n \in S : n # 0 => \E f \in free : f..(f + n - 1) \subseteq free
  OBVIOUS
<1>5. longestFree = Max(S)
  BY DEF longestFree
<1> HIDE DEF S
<1>6. Max(S) \in S
  <2>1. last + 1 \in Nat
    BY <1>1
  <2> QED
    BY <1>3, <2>1, MaxOfNaturals
<1> QED
  BY <1>3, <1>4, <1>5, <1>6

(* The bitmap is no longer than the longest free run, which it lies in; and *)
(* the grants are what the invariant says.                                  *)
LEMMA HandoffInvSafe == HandoffInv => NothingInUseIsTouched
<1> SUFFICES ASSUME HandoffInv, pf.size > 0, longestFree * PageSize >= pf.size
             PROVE  /\ bitmapFrames \subseteq free
                    /\ \A n \in DOMAIN granted : ProperGrant(n)
  BY DEF NothingInUseIsTouched, ProperGrant, grantedBefore
<1>1. pc \in {"lockKernel", "run"}
  BY DEF HandoffInv, ZeroedAllocator
<1>2. BitmapInv /\ map = describe
  BY <1>1 DEF HandoffInv
<1>3. \A n \in DOMAIN granted : ProperGrant(n)
  BY <1>2 DEF BitmapInv
<1>4. PICK last \in 0..(Word - 10) : MemoryUpTo(last)
  BY DEF HandoffInv
<1>5. pf.size \in Nat /\ pf.base = largestFreeMemorySegment(describe)
  BY <1>2 DEF BitmapInv, Sane, Allocators
<1>6. PICK n \in Nat : n = longestFree
  BY <1>4, LongestFacts
<1>7. n # 0
  BY <1>5, <1>6, PageSizeAssumption
<1>8. PICK f \in free : f..(f + n - 1) \subseteq free
  BY <1>4, <1>6, <1>7, LongestFacts
<1>9. pf.base \in Nat /\ pf.base..(pf.base + n - 1) \subseteq free
  <2>1. n \in Nat \ {0}
    BY <1>7
  <2> QED
    BY <1>4, <1>5, <1>8, <2>1, LargestSegment
<1>10. ASSUME NEW b \in 0..(pf.size - 1)
       PROVE  pf.base + b \div PageSize \in pf.base..(pf.base + n - 1)
  <2>1. b \in Nat /\ b < n * PageSize /\ PageSize \in Nat \ {0}
    BY <1>5, <1>6, PageSizeAssumption
  <2> DEFINE d == b \div PageSize
  <2>2. d \in Nat /\ d * PageSize <= b
    BY <2>1
  <2> HIDE DEF d
  <2>3. d < n
    <3>1. SUFFICES ASSUME d >= n
                   PROVE  FALSE
      BY <2>2
    <3>2. d * PageSize >= n * PageSize
      BY <2>1, <2>2, <3>1
    <3> QED
      BY <2>1, <2>2, <3>2
  <2> QED
    BY <1>9, <2>2, <2>3 DEF d
<1>11. bitmapFrames \subseteq free
  BY <1>9, <1>10 DEF bitmapFrames
<1> QED
  BY <1>3, <1>11

(* Every step keeps the invariant. *)
LEMMA NextHandoffInv == HandoffInv /\ [HandoffNext]_handoffVars => HandoffInv'
<1> SUFFICES ASSUME HandoffInv, [HandoffNext]_handoffVars
             PROVE  HandoffInv'
  OBVIOUS
<1>1. CASE UNCHANGED handoffVars
  <2>1. UNCHANGED <<pf, stray, memoryMapInfo, pc, memory, key, map, mapKey, granted>>
    BY <1>1 DEF handoffVars, vars
  <2>2. /\ describe' = describe /\ shut' = shut
        /\ \A n : ProperGrant(n)' = ProperGrant(n)
    BY <2>1 DEF describe, shut, bitmapRun, kernelRun, kernelCount, grantedBefore, ProperGrant,
                free, kept, memoryPages
  <2>3. \A last : MemoryUpTo(last)' = MemoryUpTo(last)
    BY <2>1 DEF MemoryUpTo
  <2>4. BitmapInv' = BitmapInv
    BY <2>1, <2>2 DEF BitmapInv
  <2> QED
    BY <2>1, <2>2, <2>3, <2>4 DEF HandoffInv
<1> QED
  BY <1>1, LoaderStep, EnterKeeps, ReadMapKeeps, MakeBitmapKeeps, LockKernelKeeps, TakePageKeeps
     DEF HandoffNext

(* kernel_main is a caller like any other: what it does to the allocator is *)
(* what PageFrame allows, given the map GetMemoryMap has written, which     *)
(* PageFrame assumes to be valid and which is.                              *)
LEMMA HandoffCalls ==
  ASSUME \A m : ValidMap(m) => m \in MemoryMaps,
         <<Min(KernelFrames), kernelCount>> \in Calls,
         HandoffInv, [HandoffNext]_handoffVars
  PROVE  [Next]_vars
<1>1. CASE UNCHANGED handoffVars
  BY <1>1 DEF handoffVars
<1>2. CASE LoadKernelImage \/ LoadPSD1Font \/ AllocateMemoryMap \/ GetMemoryMap \/ ExitBootServices
  BY <1>2 DEF LoadKernelImage, LoadPSD1Font, AllocateMemoryMap, GetMemoryMap, ExitBootServices,
              loaderStep
<1>3. CASE FirmwareChangesMap
  BY <1>3 DEF FirmwareChangesMap
<1>4. CASE ReadMap
  <2>1. map = describe /\ InitializeMemory(map)
    BY <1>4 DEF ReadMap, kernelStep, HandoffInv
  <2>2. PICK last \in 0..(Word - 10) : MemoryUpTo(last)
    BY DEF HandoffInv
  <2>3. ValidMap(map)
    BY <2>1, <2>2, DescribeValid
  <2> QED
    BY <2>1, <2>3 DEF Next
<1>5. CASE MakeBitmap
  BY <1>5 DEF MakeBitmap, Next
<1>6. CASE LockKernel
  <2> DEFINE c == <<Min(KernelFrames), kernelCount>>
  <2>1. LockPages(c[1], c[2])
    BY <1>6 DEF LockKernel
  <2> HIDE DEF c
  <2> QED
    BY <2>1 DEF Next, c
<1>7. CASE TakePage
  BY <1>7 DEF TakePage, Next
<1> QED
  BY <1>1, <1>2, <1>3, <1>4, <1>5, <1>6, <1>7 DEF HandoffNext

(* From efi_main to the last page the kernel takes, the map handed over is  *)
(* that of memory as it is, and the bitmap says which frames are whose.     *)
THEOREM HandoffInvariant == HandoffSpec => []HandoffInv
BY InitHandoffInv, NextHandoffInv, PTL DEF HandoffSpec

(* The kernel writes to no frame that is in use, and is given no frame that *)
(* somebody has: NothingInUseIsTouched, for every memory, kernel and number *)
(* of changes and requests.                                                 *)
THEOREM HandoffIsSafe == HandoffSpec => []NothingInUseIsTouched
BY HandoffInvariant, HandoffInvSafe, PTL

(* PageFrame, for all valid maps and with the kernel's lockPages among its   *)
(* calls, allows what kernel_main does; so HintIsSound, CountersAreExact    *)
(* and Implementation hold of it, too.                                      *)
THEOREM HandoffImplementsPageFrame ==
  ASSUME \A m : ValidMap(m) => m \in MemoryMaps,
         <<Min(KernelFrames), kernelCount>> \in Calls
  PROVE  HandoffSpec => Spec
<1>1. HandoffInit => Init
  BY DEF HandoffInit
<1>2. HandoffInv /\ [HandoffNext]_handoffVars => [Next]_vars
  BY HandoffCalls
<1> QED
  BY <1>1, <1>2, HandoffInvariant, PTL DEF HandoffSpec, Spec

=============================================================================
