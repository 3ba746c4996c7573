-------------------------- MODULE PageTableProofs --------------------------
(***************************************************************************)
(* Proofs about PageTable, for every memory map, every number of entries   *)
(* in a table and every user of the allocator: the tables are a tree of    *)
(* private frames until a request is refused, and mapMemory implements     *)
(* AddressSpace.                                                           *)
(***************************************************************************)
EXTENDS PageTable, MemoryProofs

-----------------------------------------------------------------------------
(* The inductive invariant.  Until a request is refused, the allocator is   *)
(* sound, what others hold is taken in the bitmap, and the tables are a     *)
(* tree among the frames that are taken and not held.  Afterwards nothing   *)
(* is promised.                                                             *)
IInv ==
  /\ exhausted \in BOOLEAN
  /\ ~exhausted =>
       /\ Sound(pf, ram)
       /\ held \subseteq (pf.bits \cap Bitmapped(pf)) \ {NULL}
       /\ pageTable # NoTable => Tree(ram, pageTable, Taken(pf, held))

(* The allocator as initializePageFrame leaves it is sound. *)
LEMMA InitIInv == Init => IInv
<1> SUFFICES ASSUME Init
             PROVE  IInv
  OBVIOUS
<1>1. PICK map \in MemoryMaps : pf = initializePageFrame(ZeroedAllocator, map, FALSE)
  BY DEF Init
<1>2. PICK entry \in Junk : ram = [f \in allFrames(pf) |-> junkFrame(entry)]
  BY DEF Init
<1>3. ValidMap(map) /\ (getMemorySize(map) \div 8 + 1) * 8 <= EntryFrames
  BY MemoryMapAssumption
<1>4. /\ Sane(pf)
      /\ pf.size = getMemorySize(map) \div 8 + 1
      /\ pf.size > 0
      /\ NULL \in pf.bits
  <2>1. 0 \in 0..1 /\ (0 = 1) = FALSE
    OBVIOUS
  <2>2. LET q == initializePageFrame(ZeroedAllocator, map, 0 = 1)
        IN  /\ Sane(q)
            /\ q.size = getMemorySize(map) \div 8 + 1 /\ q.size > 0
            /\ LowPages > 0 => NULL \in q.bits
    BY <1>3, <2>1, InitializeFacts
  <2> QED
    BY <1>1, <2>1, <2>2, NullAssumption
<1>5. NULL \in Bitmapped(pf)
  BY <1>4 DEF Bitmapped, NULL, Sane, Allocators
<1>6. ram \in Memory(Bitmapped(pf))
  BY <1>2, ContentAssumption DEF Memory, Bitmapped, allFrames, junkFrame
<1>7. Sound(pf, ram)
  BY <1>3, <1>4, <1>5, <1>6 DEF Sound
<1> QED
  BY <1>7 DEF Init, IInv

-----------------------------------------------------------------------------
(* One action after the other.  Each keeps the invariant, and shows in the  *)
(* address space as much as AddressSpace allows.                            *)

(* The root is an empty table, so every page is unmapped. *)
LEMMA RootStep ==
  ASSUME IInv, ~exhausted, InitializePageTable, ~exhausted'
  PROVE  /\ IInv'
         /\ pageTable' # NoTable
         /\ \A page \in Pages : translate(ram', pageTable', page) = Unmapped
<1> DEFINE root == requestedPage(pf)
           D == Bitmapped(pf)
           q == requestPage(pf)
           ram2 == memsetTable(ram, root)
<1>1. /\ pf' = q
      /\ pageTable' = root
      /\ ram' = ram2
      /\ held' = held
      /\ exhausted' = (exhausted \/ root = NULL)
  BY DEF InitializePageTable
<1>2. Sound(pf, ram) /\ held \subseteq (pf.bits \cap D) \ {NULL}
  BY DEF IInv
<1>3. root # NULL
  BY <1>1
<1>4. /\ root \in D
      /\ Bitmapped(q) = D
      /\ \A r \in Memory(D) : Sound(q, r)
      /\ root \notin pf.bits
      /\ q.bits = pf.bits \cup {root}
  BY <1>2, <1>3, RequestedFacts
<1>5. ram \in Memory(D)
  BY <1>2 DEF Sound
<1> HIDE DEF root, D, q
<1>6. ram2 \in Memory(D) /\ \A i \in Slots : ram2[root][i] = ZeroEntry
  BY <1>4, <1>5, ClearedFacts
<1> HIDE DEF ram2
<1>7. \A i \in Slots : ~ram2[root][i].present
  BY <1>6 DEF ZeroEntry
<1>8. upperTables(ram2, root) = {root}
  <2>1. below(ram2, {root}) = {}
    BY <1>7, BelowFacts
  <2>2. below(ram2, {}) = {}
    BY BelowFacts
  <2> QED
    BY <2>1, <2>2 DEF upperTables, PDPs, PDs
<1>9. root \in Taken(q, held)
  BY <1>2, <1>3, <1>4 DEF Taken
<1>10. Tree(ram2, root, Taken(q, held))
  BY <1>7, <1>8, <1>9 DEF Tree
<1>11. Sound(q, ram2) /\ held \subseteq (q.bits \cap Bitmapped(q)) \ {NULL}
  BY <1>2, <1>4, <1>6
<1>12. IInv'
  BY <1>1, <1>3, <1>10, <1>11 DEF IInv
<1>13. root # NoTable
  BY <1>4 DEF D, Bitmapped, NoTable
<1>14. ASSUME NEW page \in Pages
       PROVE  translate(ram2, root, page) = Unmapped
  <2>1. page \in Nat
    BY PagesAssumption, FanoutAssumption
  <2>2. getPageTableIndex(page).PDP_i \in Slots
    BY <2>1, IndexType
  <2> QED
    BY <1>7, <2>2 DEF translate
<1> QED
  BY <1>1, <1>12, <1>13, <1>14

(* mapMemory does what its name says, or is refused. *)
LEMMA MapStep ==
  ASSUME IInv, ~exhausted,
         NEW page \in Pages, NEW frame \in Frames, MapMemory(page, frame)
  PROVE  /\ pageTable # NoTable /\ pageTable' = pageTable
         /\ \/ /\ ~exhausted'
               /\ IInv'
               /\ translate(ram', pageTable, page) = frame % EntryFrames
               /\ \A q \in Pages :
                    q # page => translate(ram', pageTable, q) = translate(ram, pageTable, q)
            \/ /\ exhausted'
               /\ \A q \in Pages :
                    translate(ram, pageTable, q) # Unmapped =>
                      translate(ram', pageTable, q) = translate(ram, pageTable, q)
<1> DEFINE Last == Fanout * Fanout * Fanout * Fanout - 1
           s == mapMemory(pf, ram, pageTable, page, frame)
<1>1. /\ pageTable # NoTable
      /\ pf' = s.pf
      /\ ram' = s.ram
      /\ exhausted' = (exhausted \/ s.refused)
      /\ pageTable' = pageTable
      /\ held' = held
  BY DEF MapMemory
<1>2. /\ Sound(pf, ram)
      /\ held \subseteq (pf.bits \cap Bitmapped(pf)) \ {NULL}
      /\ Tree(ram, pageTable, Taken(pf, held))
  BY <1>1 DEF IInv
<1>3. /\ held \in SUBSET pf.bits
      /\ page \in 0..Last /\ frame \in Nat
      /\ Pages \subseteq 0..Last
  BY <1>2, PagesAssumption, ContentAssumption
<1>4. \A q \in Pages : q \in Nat
  BY PagesAssumption, FanoutAssumption
<1>5. \/ /\ s.refused = FALSE
         /\ Mapped(pf, ram, pageTable, held, page, frame, s.pf, s.ram)
      \/ /\ s.refused = TRUE
         /\ KeepsPresent(upperTables(ram, pageTable) \cup PTs(ram, pageTable), ram, s.ram)
  BY <1>2, <1>3, MapMemoryKeeps
<1> HIDE DEF s
<1>6. CASE /\ s.refused = FALSE
           /\ Mapped(pf, ram, pageTable, held, page, frame, s.pf, s.ram)
  <2>1. ~exhausted'
    BY <1>1, <1>6
  <2>2. /\ Bitmapped(s.pf) = Bitmapped(pf)
        /\ Sound(s.pf, s.ram)
        /\ pf.bits \subseteq s.pf.bits
        /\ Tree(s.ram, pageTable, Taken(s.pf, held))
        /\ translate(s.ram, pageTable, page) = frame % EntryFrames
        /\ \A q \in 0..Last :
             q # page => translate(s.ram, pageTable, q) = translate(ram, pageTable, q)
    BY <1>6 DEF Mapped
  <2> HIDE DEF Last
  <2>3. exhausted' = FALSE
    BY <1>1, <1>6
  <2>4. held \subseteq (s.pf.bits \cap Bitmapped(s.pf)) \ {NULL}
    BY <1>2, <2>2
  <2>5. IInv'
    BY <1>1, <2>2, <2>3, <2>4 DEF IInv
  <2>6. \A q \in Pages :
          q # page => translate(ram', pageTable, q) = translate(ram, pageTable, q)
    BY <1>1, <1>3, <2>2
  <2> QED
    BY <1>1, <2>1, <2>2, <2>5, <2>6
<1>7. CASE /\ s.refused = TRUE
           /\ KeepsPresent(upperTables(ram, pageTable) \cup PTs(ram, pageTable), ram, s.ram)
  <2>1. exhausted'
    BY <1>1, <1>7
  <2>2. \A q \in Pages :
          translate(ram, pageTable, q) # Unmapped =>
            translate(ram', pageTable, q) = translate(ram, pageTable, q)
    BY <1>1, <1>4, <1>7, WalkKept
  <2> QED
    BY <1>1, <2>1, <2>2
<1> QED
  BY <1>5, <1>6, <1>7

(* Whoever takes a frame takes none of the tables, so whatever it writes    *)
(* there shows in no walk.                                                  *)
LEMMA RequestStep ==
  ASSUME IInv, ~exhausted, NEW entry \in Junk, RequestPage(entry)
  PROVE  /\ IInv'
         /\ pageTable' = pageTable /\ exhausted' = exhausted
         /\ pageTable # NoTable =>
              \A page \in Pages :
                translate(ram', pageTable, page) = translate(ram, pageTable, page)
<1> DEFINE new == requestedPage(pf)
           D == Bitmapped(pf)
           q == requestPage(pf)
           U == upperTables(ram, pageTable)
           P == PTs(ram, pageTable)
<1>1. /\ pf' = q
      /\ held' = held \cup ({new} \ {NULL})
      /\ ram' = [f \in DOMAIN ram |-> IF f \in held' \ held THEN junkFrame(entry) ELSE ram[f]]
      /\ pageTable' = pageTable /\ exhausted' = exhausted
  BY DEF RequestPage
<1>2. /\ Sound(pf, ram)
      /\ held \subseteq (pf.bits \cap D) \ {NULL}
      /\ pageTable # NoTable => Tree(ram, pageTable, Taken(pf, held))
  BY DEF IInv
<1>3. /\ new \in D
      /\ Bitmapped(q) = D
      /\ \A r \in Memory(D) : Sound(q, r)
      /\ \/ new = NULL /\ q.bits = pf.bits
         \/ new # NULL /\ new \notin pf.bits /\ q.bits = pf.bits \cup {new}
  BY <1>2, RequestedFacts
<1>4. ram \in Memory(D) /\ NULL \in pf.bits
  BY <1>2 DEF Sound
<1> HIDE DEF new, D, q
<1>5. junkFrame(entry) \in [Slots -> Entry]
  BY ContentAssumption DEF junkFrame
<1>6. ram' \in Memory(D) /\ \A f \in D \ (held' \ held) : ram'[f] = ram[f]
  <2>1. DOMAIN ram = D /\ \A f \in D : ram[f] \in [Slots -> Entry]
    BY <1>4 DEF Memory
  <2> QED
    BY <1>1, <1>5, <2>1 DEF Memory
<1>7. Sound(q, ram')
  BY <1>3, <1>6
<1>8. held' \subseteq (q.bits \cap D) \ {NULL}
  BY <1>1, <1>2, <1>3
<1>9. Taken(q, held') = Taken(pf, held)
  <2>1. Taken(q, held') = (q.bits \cap D) \ (held' \cup {NULL})
    BY <1>3 DEF Taken
  <2>2. Taken(pf, held) = (pf.bits \cap D) \ (held \cup {NULL})
    BY DEF Taken, D
  <2> QED
    BY <1>1, <1>3, <2>1, <2>2
<1>10. CASE pageTable = NoTable
  BY <1>1, <1>3, <1>7, <1>8, <1>10 DEF IInv
<1>11. CASE pageTable # NoTable
  <2>1. U \subseteq Taken(pf, held) /\ P \subseteq Taken(pf, held)
    BY <1>2, <1>11, TreeFacts
  <2>2. \A f \in U \cup P : ram'[f] = ram[f]
    <3>1. \A f \in Taken(pf, held) : f \in D \ (held' \ held)
      BY <1>1, <1>3 DEF Taken, D
    <3> QED
      BY <1>6, <2>1, <3>1
  <2>3. Tree(ram', pageTable, Taken(q, held'))
    BY <1>2, <1>9, <1>11, <2>2, TreeStays
  <2>4. IInv'
    BY <1>1, <1>3, <1>7, <1>8, <2>3 DEF IInv
  <2>5. ASSUME NEW page \in Pages
        PROVE  translate(ram', pageTable, page) = translate(ram, pageTable, page)
    <3>1. page \in Nat
      BY PagesAssumption, FanoutAssumption
    <3>2. \A f \in U \cup P, i \in Slots :
            IF ram[f][i].present
              THEN ram'[f][i] = ram[f][i]
              ELSE \/ ram'[f][i] = ram[f][i]
                   \/ /\ f \notin P
                      /\ \A j \in Slots : ~ram'[ram'[f][i].address][j].present
      BY <2>2
    <3> QED
      BY <3>1, <3>2, WalkSame
  <2> QED
    BY <1>1, <2>4, <2>5
<1> QED
  BY <1>1, <1>10, <1>11

(* Whoever frees a frame it holds frees none of the tables. *)
LEMMA FreeStep ==
  ASSUME IInv, ~exhausted, NEW frame \in held, FreePage(frame)
  PROVE  IInv' /\ UNCHANGED <<ram, pageTable, exhausted>>
<1> DEFINE q == freePages(pf, {frame})
<1>1. /\ pf' = q
      /\ held' = held \ {frame}
      /\ UNCHANGED <<ram, pageTable, exhausted>>
  BY DEF FreePage
<1>2. /\ Sound(pf, ram)
      /\ held \subseteq (pf.bits \cap Bitmapped(pf)) \ {NULL}
      /\ pageTable # NoTable => Tree(ram, pageTable, Taken(pf, held))
  BY DEF IInv
<1>3. /\ Sane(pf)
      /\ pf.size * 8 <= EntryFrames
      /\ NULL \in Bitmapped(pf)
      /\ NULL \in pf.bits
      /\ ram \in Memory(Bitmapped(pf))
  BY <1>2 DEF Sound
<1>4. {frame} \in SUBSET Nat
  BY <1>2, <1>3 DEF Bitmapped, Sane, Allocators
<1>5. /\ Sane(q)
      /\ q.size = pf.size
      /\ q.bits = pf.bits \ Clearable(pf, {frame})
  BY <1>3, <1>4, GiveFacts
<1> HIDE DEF q
<1>6. Bitmapped(q) = Bitmapped(pf)
  BY <1>5 DEF Bitmapped
<1>7. Clearable(pf, {frame}) \subseteq {frame} /\ frame # NULL
  BY <1>2 DEF Clearable
<1>8. Clearable(pf, {frame}) = {frame} \cap pf.bits
  BY <1>2, <1>3 DEF Clearable, getBitmap, Addressable, Bitmapped, Sane, Allocators
<1>9. Sound(q, ram)
  BY <1>3, <1>5, <1>6, <1>7 DEF Sound
<1>10. held' \subseteq (q.bits \cap Bitmapped(q)) \ {NULL}
  BY <1>1, <1>2, <1>5, <1>6, <1>7
<1>11. Taken(q, held') = Taken(pf, held)
  <2>1. frame \in held /\ frame \notin q.bits
    BY <1>2, <1>5, <1>8
  <2>2. q.bits = pf.bits \ {frame}
    BY <1>5, <1>8
  <2> QED
    BY <1>1, <1>6, <2>1, <2>2 DEF Taken
<1>12. IInv'
  BY <1>1, <1>2, <1>9, <1>10, <1>11 DEF IInv
<1> QED
  BY <1>1, <1>12

-----------------------------------------------------------------------------
(* The theorems.                                                            *)

(* What was refused stays refused. *)
LEMMA ExhaustedForGood ==
  ASSUME exhausted \in BOOLEAN, exhausted, [Next]_vars
  PROVE  exhausted' = TRUE
BY DEF Next, vars, InitializePageTable, MapMemory, RequestPage, FreePage

(* Every step preserves the invariant. *)
LEMMA NextIInv == IInv /\ [Next]_vars => IInv'
<1> SUFFICES ASSUME IInv, [Next]_vars
             PROVE  IInv'
  OBVIOUS
<1>1. exhausted \in BOOLEAN
  BY DEF IInv
<1>2. CASE exhausted
  BY <1>1, <1>2, ExhaustedForGood DEF IInv
<1>3. CASE ~exhausted
  <2>1. CASE InitializePageTable
    <3>1. exhausted' \in BOOLEAN
      BY <2>1 DEF InitializePageTable
    <3>2. CASE exhausted'
      BY <3>1, <3>2 DEF IInv
    <3>3. CASE ~exhausted'
      BY <1>3, <2>1, <3>3, RootStep
    <3> QED
      BY <3>2, <3>3
  <2>2. ASSUME NEW page \in Pages, NEW frame \in Frames, MapMemory(page, frame)
        PROVE  IInv'
    <3>1. exhausted' \in BOOLEAN
      BY <2>2 DEF MapMemory
    <3>2. CASE exhausted'
      BY <3>1, <3>2 DEF IInv
    <3>3. CASE ~exhausted'
      BY <1>3, <2>2, <3>3, MapStep
    <3> QED
      BY <3>2, <3>3
  <2>3. ASSUME NEW entry \in Junk, RequestPage(entry)
        PROVE  IInv'
    BY <1>3, <2>3, RequestStep
  <2>4. ASSUME NEW frame \in held, FreePage(frame)
        PROVE  IInv'
    BY <1>3, <2>4, FreeStep
  <2>5. CASE UNCHANGED vars
    BY <2>5 DEF vars, IInv
  <2> QED
    BY <2>1, <2>2, <2>3, <2>4, <2>5 DEF Next
<1> QED
  BY <1>2, <1>3

(* The inductive invariant holds in every reachable state. *)
THEOREM Invariant == Spec => []IInv
BY InitIInv, NextIInv, PTL DEF Spec

(* The page tables that mapMemory builds are a tree of private frames.      *)
THEOREM TreeOfPrivateFrames == Spec => []TablesArePrivate
<1>1. IInv => TablesArePrivate
  <2> SUFFICES ASSUME IInv, pageTable # NoTable, ~exhausted
               PROVE  LET all == links(ram, upperTables(ram, pageTable))
                      IN  /\ \A k, l \in all : target(ram, k) = target(ram, l) => k = l
                          /\ \A l \in all : /\ target(ram, l) \in pf.bits \ held
                                            /\ target(ram, l) \notin {NULL, pageTable}
                          /\ pageTable \in pf.bits \ held
    BY DEF TablesArePrivate
  <2> DEFINE U == upperTables(ram, pageTable)
             all == links(ram, U)
             taken == Taken(pf, held)
  <2>1. Tree(ram, pageTable, taken)
    BY DEF IInv
  <2>2. /\ pageTable \in taken
        /\ \A f \in U, i \in Slots :
             ram[f][i].present => ram[f][i].address \in taken \ {pageTable}
        /\ \A f, g \in U, i, j \in Slots :
             /\ ram[f][i].present
             /\ ram[g][j].present
             /\ ram[f][i].address = ram[g][j].address
             => f = g /\ i = j
    BY <2>1 DEF Tree
  <2>3. taken \subseteq (pf.bits \ held) \ {NULL}
    BY DEF Taken
  <2> HIDE DEF U, taken
  <2>4. \A l \in all : /\ l = <<l[1], l[2]>> /\ l[1] \in U /\ l[2] \in Slots
                       /\ ram[l[1]][l[2]].present
                       /\ target(ram, l) = ram[l[1]][l[2]].address
    BY DEF links, target
  <2> HIDE DEF all
  <2>5. ASSUME NEW k \in all, NEW l \in all, target(ram, k) = target(ram, l)
        PROVE  k = l
    <3>1. k[1] = l[1] /\ k[2] = l[2]
      BY <2>2, <2>4, <2>5
    <3> QED
      BY <2>4, <3>1
  <2>6. \A l \in all : target(ram, l) \in taken \ {pageTable}
    BY <2>2, <2>4
  <2> QED
    BY <2>2, <2>3, <2>5, <2>6 DEF all, U
<1> QED
  BY <1>1, Invariant, PTL

(* Until memory runs out, mapMemory maps the page it is given and no other. *)
THEOREM Implementation == Spec => ImplementsAddressSpace
<1>1. Init => AddressSpaceSpec!Init
  BY DEF Init, AddressSpaceSpec!Init, mapping
<1>2. IInv /\ [Next]_vars => [AddressSpaceSpec!Next]_(AddressSpaceSpec!vars)
  <2> SUFFICES ASSUME IInv, [Next]_vars
               PROVE  AddressSpaceSpec!Next \/ UNCHANGED <<mapping, ~exhausted>>
    BY DEF AddressSpaceSpec!vars
  <2>1. exhausted \in BOOLEAN
    BY DEF IInv
  <2>2. PICK anyPage \in Pages : TRUE
    BY PagesAssumption
  <2>3. CASE exhausted
    <3>1. exhausted' = TRUE
      BY <2>1, <2>3, ExhaustedForGood
    <3>2. AddressSpaceSpec!RunOut(anyPage)
      BY <2>3, <3>1 DEF AddressSpaceSpec!RunOut
    <3> QED
      BY <3>2 DEF AddressSpaceSpec!Next
  <2>4. CASE ~exhausted
    <3>1. CASE InitializePageTable
      <4>1. mapping = [page \in Pages |-> Unmapped]
        BY <3>1 DEF InitializePageTable, mapping
      <4>2. CASE exhausted'
        <5>1. AddressSpaceSpec!RunOut(anyPage)
          BY <4>1, <4>2 DEF AddressSpaceSpec!RunOut
        <5> QED
          BY <5>1 DEF AddressSpaceSpec!Next
      <4>3. CASE ~exhausted'
        <5>1. mapping' = [page \in Pages |-> Unmapped]
          BY <2>4, <3>1, <4>3, RootStep DEF mapping
        <5> QED
          BY <2>4, <4>1, <4>3, <5>1
      <4> QED
        BY <4>2, <4>3
    <3>2. ASSUME NEW page \in Pages, NEW frame \in Frames, MapMemory(page, frame)
          PROVE  AddressSpaceSpec!Next
      <4>1. /\ pageTable # NoTable /\ pageTable' = pageTable
            /\ \/ /\ ~exhausted'
                  /\ IInv'
                  /\ translate(ram', pageTable, page) = frame % EntryFrames
                  /\ \A q \in Pages :
                       q # page => translate(ram', pageTable, q) = translate(ram, pageTable, q)
               \/ /\ exhausted'
                  /\ \A q \in Pages :
                       translate(ram, pageTable, q) # Unmapped =>
                         translate(ram', pageTable, q) = translate(ram, pageTable, q)
        BY <2>4, <3>2, MapStep
      <4>2. /\ mapping = [q \in Pages |-> translate(ram, pageTable, q)]
            /\ mapping' = [q \in Pages |-> translate(ram', pageTable, q)]
        BY <4>1 DEF mapping
      <4>3. CASE /\ ~exhausted'
                 /\ translate(ram', pageTable, page) = frame % EntryFrames
                 /\ \A q \in Pages :
                      q # page => translate(ram', pageTable, q) = translate(ram, pageTable, q)
        <5>1. frame % EntryFrames \in 0..(EntryFrames - 1)
          BY ContentAssumption, EntryFramesAssumption
        <5>2. mapping' = [mapping EXCEPT ![page] = frame % EntryFrames]
          BY <4>2, <4>3
        <5>3. AddressSpaceSpec!Map(page, frame % EntryFrames)
          BY <2>4, <4>3, <5>2 DEF AddressSpaceSpec!Map
        <5> QED
          BY <5>1, <5>3 DEF AddressSpaceSpec!Next
      <4>4. CASE /\ exhausted'
                 /\ \A q \in Pages :
                      translate(ram, pageTable, q) # Unmapped =>
                        translate(ram', pageTable, q) = translate(ram, pageTable, q)
        <5>1. AddressSpaceSpec!RunOut(page)
          BY <4>2, <4>4 DEF AddressSpaceSpec!RunOut
        <5> QED
          BY <5>1 DEF AddressSpaceSpec!Next
      <4> QED
        BY <4>1, <4>3, <4>4
    <3>3. ASSUME NEW entry \in Junk, RequestPage(entry)
          PROVE  UNCHANGED <<mapping, ~exhausted>>
      <4>1. /\ pageTable' = pageTable /\ exhausted' = exhausted
            /\ pageTable # NoTable =>
                 \A page \in Pages :
                   translate(ram', pageTable, page) = translate(ram, pageTable, page)
        BY <2>4, <3>3, RequestStep
      <4>2. mapping' = mapping
        BY <4>1 DEF mapping
      <4> QED
        BY <4>1, <4>2
    <3>4. ASSUME NEW frame \in held, FreePage(frame)
          PROVE  UNCHANGED <<mapping, ~exhausted>>
      <4>1. UNCHANGED <<ram, pageTable, exhausted>>
        BY <2>4, <3>4, FreeStep
      <4>2. mapping' = mapping
        BY <4>1 DEF mapping
      <4> QED
        BY <4>1, <4>2
    <3>5. CASE UNCHANGED vars
      BY <3>5 DEF vars, mapping
    <3> QED
      BY <3>1, <3>2, <3>3, <3>4, <3>5 DEF Next
  <2> QED
    BY <2>3, <2>4
<1> QED
  BY <1>1, <1>2, Invariant, PTL
     DEF Spec, ImplementsAddressSpace, AddressSpaceSpec!Spec
=============================================================================
