-------------------------- MODULE KernelBootProofs --------------------------
(***************************************************************************)
(* Proofs about KernelBoot, for every machine and every number of entries  *)
(* in a table: with enough memory for its page tables kernel_main is       *)
(* refused no frame, its tables lie in free memory, each counted once, and *)
(* every page of memory and of the frame buffer is mapped to itself.       *)
(***************************************************************************)
EXTENDS KernelBoot, MemoryProofs

-----------------------------------------------------------------------------
(* Tables are numbered as tablesFor does it: <<level, number>>, where the   *)
(* number of a table divided by Fanout is that of the table it hangs in,    *)
(* and the remainder is its slot there.                                     *)

LEMMA Digits ==
  ASSUME NEW n \in Nat
  PROVE  /\ n \div Fanout \in Nat
         /\ n % Fanout \in Slots
         /\ n = (n \div Fanout) * Fanout + (n % Fanout)
<1>1. n \div Fanout \in Nat
  BY FanoutAssumption
<1>2. n % Fanout \in Slots
  BY FanoutAssumption DEF Slots
<1>3. n = (n \div Fanout) * Fanout + (n % Fanout)
  BY FanoutAssumption
<1> QED
  BY <1>1, <1>2, <1>3

(* A quotient and a remainder determine each other. *)
LEMMA DigitsUnique ==
  ASSUME NEW n \in Nat, NEW k \in Slots
  PROVE  /\ n * Fanout + k \in Nat
         /\ (n * Fanout + k) \div Fanout = n
         /\ (n * Fanout + k) % Fanout = k
<1> DEFINE m == n * Fanout + k
           q == m \div Fanout
           r == m % Fanout
<1>1. k \in 0..(Fanout - 1) /\ m \in Nat
  BY FanoutAssumption DEF Slots
<1>2. q \in Int /\ r \in 0..(Fanout - 1) /\ m = q * Fanout + r
  <2> HIDE DEF m
  <2>1. q \in Nat /\ r \in Slots /\ m = q * Fanout + r
    BY <1>1, Digits
  <2> QED
    BY <2>1 DEF Slots
<1>3. m = n * Fanout + k
  OBVIOUS
<1> HIDE DEF m, q, r
<1>4. k = (q - n) * Fanout + r
  BY <1>1, <1>2, <1>3, FanoutAssumption
<1>5. r = k
  <2> DEFINE e == q - n
  <2>1. e \in Int /\ k = e * Fanout + r
    BY <1>2, <1>4
  <2> HIDE DEF e
  <2> QED
    BY <1>1, <1>2, <2>1, RemainderUnique, FanoutAssumption
<1>6. q = n
  <2>1. (q - n) * Fanout = 0
    <3> DEFINE x == (q - n) * Fanout
    <3>1. x \in Int /\ k = x + r
      BY <1>2, <1>4, FanoutAssumption
    <3> HIDE DEF x
    <3>2. x = 0
      BY <1>1, <1>5, <3>1
    <3> QED
      BY <3>2 DEF x
  <2> DEFINE e == q - n
  <2>2. e \in Int /\ e * Fanout = 0
    BY <1>2, <2>1
  <2> HIDE DEF e
  <2>3. e = 0
    BY <2>2, FanoutAssumption
  <2> QED
    BY <1>2, <2>3 DEF e
<1> QED
  BY <1>1, <1>5, <1>6 DEF m, q, r

Tables == (0..3) \X Nat

(* The table that hangs in slot k of table x, and the one x hangs in. *)
child(x, k) == <<x[1] + 1, x[2] * Fanout + k>>
parent(x)   == <<x[1] - 1, x[2] \div Fanout>>

LEMMA ChildFacts ==
  ASSUME NEW x \in Tables, x[1] < 3, NEW k \in Slots
  PROVE  /\ child(x, k) \in Tables
         /\ child(x, k) # x
         /\ child(x, k)[1] = x[1] + 1
         /\ child(x, k)[1] > 0
         /\ child(x, k) # <<0, 0>>
         /\ parent(child(x, k)) = x
         /\ \A z \in Tables, j \in Slots : child(z, j) = child(x, k) => z = x /\ j = k
<1>1. x[1] \in 0..3 /\ x[2] \in Nat /\ x = <<x[1], x[2]>>
  BY DEF Tables
<1>2. /\ x[2] * Fanout + k \in Nat
      /\ (x[2] * Fanout + k) \div Fanout = x[2]
      /\ (x[2] * Fanout + k) % Fanout = k
  BY <1>1, DigitsUnique
<1>3. child(x, k) \in Tables
  BY <1>1, <1>2 DEF child, Tables
<1>4. child(x, k)[1] = x[1] + 1 /\ child(x, k)[2] = x[2] * Fanout + k
  BY DEF child
<1>5. parent(child(x, k)) = x
  BY <1>1, <1>2, <1>4 DEF parent
<1>6. ASSUME NEW z \in Tables, NEW j \in Slots, child(z, j) = child(x, k)
      PROVE  z = x /\ j = k
  <2>1. z[1] \in 0..3 /\ z[2] \in Nat /\ z = <<z[1], z[2]>>
    BY DEF Tables
  <2>2. child(z, j)[1] = z[1] + 1 /\ child(z, j)[2] = z[2] * Fanout + j
    BY DEF child
  <2>3. /\ (z[2] * Fanout + j) \div Fanout = z[2]
        /\ (z[2] * Fanout + j) % Fanout = j
    BY <2>1, DigitsUnique
  <2>4. z[1] = x[1]
    BY <1>1, <1>4, <1>6, <2>1, <2>2
  <2>5. z[2] = x[2] /\ j = k
    BY <1>2, <1>4, <1>6, <2>2, <2>3
  <2> QED
    BY <1>1, <2>1, <2>4, <2>5
<1>7. child(x, k)[1] > 0 /\ child(x, k)[1] # x[1]
  BY <1>1, <1>4
<1>8. child(x, k) # x
  BY <1>7
<1>9. child(x, k) # <<0, 0>>
  BY <1>7
<1> QED
  BY <1>3, <1>4, <1>5, <1>6, <1>7, <1>8, <1>9

-----------------------------------------------------------------------------
(* The tables in memory are those with the numbers of nodes: table x is in  *)
(* frame at[x], a frame of its own, and the present entries of the tables   *)
(* above the leaf tables lead to the tables of nodes, and to no others.     *)

Linked(mem, at, nodes, x, k) ==
  /\ mem[at[x]][k].present <=> child(x, k) \in nodes
  /\ mem[at[x]][k].present => mem[at[x]][k].address = at[child(x, k)]

Shaped(mem, root, at, nodes, taken) ==
  /\ nodes \subseteq Tables
  /\ <<0, 0>> \in nodes /\ at[<<0, 0>>] = root
  /\ \A x \in nodes : at[x] \in taken
  /\ \A x, y \in nodes : at[x] = at[y] => x = y
  /\ \A x \in nodes : x[1] > 0 => parent(x) \in nodes
  /\ \A x \in nodes, k \in Slots : x[1] < 3 => Linked(mem, at, nodes, x, k)

(* A fresh table hung into an absent entry is one more. *)
extended(at, nodes, y, new) ==
  [z \in nodes \cup {y} |-> IF z = y THEN new ELSE at[z]]

LEMMA ShapeGrows ==
  ASSUME NEW D, NEW taken \in SUBSET D, NEW mem, NEW mem2, NEW root, NEW at, NEW nodes,
         Shaped(mem, root, at, nodes, taken),
         NEW x \in nodes, x[1] < 3, NEW k \in Slots, NEW new \in D \ taken,
         Hangs(D, mem, mem2, at[x], k, new)
  PROVE  /\ child(x, k) \notin nodes
         /\ Shaped(mem2, root, extended(at, nodes, child(x, k), new),
                   nodes \cup {child(x, k)}, taken \cup {new})
<1> DEFINE y == child(x, k)
           at2 == extended(at, nodes, y, new)
           nodes2 == nodes \cup {y}
<1>1. /\ nodes \subseteq Tables
      /\ <<0, 0>> \in nodes /\ at[<<0, 0>>] = root
      /\ \A z \in nodes : at[z] \in taken
      /\ \A z, w \in nodes : at[z] = at[w] => z = w
      /\ \A z \in nodes : z[1] > 0 => parent(z) \in nodes
      /\ \A z \in nodes, j \in Slots : z[1] < 3 => Linked(mem, at, nodes, z, j)
  BY DEF Shaped
<1>2. /\ ~mem[at[x]][k].present
      /\ mem2[at[x]][k].present
      /\ mem2[at[x]][k].address = new
      /\ \A f \in D \ {new}, j \in Slots :
           mem2[f][j] = mem[f][j] \/ (f = at[x] /\ j = k)
      /\ \A j \in Slots : ~mem2[new][j].present
  BY DEF Hangs
<1>3. /\ y \in Tables /\ y # x /\ y[1] = x[1] + 1 /\ y[1] > 0 /\ y # <<0, 0>> /\ parent(y) = x
      /\ \A z \in Tables, j \in Slots : child(z, j) = y => z = x /\ j = k
  BY <1>1, ChildFacts
<1>4. y \notin nodes
  BY <1>1, <1>2 DEF Linked
<1>5. /\ at2[y] = new
      /\ \A z \in nodes : at2[z] = at[z]
  BY <1>4 DEF extended
<1> HIDE DEF y, at2
<1>6. nodes2 \subseteq Tables /\ <<0, 0>> \in nodes2 /\ at2[<<0, 0>>] = root
  BY <1>1, <1>3, <1>5
<1>7. \A z \in nodes2 : at2[z] \in taken \cup {new}
  BY <1>1, <1>5
<1>8. \A z, w \in nodes2 : at2[z] = at2[w] => z = w
  BY <1>1, <1>5
<1>9. \A z \in nodes2 : z[1] > 0 => parent(z) \in nodes2
  BY <1>1, <1>3
<1>10. ASSUME NEW z \in nodes2, NEW j \in Slots, z[1] < 3
       PROVE  Linked(mem2, at2, nodes2, z, j)
  <2>1. CASE z = y
    <3>1. child(z, j) \notin nodes
      <4>1. parent(child(z, j)) = z /\ child(z, j)[1] > 0
        BY <1>3, <1>10, <2>1, ChildFacts
      <4> QED
        BY <1>1, <1>4, <2>1, <4>1
    <3>2. child(z, j) # y
      BY <1>3, <1>10, <2>1, ChildFacts
    <3>3. ~mem2[at2[z]][j].present
      BY <1>2, <1>5, <2>1
    <3> QED
      BY <3>1, <3>2, <3>3 DEF Linked
  <2>2. CASE z \in nodes /\ z = x /\ j = k
    <3>1. child(z, j) = y
      BY <2>2 DEF y
    <3> QED
      BY <1>2, <1>5, <2>2, <3>1 DEF Linked
  <2>3. CASE z \in nodes /\ ~(z = x /\ j = k)
    <3>1. child(z, j) # y
      BY <1>1, <1>3, <2>3
    <3>2. at[z] \in D \ {new} /\ ~(at[z] = at[x] /\ j = k)
      BY <1>1, <2>3
    <3>3. mem2[at2[z]][j] = mem[at[z]][j]
      BY <1>2, <1>5, <2>3, <3>2
    <3>4. Linked(mem, at, nodes, z, j)
      BY <1>1, <1>10, <2>3
    <3>5. child(z, j) \in nodes => at2[child(z, j)] = at[child(z, j)]
      BY <1>5
    <3> QED
      BY <3>1, <3>3, <3>4, <3>5 DEF Linked
  <2> QED
    BY <2>1, <2>2, <2>3
<1> QED
  BY <1>4, <1>6, <1>7, <1>8, <1>9, <1>10 DEF Shaped, y, at2

(* No entry of the frames of D has changed but one. *)
OneEntry(D, mem, mem2, table, k) ==
  \A f \in D, j \in Slots : mem2[f][j] = mem[f][j] \/ (f = table /\ j = k)

(* An entry of a leaf table is none of the entries between tables. *)
LEMMA ShapeStays ==
  ASSUME NEW D, NEW taken \in SUBSET D, NEW mem, NEW mem2, NEW root, NEW at, NEW nodes,
         Shaped(mem, root, at, nodes, taken),
         NEW x \in nodes, x[1] = 3, NEW k, OneEntry(D, mem, mem2, at[x], k)
  PROVE  Shaped(mem2, root, at, nodes, taken)
<1>1. /\ \A z \in nodes : at[z] \in taken
      /\ \A z, w \in nodes : at[z] = at[w] => z = w
      /\ \A z \in nodes, j \in Slots : z[1] < 3 => Linked(mem, at, nodes, z, j)
  BY DEF Shaped
<1>2. ASSUME NEW z \in nodes, NEW j \in Slots, z[1] < 3
      PROVE  Linked(mem2, at, nodes, z, j)
  <2>1. z # x
    BY <1>2
  <2>2. at[z] \in D /\ at[z] # at[x]
    BY <1>1, <2>1
  <2>3. mem2[at[z]][j] = mem[at[z]][j]
    BY <2>2 DEF OneEntry
  <2>4. Linked(mem, at, nodes, z, j)
    BY <1>1, <1>2
  <2> QED
    BY <2>3, <2>4 DEF Linked
<1> QED
  BY <1>2 DEF Shaped

-----------------------------------------------------------------------------
(* B are the bits that were set before the first table was requested, D the *)
(* frames requestPage looks at, and R the frames it may give away: of the   *)
(* clear ones, the lowest.                                                  *)
Roomy(B, D, R) ==
  /\ IsFiniteSet(R)
  /\ R \subseteq D \ B
  /\ NULL \notin R
  /\ \A f \in D \ B, r \in R : f <= r => f \in R

(* What has been taken since are the tables of nodes: they come from R, and *)
(* each has been counted once, on top of u.                                 *)
Counted(B, R, u, p, nodes) ==
  /\ Taken(p, B) \subseteq R
  /\ IsFiniteSet(nodes)
  /\ Cardinality(Taken(p, B)) = Cardinality(nodes)
  /\ p.used = (u + Cardinality(nodes)) % Word

Grown(B, D, R, u, root, at, nodes, p, mem) ==
  /\ Sound(p, mem)
  /\ Bitmapped(p) = D
  /\ B \subseteq p.bits
  /\ Counted(B, R, u, p, nodes)
  /\ Shaped(mem, root, at, nodes, Taken(p, B))

(* As long as not all of R is taken, requestPage returns another frame of R *)
(* and counts it.                                                           *)
LEMMA RequestCounts ==
  ASSUME NEW B, NEW D, NEW R, Roomy(B, D, R), NEW u \in Nat,
         NEW p, NEW mem, Sound(p, mem), Bitmapped(p) = D, B \subseteq p.bits,
         NEW nodes, Counted(B, R, u, p, nodes),
         Cardinality(nodes) < Cardinality(R), NEW y, y \notin nodes
  PROVE  LET new == requestedPage(p)
             q   == requestPage(p)
         IN  /\ new \in R \ p.bits
             /\ q.bits = p.bits \cup {new}
             /\ Bitmapped(q) = D
             /\ Taken(q, B) = Taken(p, B) \cup {new}
             /\ new \notin Taken(p, B)
             /\ \A mem2 \in Memory(D) : Sound(q, mem2)
             /\ Counted(B, R, u, q, nodes \cup {y})
<1> DEFINE new == requestedPage(p)
           q == requestPage(p)
           T == Taken(p, B)
           n == Cardinality(nodes)
<1>1. /\ IsFiniteSet(R)
      /\ R \subseteq D \ B
      /\ NULL \notin R
      /\ \A f \in D \ B, r \in R : f <= r => f \in R
  BY DEF Roomy
<1>2. /\ T \subseteq R
      /\ IsFiniteSet(nodes)
      /\ Cardinality(T) = n
      /\ p.used = (u + n) % Word
  BY DEF Counted
<1>3. T = (p.bits \cap D) \ (B \cup {NULL})
  BY DEF Taken
<1>4. Sane(p) /\ D = 0..(p.size * 8 - 1)
  BY DEF Sound, Bitmapped
<1>5. PICK f \in R : f \notin T
  <2>1. R # T
    <3>1. n \in Nat /\ Cardinality(R) \in Nat
      BY <1>1, <1>2, FS_CardinalityType
    <3> QED
      BY <1>2, <3>1
  <2> QED
    BY <1>2, <2>1
<1>6. f \in D \ p.bits
  BY <1>1, <1>3, <1>5
<1>7. /\ new \in D \ p.bits
      /\ new <= f
      /\ q.bits = p.bits \cup {new}
      /\ q.used = (p.used + 1) % Word
  BY <1>4, <1>6, RequestLowest
<1>8. /\ Bitmapped(q) = D
      /\ \A mem2 \in Memory(D) : Sound(q, mem2)
  BY RequestedFacts
<1> HIDE DEF new, q, T, n
<1>9. new \in R
  BY <1>1, <1>6, <1>7
<1>10. Taken(q, B) = T \cup {new} /\ new \notin T
  <2>1. Taken(q, B) = (q.bits \cap D) \ (B \cup {NULL})
    BY <1>8 DEF Taken
  <2>2. new \notin B /\ new # NULL
    BY <1>1, <1>9
  <2> QED
    BY <1>3, <1>7, <2>1, <2>2
<1>11. Counted(B, R, u, q, nodes \cup {y})
  <2>1. /\ IsFiniteSet(nodes \cup {y})
        /\ Cardinality(nodes \cup {y}) = n + 1
    BY <1>2, FS_AddElement DEF n
  <2>2. Cardinality(T \cup {new}) = n + 1
    <3>1. IsFiniteSet(T)
      BY <1>1, <1>2, FS_Subset
    <3> QED
      BY <1>2, <1>10, <3>1, FS_AddElement
  <2>3. q.used = (u + (n + 1)) % Word
    <3>1. n \in Nat
      BY <1>2, FS_CardinalityType DEF n
    <3> DEFINE a == u + n
    <3>2. a \in Int /\ a + 1 = u + (n + 1)
      BY <3>1
    <3>3. ((a % Word) + 1) % Word = (a + 1) % Word
      BY <3>2, ModAdd, WordAssumption
    <3>4. q.used = ((a % Word) + 1) % Word
      BY <1>2, <1>7
    <3> HIDE DEF a
    <3> QED
      BY <3>2, <3>3, <3>4
  <2> QED
    BY <1>2, <1>9, <1>10, <2>1, <2>2, <2>3 DEF Counted
<1> QED
  BY <1>7, <1>8, <1>9, <1>10, <1>11 DEF new, q, T

(* A walk of mapMemory stands at table x, unrefused so far. *)
Reached(B, D, R, u, root, nodes, x, s) ==
  /\ x \in nodes
  /\ \E at : /\ s = At(s.pf, s.ram, at[x], FALSE)
             /\ Grown(B, D, R, u, root, at, nodes, s.pf, s.ram)

(* A level of mapMemory goes to the table that hangs in slot k of x.  If    *)
(* there is none it makes it, and is not refused while R has room for it.   *)
LEMMA DescendGrows ==
  ASSUME NEW B, NEW D, NEW R, Roomy(B, D, R), NEW u \in Nat, NEW root,
         NEW nodes, NEW x, x[1] < 3, NEW k \in Slots,
         Cardinality(nodes \cup {child(x, k)}) <= Cardinality(R),
         NEW s, Reached(B, D, R, u, root, nodes, x, s)
  PROVE  Reached(B, D, R, u, root, nodes \cup {child(x, k)}, child(x, k), descend(s, k))
<1> DEFINE y == child(x, k)
           p == s.pf
           mem == s.ram
           T == Taken(p, B)
           new == requestedPage(p)
           q == requestPage(p)
<1>1. PICK at : /\ s = At(p, mem, at[x], FALSE)
                /\ Grown(B, D, R, u, root, at, nodes, p, mem)
  BY DEF Reached
<1>2. /\ x \in nodes
      /\ Sound(p, mem) /\ mem \in Memory(D)
      /\ Bitmapped(p) = D
      /\ B \subseteq p.bits
      /\ Counted(B, R, u, p, nodes)
      /\ Shaped(mem, root, at, nodes, T)
  BY <1>1 DEF Reached, Grown, Sound
<1>3. /\ nodes \subseteq Tables
      /\ at[x] \in T
      /\ Linked(mem, at, nodes, x, k)
  BY <1>2 DEF Shaped
<1>4. /\ mem[at[x]][k].present <=> y \in nodes
      /\ mem[at[x]][k].present => mem[at[x]][k].address = at[y]
  BY <1>3 DEF Linked
<1>5. T \subseteq D /\ at[x] \in D
  BY <1>2, <1>3 DEF Taken
<1>6. CASE mem[at[x]][k].present
  <2>1. descend(At(p, mem, at[x], FALSE), k) = At(p, mem, at[y], FALSE)
    BY <1>4, <1>6 DEF descend, At
  <2>2. y \in nodes /\ nodes \cup {y} = nodes
    BY <1>4, <1>6
  <2> DEFINE r == descend(s, k)
  <2>3. r = At(p, mem, at[y], FALSE)
    BY <1>1, <2>1
  <2> HIDE DEF r, y, p, mem
  <2>4. r.pf = p /\ r.ram = mem
    BY <2>3 DEF At
  <2>5. Reached(B, D, R, u, root, nodes, y, r)
    BY <1>1, <2>2, <2>3, <2>4 DEF Reached
  <2> QED
    BY <2>2, <2>5 DEF r, y
<1>7. CASE ~mem[at[x]][k].present
  <2>1. y \notin nodes
    BY <1>4, <1>7
  <2>2. Cardinality(nodes) < Cardinality(R)
    <3>1. IsFiniteSet(nodes) /\ IsFiniteSet(R)
      BY <1>2 DEF Counted, Roomy
    <3>2. Cardinality(nodes \cup {y}) = Cardinality(nodes) + 1
      BY <2>1, <3>1, FS_AddElement
    <3>3. Cardinality(nodes) \in Nat /\ Cardinality(R) \in Nat
      BY <3>1, FS_CardinalityType
    <3> QED
      BY <3>2, <3>3
  <2> HIDE DEF y, p, mem, T
  <2>3. /\ new \in R \ p.bits
        /\ q.bits = p.bits \cup {new}
        /\ Bitmapped(q) = D
        /\ Taken(q, B) = T \cup {new}
        /\ new \notin T
        /\ \A r \in Memory(D) : Sound(q, r)
        /\ Counted(B, R, u, q, nodes \cup {y})
    BY <1>2, <2>1, <2>2, RequestCounts DEF T
  <2>4. new \in 0..(EntryFrames - 1)
    BY <1>2, RequestedFacts
  <2>5. new \in D /\ new # NULL
    BY <2>3 DEF Roomy
  <2>6. descend(At(p, mem, at[x], FALSE), k)
          = At(q, hung(mem, at[x], k, new), new, FALSE)
    <3>1. (FALSE \/ new = NULL) = FALSE
      BY <2>5
    <3>2. descend(At(p, mem, at[x], FALSE), k)
            = At(q, hung(mem, at[x], k, new), new, FALSE \/ new = NULL)
      BY <1>7, DescendAbsent
    <3> QED
      BY <3>1, <3>2
  <2> HIDE DEF new, q
  <2> DEFINE mem2 == hung(mem, at[x], k, new)
             at2 == extended(at, nodes, y, new)
             r == descend(s, k)
  <2>7. /\ mem2 \in Memory(D)
        /\ mem2[at[x]][k].present
        /\ mem2[at[x]][k].address = new
        /\ \A f \in D \ {new}, j \in Slots :
             mem2[f][j] = mem[f][j] \/ (f = at[x] /\ j = k)
        /\ \A j \in Slots : mem2[new][j] = ZeroEntry \/ (new = at[x] /\ j = k)
    BY <1>2, <1>5, <2>4, <2>5, HungFacts
  <2>8. r = At(q, mem2, new, FALSE)
    BY <1>1, <2>6
  <2>9. at2[y] = new
    BY DEF extended
  <2> HIDE DEF mem2, r, at2
  <2>10. Hangs(D, mem, mem2, at[x], k, new)
    <3>1. \A j \in Slots : ~mem2[new][j].present
      BY <1>3, <2>3, <2>7 DEF ZeroEntry
    <3> QED
      BY <1>7, <2>7, <3>1 DEF Hangs
  <2>11. Shaped(mem2, root, at2, nodes \cup {y}, T \cup {new})
    BY <1>2, <1>5, <2>3, <2>5, <2>10, ShapeGrows DEF y, at2
  <2>12. B \subseteq q.bits
    BY <1>2, <2>3
  <2>13. Grown(B, D, R, u, root, at2, nodes \cup {y}, q, mem2)
    BY <2>3, <2>7, <2>11, <2>12 DEF Grown
  <2>14. r.pf = q /\ r.ram = mem2
    BY <2>8 DEF At
  <2>15. Reached(B, D, R, u, root, nodes \cup {y}, y, r)
    BY <2>8, <2>9, <2>13, <2>14 DEF Reached
  <2> QED
    BY <2>15 DEF r, y
<1> QED
  BY <1>6, <1>7

-----------------------------------------------------------------------------
(* mapMemory.                                                               *)

(* The tables a page is mapped through, below the root. *)
path(page) ==
  {<<1, ((page \div Fanout) \div Fanout) \div Fanout>>,
   <<2, (page \div Fanout) \div Fanout>>,
   <<3, page \div Fanout>>}

(* The indexes of a page lead down its path. *)
LEMMA PathFacts ==
  ASSUME NEW page \in addressSpace
  PROVE  LET index == getPageTableIndex(page)
             n3 == page \div Fanout
             n2 == n3 \div Fanout
             n1 == n2 \div Fanout
         IN  /\ page \in Nat
             /\ index.PDP_i \in Slots /\ index.PD_i \in Slots
             /\ index.PT_i \in Slots /\ index.P_i \in Slots
             /\ child(<<0, 0>>, index.PDP_i) = <<1, n1>>
             /\ child(<<1, n1>>, index.PD_i) = <<2, n2>>
             /\ child(<<2, n2>>, index.PT_i) = <<3, n3>>
             /\ n1 \in Nat /\ n2 \in Nat /\ n3 \in Nat
<1> DEFINE index == getPageTableIndex(page)
           F2 == Fanout * Fanout
           F3 == Fanout * Fanout * Fanout
           n3 == page \div Fanout
           n2 == n3 \div Fanout
           n1 == n2 \div Fanout
<1>1. page \in Nat /\ page < F3 * Fanout
  BY FanoutAssumption DEF addressSpace
<1>2. F2 \in Nat \ {0} /\ F3 \in Nat \ {0} /\ F3 = F2 * Fanout
  BY FanoutAssumption
<1>3. /\ index.PDP_i = n1 % Fanout
      /\ index.PD_i = n2 % Fanout
      /\ index.PT_i = n3 % Fanout
  BY DEF getPageTableIndex
<1>4. /\ index.PDP_i \in Slots /\ index.PD_i \in Slots
      /\ index.PT_i \in Slots /\ index.P_i \in Slots
  BY <1>1, IndexType
<1> HIDE DEF F3, index
<1>5. n3 \in Nat /\ n3 < F3
  BY <1>1, <1>2, DigitDrops
<1> HIDE DEF n3
<1>6. n2 \in Nat /\ n2 < F2
  BY <1>2, <1>5, DigitDrops
<1> HIDE DEF n2
<1>7. n1 \in Nat /\ n1 < Fanout
  BY <1>6, FanoutAssumption, DigitDrops
<1> HIDE DEF n1
<1>8. n1 % Fanout = n1
  BY <1>7, FanoutAssumption
<1>9. n2 = n1 * Fanout + (n2 % Fanout)
  BY <1>6, Digits DEF n1
<1>10. n3 = n2 * Fanout + (n3 % Fanout)
  BY <1>5, Digits DEF n2
<1>11. child(<<0, 0>>, index.PDP_i) = <<1, n1>>
  <2>1. 0 * Fanout + n1 = n1 /\ 0 + 1 = 1
    BY <1>7, FanoutAssumption
  <2>2. child(<<0, 0>>, index.PDP_i) = <<0 + 1, 0 * Fanout + n1>>
    BY <1>3, <1>8 DEF child
  <2> QED
    BY <2>1, <2>2
<1>12. child(<<1, n1>>, index.PD_i) = <<2, n2>>
  BY <1>3, <1>9 DEF child
<1>13. child(<<2, n2>>, index.PT_i) = <<3, n3>>
  BY <1>3, <1>10 DEF child
<1> QED
  BY <1>1, <1>4, <1>5, <1>6, <1>7, <1>11, <1>12, <1>13 DEF index, n1, n2, n3

(* With room for the tables on the path of the page, mapMemory is not       *)
(* refused and adds the ones that are missing.                              *)
LEMMA MapMemoryGrows ==
  ASSUME NEW B, NEW D, NEW R, Roomy(B, D, R), NEW u \in Nat, NEW root, NEW at,
         NEW nodes, NEW p, NEW mem, Grown(B, D, R, u, root, at, nodes, p, mem),
         NEW page \in addressSpace, NEW frame \in Nat,
         Cardinality(nodes \cup path(page)) <= Cardinality(R)
  PROVE  LET s == mapMemory(p, mem, root, page, frame)
         IN  /\ s.refused = FALSE
             /\ \E at2 : Grown(B, D, R, u, root, at2, nodes \cup path(page), s.pf, s.ram)
<1> DEFINE index == getPageTableIndex(page)
           d  == index.P_i
           x1 == <<1, ((page \div Fanout) \div Fanout) \div Fanout>>
           x2 == <<2, (page \div Fanout) \div Fanout>>
           x3 == <<3, page \div Fanout>>
           N1 == nodes \cup {x1}
           N2 == N1 \cup {x2}
           N3 == N2 \cup {x3}
           s0 == At(p, mem, root, FALSE)
           s1 == descend(s0, index.PDP_i)
           s2 == descend(s1, index.PD_i)
           s3 == descend(s2, index.PT_i)
           s  == mapMemory(p, mem, root, page, frame)
<1>1. /\ index.PDP_i \in Slots /\ index.PD_i \in Slots
      /\ index.PT_i \in Slots /\ d \in Slots
      /\ child(<<0, 0>>, index.PDP_i) = x1
      /\ child(x1, index.PD_i) = x2
      /\ child(x2, index.PT_i) = x3
  BY PathFacts
<1>2. <<0, 0>>[1] < 3 /\ x1[1] < 3 /\ x2[1] < 3 /\ x3[1] = 3
  OBVIOUS
<1>3. N3 = nodes \cup path(page)
  BY DEF path
<1>4. ASSUME NEW p3, NEW mem3, NEW t3, NEW lost, s3 = At(p3, mem3, t3, lost)
      PROVE  s = At(p3, written(mem3, t3, d, frame), t3, lost)
  <2>1. threeLevels(p, mem, root, page) = At(p3, mem3, t3, lost)
    BY <1>4 DEF threeLevels
  <2> HIDE DEF s3, s
  <2> QED
    BY <2>1, MapMemoryEnds DEF s
<1> HIDE DEF index, d, x1, x2, x3, s
<1>5. /\ Cardinality(N1) <= Cardinality(R)
      /\ Cardinality(N2) <= Cardinality(R)
      /\ Cardinality(N3) <= Cardinality(R)
  <2>1. IsFiniteSet(nodes) /\ IsFiniteSet(R)
    BY DEF Grown, Counted, Roomy
  <2>2. IsFiniteSet(N1) /\ IsFiniteSet(N2) /\ IsFiniteSet(N3)
    BY <2>1, FS_AddElement
  <2>3. N1 \subseteq N3 /\ N2 \subseteq N3
    OBVIOUS
  <2> HIDE DEF N1, N2, N3
  <2>4. Cardinality(N1) <= Cardinality(N3) /\ Cardinality(N2) <= Cardinality(N3)
    BY <2>2, <2>3, FS_Subset
  <2>5. /\ Cardinality(N1) \in Nat /\ Cardinality(N2) \in Nat
        /\ Cardinality(N3) \in Nat /\ Cardinality(R) \in Nat
    BY <2>1, <2>2, FS_CardinalityType
  <2>6. Cardinality(N3) <= Cardinality(R)
    BY <1>3
  <2> QED
    BY <2>4, <2>5, <2>6
<1>6. Reached(B, D, R, u, root, nodes, <<0, 0>>, s0)
  <2>1. s0.pf = p /\ s0.ram = mem
    BY DEF At
  <2>2. <<0, 0>> \in nodes /\ at[<<0, 0>>] = root
    BY DEF Grown, Shaped
  <2>3. s0 = At(s0.pf, s0.ram, at[<<0, 0>>], FALSE)
    BY <2>1, <2>2
  <2> HIDE DEF s0
  <2> QED
    BY <2>1, <2>2, <2>3 DEF Reached
<1> HIDE DEF s0
<1>7. Reached(B, D, R, u, root, N1, x1, s1)
  BY <1>1, <1>2, <1>5, <1>6, DescendGrows
<1> HIDE DEF N1, s1
<1>8. Reached(B, D, R, u, root, N2, x2, s2)
  BY <1>1, <1>2, <1>5, <1>7, DescendGrows
<1> HIDE DEF N2, s2
<1>9. Reached(B, D, R, u, root, N3, x3, s3)
  BY <1>1, <1>2, <1>5, <1>8, DescendGrows
<1> HIDE DEF N3, s3
<1>10. PICK at2 : /\ s3 = At(s3.pf, s3.ram, at2[x3], FALSE)
                  /\ Grown(B, D, R, u, root, at2, N3, s3.pf, s3.ram)
  BY <1>9 DEF Reached
<1> DEFINE mem2 == written(s3.ram, at2[x3], d, frame)
           T == Taken(s3.pf, B)
<1>11. s = At(s3.pf, mem2, at2[x3], FALSE)
  BY <1>4, <1>10
<1>12. /\ Sound(s3.pf, s3.ram)
       /\ Bitmapped(s3.pf) = D
       /\ s3.ram \in Memory(D)
       /\ Shaped(s3.ram, root, at2, N3, T)
       /\ x3 \in N3
  BY <1>9, <1>10 DEF Grown, Sound, Reached
<1>13. T \subseteq D /\ at2[x3] \in D
  BY <1>12 DEF Taken, Shaped
<1>14. mem2 \in Memory(D) /\ OneEntry(D, s3.ram, mem2, at2[x3], d)
  <2> DEFINE mem3 == s3.ram
             t3 == at2[x3]
  <2>1. mem3 \in Memory(D) /\ t3 \in D /\ d \in Slots
    BY <1>1, <1>12, <1>13
  <2> HIDE DEF mem3, t3
  <2>2. LET m == written(mem3, t3, d, frame)
        IN  /\ m \in Memory(D)
            /\ \A f \in D, j \in Slots : m[f][j] = mem3[f][j] \/ (f = t3 /\ j = d)
    BY <2>1, WrittenFacts
  <2>3. mem2 = written(mem3, t3, d, frame)
    BY DEF mem3, t3
  <2>4. mem2 \in Memory(D) /\ OneEntry(D, mem3, mem2, t3, d)
    BY <2>2, <2>3 DEF OneEntry
  <2> QED
    BY <2>4 DEF mem3, t3
<1> HIDE DEF mem2
<1>15. Shaped(mem2, root, at2, N3, T)
  <2> DEFINE mem3 == s3.ram
  <2>1. /\ Shaped(mem3, root, at2, N3, T)
        /\ T \in SUBSET D /\ x3 \in N3 /\ x3[1] = 3
        /\ OneEntry(D, mem3, mem2, at2[x3], d)
    BY <1>2, <1>12, <1>13, <1>14
  <2> HIDE DEF T, mem3
  <2> QED
    BY <2>1, ShapeStays
<1>16. Sound(s3.pf, mem2)
  BY <1>12, <1>14 DEF Sound
<1>17. Grown(B, D, R, u, root, at2, N3, s3.pf, mem2)
  BY <1>10, <1>15, <1>16 DEF Grown
<1>18. s.pf = s3.pf /\ s.ram = mem2 /\ s.refused = FALSE
  BY <1>11 DEF At
<1>19. Grown(B, D, R, u, root, at2, nodes \cup path(page), s.pf, s.ram)
  BY <1>3, <1>17, <1>18
<1> QED
  BY <1>18, <1>19 DEF s

-----------------------------------------------------------------------------
(* The tables for a set of pages.                                           *)

(* What a function makes of a finite set is a finite set. *)
LEMMA ImageFinite ==
  ASSUME NEW S, IsFiniteSet(S), NEW f, f = [x \in S |-> f[x]]
  PROVE  IsFiniteSet({f[x] : x \in S})
<1> DEFINE T == {f[x] : x \in S}
<1>1. f \in Surjection(S, T)
  BY DEF Surjection
<1> QED
  BY <1>1, FS_Surjection

LEMMA TablesForFacts ==
  /\ tablesFor({}) = {<<0, 0>>}
  /\ \A P, page : tablesFor(P \cup {page}) = tablesFor(P) \cup path(page)
  /\ \A P, Q : P \subseteq Q => tablesFor(P) \subseteq tablesFor(Q)
  /\ \A P : IsFiniteSet(P) => IsFiniteSet(tablesFor(P))
<1> DEFINE a(page) == <<1, ((page \div Fanout) \div Fanout) \div Fanout>>
           b(page) == <<2, (page \div Fanout) \div Fanout>>
           c(page) == <<3, page \div Fanout>>
<1>1. \A P : tablesFor(P) = {<<0, 0>>} \cup {a(page) : page \in P}
                              \cup {b(page) : page \in P} \cup {c(page) : page \in P}
  BY DEF tablesFor
<1>2. \A page : path(page) = {a(page), b(page), c(page)}
  BY DEF path
<1> HIDE DEF a, b, c
<1>3. tablesFor({}) = {<<0, 0>>}
  BY <1>1
<1>4. ASSUME NEW P, NEW page
      PROVE  tablesFor(P \cup {page}) = tablesFor(P) \cup path(page)
  <2>1. /\ {a(x) : x \in P \cup {page}} = {a(x) : x \in P} \cup {a(page)}
        /\ {b(x) : x \in P \cup {page}} = {b(x) : x \in P} \cup {b(page)}
        /\ {c(x) : x \in P \cup {page}} = {c(x) : x \in P} \cup {c(page)}
    OBVIOUS
  <2> QED
    BY <1>1, <1>2, <2>1
<1>5. ASSUME NEW P, NEW Q, P \subseteq Q
      PROVE  tablesFor(P) \subseteq tablesFor(Q)
  <2>1. /\ {a(x) : x \in P} \subseteq {a(x) : x \in Q}
        /\ {b(x) : x \in P} \subseteq {b(x) : x \in Q}
        /\ {c(x) : x \in P} \subseteq {c(x) : x \in Q}
    BY <1>5
  <2> QED
    BY <1>1, <2>1
<1>6. ASSUME NEW P, IsFiniteSet(P)
      PROVE  IsFiniteSet(tablesFor(P))
  <2> DEFINE A == {a(x) : x \in P}
             B == {b(x) : x \in P}
             C == {c(x) : x \in P}
  <2>1. IsFiniteSet(A)
    <3> DEFINE f == [x \in P |-> a(x)]
    <3>1. f = [x \in P |-> f[x]] /\ {f[x] : x \in P} = A
      OBVIOUS
    <3> HIDE DEF f
    <3>2. IsFiniteSet({f[x] : x \in P})
      BY <1>6, <3>1, ImageFinite
    <3> QED
      BY <3>1, <3>2
  <2>2. IsFiniteSet(B)
    <3> DEFINE f == [x \in P |-> b(x)]
    <3>1. f = [x \in P |-> f[x]] /\ {f[x] : x \in P} = B
      OBVIOUS
    <3> HIDE DEF f
    <3>2. IsFiniteSet({f[x] : x \in P})
      BY <1>6, <3>1, ImageFinite
    <3> QED
      BY <3>1, <3>2
  <2>3. IsFiniteSet(C)
    <3> DEFINE f == [x \in P |-> c(x)]
    <3>1. f = [x \in P |-> f[x]] /\ {f[x] : x \in P} = C
      OBVIOUS
    <3> HIDE DEF f
    <3>2. IsFiniteSet({f[x] : x \in P})
      BY <1>6, <3>1, ImageFinite
    <3> QED
      BY <3>1, <3>2
  <2>4. tablesFor(P) = {<<0, 0>>} \cup A \cup B \cup C
    BY <1>1
  <2> HIDE DEF A, B, C
  <2>5. IsFiniteSet({<<0, 0>>})
    BY FS_Singleton
  <2> QED
    BY <2>1, <2>2, <2>3, <2>4, <2>5, FS_Union
<1> QED
  BY <1>3, <1>4, <1>5, <1>6

-----------------------------------------------------------------------------
(* The tables map the pages of P to themselves and no other, and they are   *)
(* the tables for P.                                                        *)
Complete(B, D, R, u, root, P, p, mem) ==
  /\ B \subseteq p.bits
  /\ Tree(mem, root, Taken(p, B))
  /\ \E at : Grown(B, D, R, u, root, at, tablesFor(P), p, mem)
  /\ \A page \in addressSpace :
       translate(mem, root, page) = IF page \in P THEN page ELSE Unmapped

(* With room for its tables one more page is mapped. *)
LEMMA MapPage ==
  ASSUME NEW B, NEW D, NEW R, Roomy(B, D, R), NEW u \in Nat, NEW root,
         NEW P, NEW p, NEW mem, Complete(B, D, R, u, root, P, p, mem),
         NEW page \in addressSpace,
         Cardinality(tablesFor(P \cup {page})) <= Cardinality(R)
  PROVE  LET s == mapMemory(p, mem, root, page, page)
         IN  /\ s.refused = FALSE
             /\ Complete(B, D, R, u, root, P \cup {page}, s.pf, s.ram)
<1> DEFINE s == mapMemory(p, mem, root, page, page)
           Q == P \cup {page}
<1>1. /\ B \subseteq p.bits
      /\ Tree(mem, root, Taken(p, B))
      /\ \A q \in addressSpace :
           translate(mem, root, q) = IF q \in P THEN q ELSE Unmapped
  BY DEF Complete
<1>2. PICK at : Grown(B, D, R, u, root, at, tablesFor(P), p, mem)
  BY DEF Complete
<1>3. tablesFor(Q) = tablesFor(P) \cup path(page)
  BY TablesForFacts
<1>4. page \in Nat /\ page % EntryFrames = page
  <2>1. page \in 0..(EntryFrames - 1)
    BY AddressSpaceAssumption
  <2> QED
    BY <2>1, EntryFramesAssumption
<1>5. /\ s.refused = FALSE
      /\ \E at2 : Grown(B, D, R, u, root, at2, tablesFor(Q), s.pf, s.ram)
  <2> DEFINE N == tablesFor(P)
  <2>1. /\ Grown(B, D, R, u, root, at, N, p, mem)
        /\ Cardinality(N \cup path(page)) <= Cardinality(R)
        /\ tablesFor(Q) = N \cup path(page)
    BY <1>2, <1>3
  <2> HIDE DEF N, Q, s
  <2>2. LET r == mapMemory(p, mem, root, page, page)
        IN  /\ r.refused = FALSE
            /\ \E at2 : Grown(B, D, R, u, root, at2, N \cup path(page), r.pf, r.ram)
    BY <1>4, <2>1, MapMemoryGrows
  <2> QED
    BY <2>1, <2>2 DEF s
<1>6. Sound(p, mem)
  BY <1>2 DEF Grown
<1>7. Mapped(p, mem, root, B, page, page, s.pf, s.ram)
  <2>1. \/ /\ s.refused = FALSE
           /\ Mapped(p, mem, root, B, page, page, s.pf, s.ram)
        \/ /\ s.refused = TRUE
           /\ KeepsPresent(upperTables(mem, root) \cup PTs(mem, root), mem, s.ram)
    BY <1>1, <1>4, <1>6, MapMemoryKeeps DEF addressSpace
  <2> QED
    BY <1>5, <2>1
<1> HIDE DEF s
<1>8. /\ p.bits \subseteq s.pf.bits
      /\ Tree(s.ram, root, Taken(s.pf, B))
      /\ translate(s.ram, root, page) = page
      /\ \A q \in addressSpace :
           q # page => translate(s.ram, root, q) = translate(mem, root, q)
  BY <1>4, <1>7 DEF Mapped, addressSpace
<1>9. \A q \in addressSpace :
        translate(s.ram, root, q) = IF q \in Q THEN q ELSE Unmapped
  BY <1>1, <1>8
<1>10. B \subseteq s.pf.bits
  BY <1>1, <1>8
<1>11. Complete(B, D, R, u, root, Q, s.pf, s.ram)
  BY <1>5, <1>8, <1>9, <1>10 DEF Complete
<1> QED
  BY <1>5, <1>11 DEF s

(* The first table: an empty root. *)
LEMMA MapRoot ==
  ASSUME NEW p, NEW mem, Sound(p, mem), NEW R, Roomy(p.bits, Bitmapped(p), R),
         NEW u \in Nat, p.used = u % Word, Cardinality(tablesFor({})) <= Cardinality(R)
  PROVE  LET root == requestedPage(p)
         IN  /\ root # NULL
             /\ Complete(p.bits, Bitmapped(p), R, u, root, {},
                         requestPage(p), memsetTable(mem, root))
<1> DEFINE root == requestedPage(p)
           B == p.bits
           D == Bitmapped(p)
           q == requestPage(p)
           mem2 == memsetTable(mem, root)
<1>1. tablesFor({}) = {<<0, 0>>} /\ {} \cup {<<0, 0>>} = {<<0, 0>>}
  BY TablesForFacts
<1>2. Taken(p, B) = {}
  BY DEF Taken
<1>3. Counted(B, R, u, p, {})
  <2>1. u + 0 = u
    OBVIOUS
  <2> QED
    BY <1>2, <2>1, FS_EmptySet DEF Counted
<1>4. Cardinality({}) < Cardinality(R)
  <2>1. Cardinality({}) = 0 /\ Cardinality({<<0, 0>>}) = 1
    BY FS_EmptySet, FS_Singleton
  <2>2. Cardinality(R) \in Nat
    BY FS_CardinalityType DEF Roomy
  <2> QED
    BY <1>1, <2>1, <2>2
<1>5. /\ root \in R \ B
      /\ q.bits = B \cup {root}
      /\ Bitmapped(q) = D
      /\ Taken(q, B) = {root}
      /\ \A m \in Memory(D) : Sound(q, m)
      /\ Counted(B, R, u, q, {<<0, 0>>})
  <2> DEFINE none == {}
             y == <<0, 0>>
  <2>1. /\ y \notin none
        /\ Taken(p, B) = none
        /\ none \cup {root} = {root} /\ none \cup {y} = {y}
        /\ Counted(B, R, u, p, none)
        /\ Cardinality(none) < Cardinality(R)
        /\ B \subseteq p.bits
    BY <1>2, <1>3, <1>4
  <2> HIDE DEF root, q, none, y
  <2>2. LET new == requestedPage(p)
            r   == requestPage(p)
        IN  /\ new \in R \ p.bits
            /\ r.bits = p.bits \cup {new}
            /\ Bitmapped(r) = D
            /\ Taken(r, B) = Taken(p, B) \cup {new}
            /\ \A m \in Memory(D) : Sound(r, m)
            /\ Counted(B, R, u, r, none \cup {y})
    BY <2>1, RequestCounts
  <2> QED
    BY <2>1, <2>2 DEF root, q, y
<1>6. root \in D /\ root # NULL
  BY <1>5 DEF Roomy
<1>7. mem \in Memory(D)
  BY DEF Sound
<1> HIDE DEF root, q, D
<1>8. mem2 \in Memory(D) /\ \A k \in Slots : mem2[root][k] = ZeroEntry
  BY <1>6, <1>7, ClearedFacts
<1> HIDE DEF mem2
<1>9. \A k \in Slots : ~mem2[root][k].present
  BY <1>8 DEF ZeroEntry
<1>10. Tree(mem2, root, Taken(q, B))
  <2>1. upperTables(mem2, root) = {root}
    <3>1. below(mem2, {root}) = {}
      BY <1>9, BelowFacts
    <3>2. below(mem2, {}) = {}
      BY BelowFacts
    <3> QED
      BY <3>1, <3>2 DEF upperTables, PDPs, PDs
  <2> QED
    BY <1>5, <1>9, <2>1 DEF Tree
<1> DEFINE at == [x \in {<<0, 0>>} |-> root]
<1>11. Shaped(mem2, root, at, {<<0, 0>>}, Taken(q, B))
  <2>1. <<0, 0>> \in Tables /\ <<0, 0>>[1] = 0 /\ at[<<0, 0>>] = root
    BY DEF Tables
  <2> HIDE DEF at
  <2>2. ASSUME NEW k \in Slots
        PROVE  Linked(mem2, at, {<<0, 0>>}, <<0, 0>>, k)
    <3>1. child(<<0, 0>>, k) # <<0, 0>>
      BY <2>1, ChildFacts
    <3> QED
      BY <1>9, <2>1, <3>1 DEF Linked
  <2> QED
    BY <1>5, <2>1, <2>2 DEF Shaped
<1>12. Grown(B, D, R, u, root, at, tablesFor({}), q, mem2)
  BY <1>1, <1>5, <1>8, <1>11 DEF Grown
<1>13. ASSUME NEW page \in addressSpace
       PROVE  translate(mem2, root, page) = Unmapped
  <2>1. getPageTableIndex(page).PDP_i \in Slots
    BY PathFacts
  <2> QED
    BY <1>9, <2>1 DEF translate
<1>14. Complete(B, D, R, u, root, {}, q, mem2)
  BY <1>5, <1>10, <1>12, <1>13 DEF Complete
<1> QED
  BY <1>6, <1>14 DEF root, q, D, mem2

(* Whether there is room or not, mapMemory leaves the allocator sane and    *)
(* its bitmap where it is.                                                  *)
SameBitmap(p, q) == Sane(q) /\ q.size = p.size /\ q.base = p.base

LEMMA MapMemorySane ==
  ASSUME NEW p, Sane(p), NEW mem, NEW root, NEW page, NEW frame
  PROVE  SameBitmap(p, mapMemory(p, mem, root, page, frame).pf)
<1>1. ASSUME NEW s, SameBitmap(p, s.pf), NEW k
      PROVE  SameBitmap(p, descend(s, k).pf)
  <2>1. descend(s, k).pf = s.pf \/ descend(s, k).pf = requestPage(s.pf)
    BY DEF descend
  <2>2. SameBitmap(p, requestPage(s.pf))
    <3> DEFINE q == s.pf
    <3>1. Sane(q) /\ q.size = p.size /\ q.base = p.base
      BY <1>1 DEF SameBitmap
    <3> HIDE DEF q
    <3>2. /\ Sane(requestPage(q))
          /\ requestPage(q).size = q.size
          /\ requestPage(q).base = q.base
      BY <3>1, RequestFacts
    <3>3. SameBitmap(p, requestPage(q))
      BY <3>1, <3>2 DEF SameBitmap
    <3> QED
      BY <3>3 DEF q
  <2> QED
    BY <1>1, <2>1, <2>2
<1>2. SameBitmap(p, At(p, mem, root, FALSE).pf)
  BY DEF SameBitmap, At
<1>3. SameBitmap(p, threeLevels(p, mem, root, page).pf)
  BY <1>1, <1>2 DEF threeLevels
<1>4. mapMemory(p, mem, root, page, frame).pf = threeLevels(p, mem, root, page).pf
  <2> DEFINE s3 == threeLevels(p, mem, root, page)
             d == getPageTableIndex(page).P_i
  <2>1. mapMemory(p, mem, root, page, frame)
          = [s3 EXCEPT !.ram = [s3.ram EXCEPT ![s3.table][d] = pointedAt(@, frame)]]
    BY DEF mapMemory, threeLevels, At
  <2> HIDE DEF s3
  <2>2. ASSUME NEW w
        PROVE  [s3 EXCEPT !.ram = w].pf = s3.pf
    OBVIOUS
  <2> QED
    BY <2>1, <2>2 DEF s3
<1> QED
  BY <1>3, <1>4

-----------------------------------------------------------------------------
(* The allocator when kernel_main has locked the kernel and has requested   *)
(* nothing yet.                                                             *)

kernelRun == PageRun(machine.kernelStart, kernelPages)

initialized == initializePageFrame(ZeroedAllocator, machine.map, machine.stray)

locked == lockPages(initialized, kernelRun)

LEMMA StrayBit ==
  ASSUME machine \in Machines
  PROVE  \E g \in 0..1 : machine.stray = (g = 1)
<1>1. machine.stray \in BOOLEAN
  BY MachinesAssumption
<1>2. CASE machine.stray = TRUE
  <2>1. 1 \in 0..1 /\ (1 = 1) = TRUE
    OBVIOUS
  <2> QED
    BY <1>2, <2>1
<1>3. CASE machine.stray = FALSE
  <2>1. 0 \in 0..1 /\ (0 = 1) = FALSE
    OBVIOUS
  <2> QED
    BY <1>3, <2>1
<1> QED
  BY <1>1, <1>2, <1>3

(* Where the bitmap is, and what was open before the first lock.            *)
LEMMA InitializedFacts ==
  ASSUME machine \in Machines, pf.size = initialized.size, pf.base = initialized.base
  PROVE  /\ Sane(initialized)
         /\ initialized.size = memoryPages \div 8 + 1
         /\ memoryPages \in Nat
         /\ NULL \in initialized.bits
         /\ initialized.bits = (0..(pf.size * 8)) \ (openFrames \ bitmapFrames)
         /\ initialized.used = Cardinality(bitmapFrames \cap openFrames) % Word
<1>1. ValidMap(machine.map)
  BY MachinesAssumption
<1>2. PICK g \in 0..1 : machine.stray = (g = 1)
  BY StrayBit
<1> DEFINE q == initializePageFrame(ZeroedAllocator, machine.map, g = 1)
           open == Opened(machine.map, q.size, g = 1)
           bitmap == PageRun(q.base, q.size \div PageSize + 1)
<1>3. /\ Sane(q)
      /\ q.size = getMemorySize(machine.map) \div 8 + 1
      /\ LowPages > 0 => NULL \in q.bits
  BY <1>1, InitializeFacts
<1>4. /\ q.bits = (0..(q.size * 8)) \ (open \ bitmap)
      /\ q.used = Cardinality(bitmap \cap open) % Word
  <2>1. Opens(machine.map, g = 1, q)
    BY <1>1, InitializedFrames
  <2> HIDE DEF q
  <2> QED
    BY <2>1 DEF Opens
<1>5. q = initialized
  BY <1>2 DEF initialized
<1> HIDE DEF q
<1>6. openFrames = open
  BY <1>2, <1>5 DEF openFrames, Opened, memoryPages
<1>7. bitmapFrames = bitmap
  BY <1>5 DEF bitmapFrames
<1>8. memoryPages \in Nat
  BY <1>1 DEF memoryPages, ValidMap
<1>9. q.size = memoryPages \div 8 + 1
  BY <1>3 DEF memoryPages
<1> HIDE DEF open, bitmap
<1>10. /\ q.bits = (0..(pf.size * 8)) \ (openFrames \ bitmapFrames)
       /\ q.used = Cardinality(bitmapFrames \cap openFrames) % Word
  BY <1>4, <1>5, <1>6, <1>7
<1> QED
  BY <1>3, <1>5, <1>8, <1>9, <1>10, NullAssumption

(* Locking the kernel takes what the kernel has of these frames.            *)
LEMMA LockedFacts ==
  ASSUME machine \in Machines, pf.size = locked.size, pf.base = locked.base
  PROVE  /\ Sane(locked)
         /\ locked.size = initialized.size /\ locked.base = initialized.base
         /\ locked.size = memoryPages \div 8 + 1
         /\ memoryPages \in Nat
         /\ NULL \in locked.bits
         /\ openFrames \subseteq 1..(locked.size * 8)
         /\ locked.bits = (0..(locked.size * 8)) \ (openFrames \ (bitmapFrames \cup kernelRun))
         /\ locked.used = Cardinality((bitmapFrames \cup kernelRun) \cap openFrames) % Word
<1> DEFINE all == 0..(locked.size * 8)
           A == bitmapFrames \cap openFrames
           S == kernelRun \cap (openFrames \ bitmapFrames)
<1>1. kernelRun \in SUBSET Nat
  <2>1. machine.kernelStart \in Nat /\ kernelPages \in Int
    BY MachinesAssumption, PageSizeAssumption DEF kernelPages
  <2>2. kernelRun \in SUBSET (0..(Word - 1))
    BY <2>1, PageRunType DEF kernelRun
  <2> QED
    BY <2>2, WordAssumption
<1>2. Sane(initialized)
  <2>1. ValidMap(machine.map)
    BY MachinesAssumption
  <2>2. ASSUME NEW g \in 0..1
        PROVE  Sane(initializePageFrame(ZeroedAllocator, machine.map, g = 1))
    BY <2>1, InitializeFacts
  <2>3. PICK g \in 0..1 : machine.stray = (g = 1)
    BY StrayBit
  <2> QED
    BY <2>2, <2>3 DEF initialized
<1>3. /\ Sane(locked)
      /\ locked.size = initialized.size
      /\ locked.base = initialized.base
      /\ locked.bits = initialized.bits \cup Settable(initialized, kernelRun)
  <2> DEFINE p == initialized
             F == kernelRun
  <2>1. Sane(p) /\ F \in SUBSET Nat /\ locked = lockPages(p, F)
    BY <1>1, <1>2 DEF locked
  <2> HIDE DEF p, F
  <2>2. LET q == lockPages(p, F)
        IN  /\ Sane(q)
            /\ q.size = p.size
            /\ q.base = p.base
            /\ q.bits = p.bits \cup Settable(p, F)
    BY <2>1, TakeFacts
  <2> QED
    BY <2>1, <2>2 DEF p, F
<1>4. /\ initialized.size = memoryPages \div 8 + 1
      /\ memoryPages \in Nat
      /\ NULL \in initialized.bits
      /\ initialized.bits = (0..(pf.size * 8)) \ (openFrames \ bitmapFrames)
      /\ initialized.used = Cardinality(A) % Word
  BY <1>3, InitializedFacts
<1>5. openFrames \subseteq 1..(locked.size * 8)
  <2>1. 0 \in PageRun(0, LowPages)
    <3>1. (0 + 0) % Word = 0 /\ 0 \in 0..(LowPages - 1)
      BY WordAssumption, LowPagesAssumption, NullAssumption
    <3> QED
      BY <3>1 DEF PageRun
  <2>2. openFrames \subseteq all \ {0}
    BY <2>1 DEF openFrames
  <2>3. locked.size \in Nat
    BY <1>3, <1>4
  <2> QED
    BY <2>2, <2>3
<1>6. Settable(initialized, kernelRun) = S
  <2>1. \A f \in Nat : f \in initialized.bits
                         <=> f \in all /\ ~(f \in openFrames /\ f \notin bitmapFrames)
    BY <1>4
  <2>2. \A f \in Nat : f \in all <=> f <= initialized.size * 8
    BY <1>3, <1>4
  <2>3. \A f \in openFrames : f \in all
    BY <1>5
  <2> HIDE DEF all
  <2> QED
    BY <1>1, <2>1, <2>2, <2>3 DEF Settable, getBitmap, Addressable
<1>7. locked.bits = all \ (openFrames \ (bitmapFrames \cup kernelRun))
  <2> HIDE DEF all
  <2>1. initialized.bits = all \ (openFrames \ bitmapFrames)
    BY <1>4 DEF all
  <2>2. openFrames \subseteq all
    BY <1>5 DEF all
  <2> QED
    BY <1>3, <1>6, <2>1, <2>2
<1>8. locked.used = Cardinality((bitmapFrames \cup kernelRun) \cap openFrames) % Word
  <2>1. IsFiniteSet(A) /\ IsFiniteSet(S)
    <3>1. IsFiniteSet(1..(locked.size * 8))
      <4>1. locked.size * 8 \in Int
        BY <1>3, <1>4
      <4> QED
        BY <4>1, FS_Interval
    <3>2. IsFiniteSet(openFrames)
      BY <1>5, <3>1, FS_Subset
    <3>3. A \in SUBSET openFrames /\ S \in SUBSET openFrames
      OBVIOUS
    <3> HIDE DEF A, S
    <3> QED
      BY <3>2, <3>3, FS_Subset
  <2>2. A \cap S = {} /\ (bitmapFrames \cup kernelRun) \cap openFrames = A \cup S
    OBVIOUS
  <2> HIDE DEF A, S
  <2>3. Cardinality(A \cup S) = Cardinality(A) + Cardinality(S)
    <3>1. Cardinality(A \cap S) = 0
      BY <2>2, FS_EmptySet
    <3>2. Cardinality(A) \in Nat /\ Cardinality(S) \in Nat
      BY <2>1, FS_CardinalityType
    <3> QED
      BY <2>1, <3>1, <3>2, FS_Union
  <2>4. locked.used = (initialized.used + Cardinality(S)) % Word
    BY <1>2, <1>6 DEF locked, lockPages, Sane, Allocators
  <2> DEFINE a == Cardinality(A)
             n == Cardinality(S)
  <2>5. a \in Nat /\ n \in Nat
    BY <2>1, FS_CardinalityType
  <2>6. locked.used = ((a % Word) + n) % Word
    BY <1>4, <2>4
  <2>7. Cardinality((bitmapFrames \cup kernelRun) \cap openFrames) = a + n
    BY <2>2, <2>3
  <2> HIDE DEF a, n
  <2>8. ((a % Word) + n) % Word = (a + n) % Word
    <3>1. a \in Int /\ n \in Int
      BY <2>5
    <3> QED
      BY <3>1, ModAdd, WordAssumption
  <2> QED
    BY <2>6, <2>7, <2>8
<1>9. NULL \in locked.bits
  BY <1>3, <1>4
<1> QED
  BY <1>3, <1>4, <1>5, <1>7, <1>8, <1>9

(* Of the frames that are clear then, the pool are the lowest; with what    *)
(* was counted before it fits into the bitmap.                              *)
LEMMA PoolFacts ==
  ASSUME machine \in Machines, pf.size = locked.size, pf.base = locked.base
  PROVE  LET N == Cardinality((bitmapFrames \cup kernelRun) \cap openFrames)
         IN  /\ Roomy(locked.bits, Bitmapped(locked), pool)
             /\ N \in Nat
             /\ locked.used = N % Word
             /\ N + Cardinality(pool) < Word
             /\ pool \cap machine.inUse = {}
<1> DEFINE D == Bitmapped(locked)
           B == locked.bits
           K == bitmapFrames \cup kernelRun
           X == K \cap openFrames
           N == Cardinality(X)
           low == PageRun(0, LowPages)
           C == ConventionalFrames(machine.map)
           last == locked.size * 8
<1>1. /\ Sane(locked)
      /\ locked.size = memoryPages \div 8 + 1
      /\ memoryPages \in Nat
      /\ NULL \in B
      /\ openFrames \subseteq 1..last
      /\ B = (0..last) \ (openFrames \ K)
      /\ locked.used = N % Word
  BY LockedFacts
<1>2. /\ last \in Nat /\ memoryPages < last /\ last < Word
      /\ D = 0..(last - 1)
  BY <1>1 DEF Sane, Bitmapped
<1>3. C \in SUBSET Nat /\ machine.inUse \cap C = {}
  BY MachinesAssumption, MapFacts
<1>4. \A f \in Nat : f \in memoryRange <=> f < memoryPages
  BY <1>1 DEF memoryRange
<1>5. pool = (C \cap memoryRange) \ (low \cup K)
  BY DEF pool, kernelRun
<1>6. \A f \in 0..last : f < memoryPages => (f \in openFrames <=> f \in C \ low)
  <2>1. openFrames = { f \in 0..last :
                         \/ f \in C
                         \/ f > memoryPages /\ ~(machine.stray /\ f = last) } \ low
    BY DEF openFrames
  <2>2. \A f \in 0..last : f < memoryPages => ~(f > memoryPages)
    BY <1>1
  <2> HIDE DEF C, low, last
  <2> QED
    BY <2>1, <2>2
<1> HIDE DEF D, B, K, low, C, last
<1>7. \A f \in Nat : f < memoryPages => f \in D /\ f \in 0..last
  BY <1>1, <1>2
<1>8. pool \subseteq Nat
  BY <1>3, <1>5
<1>9. pool \subseteq openFrames \ K
  BY <1>4, <1>5, <1>6, <1>7, <1>8
<1>10. pool \subseteq D \ B
  BY <1>1, <1>4, <1>5, <1>7, <1>8, <1>9
<1>11. ASSUME NEW f \in D \ B, NEW r \in pool, f <= r
       PROVE  f \in pool
  <2>1. f \in Nat /\ f \in 0..last
    BY <1>2
  <2>2. r \in Nat /\ r < memoryPages
    BY <1>4, <1>5, <1>8
  <2>3. f < memoryPages /\ f \in memoryRange
    BY <1>1, <1>4, <1>11, <2>1, <2>2
  <2>4. f \in openFrames \ K
    BY <1>1, <2>1
  <2>5. f \in C \ low
    BY <1>6, <2>1, <2>3, <2>4
  <2> QED
    BY <1>5, <2>3, <2>4, <2>5
<1>12. /\ IsFiniteSet(pool) /\ IsFiniteSet(X)
       /\ N \in Nat /\ Cardinality(pool) \in Nat
       /\ N + Cardinality(pool) <= last
  <2>1. IsFiniteSet(1..last) /\ Cardinality(1..last) = last
    <3>1. last \in Int /\ 1 \in Int
      BY <1>2
    <3>2. /\ IsFiniteSet(1..last)
          /\ Cardinality(1..last) = IF 1 > last THEN 0 ELSE last - 1 + 1
      BY <3>1, FS_Interval
    <3> QED
      BY <1>2, <3>2
  <2>2. X \subseteq 1..last /\ pool \subseteq 1..last /\ X \cap pool = {}
    BY <1>1, <1>9
  <2> HIDE DEF X
  <2>3. IsFiniteSet(pool) /\ IsFiniteSet(X)
    BY <2>1, <2>2, FS_Subset
  <2>4. Cardinality(X) \in Nat /\ Cardinality(pool) \in Nat
    BY <2>3, FS_CardinalityType
  <2>5. Cardinality(X \cup pool) = Cardinality(X) + Cardinality(pool)
    <3>1. Cardinality(X \cap pool) = 0
      BY <2>2, FS_EmptySet
    <3> QED
      BY <2>3, <2>4, <3>1, FS_Union
  <2>6. Cardinality(X \cup pool) <= last
    <3>1. X \cup pool \in SUBSET (1..last)
      BY <2>2
    <3> QED
      BY <2>1, <3>1, FS_Subset
  <2> QED
    BY <2>3, <2>4, <2>5, <2>6
<1>13. NULL \notin pool
  BY <1>1, <1>10
<1>14. Roomy(B, D, pool)
  BY <1>10, <1>11, <1>12, <1>13 DEF Roomy
<1>15. N + Cardinality(pool) < Word
  BY <1>2, <1>12, WordAssumption
<1>16. pool \cap machine.inUse = {}
  BY <1>3, <1>5
<1> QED
  BY <1>1, <1>12, <1>14, <1>15, <1>16 DEF B, D, K

-----------------------------------------------------------------------------
(* The inductive invariant.                                                 *)

allPages == memoryRange \cup fbRange

(* The pages the two loops have mapped so far. *)
done ==
  CASE pc = "mapMemory"      -> 0..(i - 1)
    [] pc = "mapFrameBuffer" -> memoryRange \cup (machine.fbStart..(i - 1))
    [] OTHER                 -> allPages

(* Before the first request the allocator is exactly what two calls make of *)
(* the zeroed globals.                                                      *)
Preparing ==
  /\ ram \in Memory(0..((memoryPages \div 8 + 1) * 8 - 1))
  /\ refused = FALSE /\ cr3 = Firmware /\ i = 0
  /\ \/ pc = "initializePageFrame" /\ pf = ZeroedAllocator
     \/ pc = "lockKernel" /\ pf = initialized
     \/ pc = "requestPML4" /\ pf = locked

(* How far the loops are, and where the processor looks up its pages.       *)
Progressing ==
  \/ pc = "mapMemory" /\ i \in 0..memoryPages /\ cr3 = Firmware
  \/ /\ pc = "mapFrameBuffer" /\ cr3 = Firmware
     /\ i \in machine.fbStart..(machine.fbStart + machine.fbPages)
  \/ pc = "loadCR3" /\ cr3 = Firmware
  \/ pc = "initializeInterrupts" /\ cr3 = pageTable
  \/ /\ pc = "reset" /\ cr3 = pageTable
     /\ enoughMemory => ~(inUse \subseteq allPages)

(* From then on, if there is enough memory, the tables are complete for     *)
(* what has been mapped.                                                    *)
Mapping ==
  /\ Progressing
  /\ SameBitmap(locked, pf)
  /\ enoughMemory =>
       /\ refused = FALSE
       /\ Complete(locked.bits, Bitmapped(locked), pool, locked.used,
                   pageTable, done, pf, ram)

IInv ==
  /\ machine \in Machines
  /\ Preparing \/ Mapping

LEMMA InitIInv == Init => IInv
<1> SUFFICES ASSUME Init
             PROVE  IInv
  OBVIOUS
<1>1. ram \in Memory(0..((memoryPages \div 8 + 1) * 8 - 1))
  <2>1. machine.junk \in Entry
    BY MachinesAssumption DEF Init
  <2> QED
    BY <2>1 DEF Init, Memory
<1> QED
  BY <1>1 DEF Init, IInv, Preparing

(* What the machine determines stays as it is, and so does the pool as long *)
(* as the bitmap does.                                                      *)
LEMMA MachineStays ==
  ASSUME machine' = machine
  PROVE  /\ memoryPages' = memoryPages
         /\ memoryRange' = memoryRange /\ fbRange' = fbRange /\ allPages' = allPages
         /\ inUse' = inUse /\ locked' = locked
         /\ pf'.size = pf.size /\ pf'.base = pf.base =>
              pool' = pool /\ enoughMemory' = enoughMemory
<1>1. memoryPages' = memoryPages /\ kernelPages' = kernelPages
  BY DEF memoryPages, kernelPages
<1>2. memoryRange' = memoryRange /\ fbRange' = fbRange /\ allPages' = allPages
  BY <1>1 DEF memoryRange, fbRange, allPages
<1>3. inUse' = inUse
  BY DEF inUse, kernelFrames
<1>4. locked' = locked
  BY <1>1 DEF locked, initialized, kernelRun
<1>5. ASSUME pf'.size = pf.size, pf'.base = pf.base
      PROVE  pool' = pool /\ enoughMemory' = enoughMemory
  <2>1. bitmapFrames' = bitmapFrames
    BY <1>5 DEF bitmapFrames
  <2>2. pool' = pool
    BY <1>1, <1>2, <2>1 DEF pool
  <2>3. tablesNeeded' = tablesNeeded
    BY <1>2 DEF tablesNeeded
  <2> QED
    BY <2>2, <2>3 DEF enoughMemory
<1> QED
  BY <1>1, <1>2, <1>3, <1>4, <1>5

(* Every page that is mapped has an address, and tables for some pages need *)
(* no more memory than tables for all.                                      *)
LEMMA NeededFacts ==
  ASSUME machine \in Machines
  PROVE  /\ allPages \subseteq addressSpace
         /\ \A P \in SUBSET allPages :
              enoughMemory => Cardinality(tablesFor(P)) <= Cardinality(pool)
<1>1. memoryPages \in Nat /\ memoryRange \subseteq addressSpace
  BY MachinesAssumption DEF memoryPages, ValidMap, memoryRange
<1>2. fbRange \subseteq addressSpace /\ machine.fbStart \in Nat /\ machine.fbPages \in Nat
  BY MachinesAssumption DEF fbRange
<1>3. IsFiniteSet(tablesFor(allPages))
  <2>1. IsFiniteSet(memoryRange) /\ IsFiniteSet(fbRange)
    <3>1. /\ 0 \in Int /\ memoryPages - 1 \in Int
          /\ machine.fbStart \in Int
          /\ machine.fbStart + machine.fbPages - 1 \in Int
      BY <1>1, <1>2
    <3> QED
      BY <3>1, FS_Interval DEF memoryRange, fbRange
  <2>2. IsFiniteSet(allPages)
    BY <2>1, FS_Union DEF allPages
  <2> QED
    BY <2>2, TablesForFacts
<1>4. ASSUME NEW P \in SUBSET allPages, enoughMemory
      PROVE  Cardinality(tablesFor(P)) <= Cardinality(pool)
  <2>1. tablesFor(P) \in SUBSET tablesFor(allPages)
    BY TablesForFacts
  <2>2. /\ IsFiniteSet(tablesFor(P))
        /\ Cardinality(tablesFor(P)) <= Cardinality(tablesFor(allPages))
    BY <1>3, <2>1, FS_Subset
  <2>3. Cardinality(tablesFor(P)) \in Nat /\ Cardinality(tablesFor(allPages)) \in Nat
    BY <1>3, <2>2, FS_CardinalityType
  <2>4. Cardinality(tablesFor(allPages)) <= Cardinality(pool)
    BY <1>4 DEF enoughMemory, tablesNeeded, allPages
  <2>5. Cardinality(pool) \in Nat
    <3>1. IsFiniteSet(memoryRange)
      <4>1. 0 \in Int /\ memoryPages - 1 \in Int
        BY <1>1
      <4> QED
        BY <4>1, FS_Interval DEF memoryRange
    <3>2. pool \in SUBSET memoryRange
      BY DEF pool
    <3> QED
      BY <3>1, <3>2, FS_Subset, FS_CardinalityType
  <2> QED
    BY <2>2, <2>3, <2>4, <2>5
<1> QED
  BY <1>1, <1>2, <1>4 DEF allPages

-----------------------------------------------------------------------------
(* One action after the other.                                              *)

(* The root is requested from the pool, when nothing of it is taken yet.    *)
LEMMA RequestStep ==
  ASSUME IInv, RequestPML4
  PROVE  IInv'
<1>1. /\ machine \in Machines /\ Preparing
      /\ pc = "requestPML4" /\ pc' = "mapMemory"
      /\ pf' = requestPage(pf)
      /\ pageTable' = requestedPage(pf)
      /\ ram' = memsetTable(ram, requestedPage(pf))
      /\ refused' = (requestedPage(pf) = NULL)
      /\ machine' = machine /\ i' = i /\ cr3' = cr3
  BY DEF IInv, RequestPML4, Mapping, Progressing
<1>2. pf = locked /\ i = 0 /\ cr3 = Firmware
  BY <1>1 DEF Preparing
<1>3. /\ Sane(pf)
      /\ pf.size = memoryPages \div 8 + 1
      /\ memoryPages \in Nat
      /\ NULL \in pf.bits
  BY <1>1, <1>2, LockedFacts
<1>4. Sound(pf, ram)
  <2>1. pf.size * 8 <= EntryFrames
    BY <1>1, <1>3, MachinesAssumption DEF memoryPages
  <2>2. NULL \in Bitmapped(pf)
    BY <1>3 DEF Bitmapped, NULL
  <2>3. ram \in Memory(Bitmapped(pf))
    BY <1>1, <1>3 DEF Preparing, Bitmapped
  <2> QED
    BY <1>3, <2>1, <2>2, <2>3 DEF Sound
<1>5. SameBitmap(locked, pf')
  BY <1>1, <1>2, <1>3, RequestFacts DEF SameBitmap
<1>6. /\ memoryPages' = memoryPages /\ locked' = locked
      /\ pool' = pool /\ enoughMemory' = enoughMemory
  <2>1. pf'.size = pf.size /\ pf'.base = pf.base
    BY <1>2, <1>5 DEF SameBitmap
  <2> QED
    BY <1>1, <2>1, MachineStays
<1>7. Progressing'
  BY <1>1, <1>2, <1>3, <1>6 DEF Progressing
<1>8. done' = {}
  BY <1>1, <1>2 DEF done
<1>9. ASSUME enoughMemory'
      PROVE  /\ refused' = FALSE
             /\ Complete(locked.bits, Bitmapped(locked), pool, locked.used,
                         pageTable', {}, pf', ram')
  <2>1. Roomy(pf.bits, Bitmapped(pf), pool)
    BY <1>1, <1>2, PoolFacts
  <2>2. Cardinality(tablesFor({})) <= Cardinality(pool)
    <3>1. {} \in SUBSET allPages
      OBVIOUS
    <3> QED
      BY <1>1, <1>6, <1>9, <3>1, NeededFacts
  <2>3. pf.used \in Nat /\ pf.used = pf.used % Word
    <3>1. pf.used \in 0..(Word - 1)
      BY <1>3 DEF Sane, Allocators
    <3> QED
      BY <3>1, WordAssumption
  <2>4. /\ requestedPage(pf) # NULL
        /\ Complete(pf.bits, Bitmapped(pf), pool, pf.used, requestedPage(pf), {},
                    requestPage(pf), memsetTable(ram, requestedPage(pf)))
    BY <1>4, <2>1, <2>2, <2>3, MapRoot
  <2> QED
    BY <1>1, <1>2, <2>4
<1>10. Mapping'
  BY <1>5, <1>6, <1>7, <1>8, <1>9 DEF Mapping
<1> QED
  BY <1>1, <1>10 DEF IInv

(* A pass of either loop maps one page more. *)
LEMMA PassStep ==
  ASSUME machine \in Machines, Mapping, i \in allPages, done \subseteq allPages,
         mapIdentity, machine' = machine, pageTable' = pageTable
  PROVE  /\ SameBitmap(locked', pf')
         /\ enoughMemory' =>
              /\ refused' = FALSE
              /\ Complete(locked'.bits, Bitmapped(locked'), pool', locked'.used,
                          pageTable', done \cup {i}, pf', ram')
<1> DEFINE s == mapMemory(pf, ram, pageTable, i, i)
<1>1. pf' = s.pf /\ ram' = s.ram /\ refused' = (refused \/ s.refused)
  BY DEF mapIdentity
<1>2. Sane(pf) /\ pf.size = locked.size /\ pf.base = locked.base
  BY DEF Mapping, SameBitmap
<1>3. SameBitmap(pf, pf')
  BY <1>1, <1>2, MapMemorySane
<1> HIDE DEF s
<1>4. locked' = locked /\ pool' = pool /\ enoughMemory' = enoughMemory
  BY <1>3, MachineStays DEF SameBitmap
<1>5. SameBitmap(locked', pf')
  BY <1>2, <1>3, <1>4 DEF SameBitmap
<1>6. ASSUME enoughMemory'
      PROVE  /\ refused' = FALSE
             /\ Complete(locked'.bits, Bitmapped(locked'), pool', locked'.used,
                         pageTable', done \cup {i}, pf', ram')
  <2> DEFINE B == locked.bits
             D == Bitmapped(locked)
             u == locked.used
             P == done
             page == i
  <2>1. /\ refused = FALSE
        /\ Complete(B, D, pool, u, pageTable, P, pf, ram)
    BY <1>4, <1>6 DEF Mapping
  <2>2. Roomy(B, D, pool) /\ u \in Nat
    <3>1. Sane(locked)
      BY <1>2, LockedFacts
    <3>2. u \in 0..(Word - 1)
      BY <3>1 DEF Sane, Allocators
    <3>3. u \in Nat
      BY <3>2, WordAssumption
    <3> QED
      BY <1>2, <3>3, PoolFacts
  <2>3. page \in addressSpace
    BY NeededFacts
  <2>4. Cardinality(tablesFor(P \cup {page})) <= Cardinality(pool)
    <3>1. P \cup {page} \in SUBSET allPages
      OBVIOUS
    <3> HIDE DEF P, page
    <3> QED
      BY <1>4, <1>6, <3>1, NeededFacts
  <2> DEFINE R == pool
             root == pageTable
             p == pf
             mem == ram
  <2>5. /\ Roomy(B, D, R) /\ u \in Nat
        /\ Complete(B, D, R, u, root, P, p, mem)
        /\ page \in addressSpace
        /\ Cardinality(tablesFor(P \cup {page})) <= Cardinality(R)
    BY <2>1, <2>2, <2>3, <2>4
  <2>6. s = mapMemory(p, mem, root, page, page)
    BY DEF s
  <2> HIDE DEF B, D, u, P, page, R, root, p, mem
  <2>7. LET r == mapMemory(p, mem, root, page, page)
        IN  /\ r.refused = FALSE
            /\ Complete(B, D, R, u, root, P \cup {page}, r.pf, r.ram)
    BY <2>5, MapPage
  <2>8. s.refused = FALSE /\ Complete(B, D, R, u, root, P \cup {page}, s.pf, s.ram)
    BY <2>6, <2>7
  <2>9. refused' = FALSE
    BY <1>1, <2>1, <2>8
  <2>10. Complete(B, D, R, u, root, P \cup {page}, pf', ram')
    BY <1>1, <2>8
  <2> QED
    BY <1>4, <2>9, <2>10 DEF B, D, R, u, root, P, page
<1> QED
  BY <1>5, <1>6

(* Nothing but the pages mapped, the page to go on with and the place in    *)
(* kernel_main is different.                                                *)
LEMMA KeepMapping ==
  ASSUME Mapping, machine' = machine, pf' = pf, ram' = ram, pageTable' = pageTable,
         refused' = refused, done' = done, Progressing'
  PROVE  Mapping'
<1>1. locked' = locked /\ pool' = pool /\ enoughMemory' = enoughMemory
  BY MachineStays
<1> QED
  BY <1>1 DEF Mapping

LEMMA MapMemoryStep ==
  ASSUME IInv, MapMemory
  PROVE  IInv'
<1>1. /\ machine \in Machines /\ Mapping
      /\ pc = "mapMemory"
      /\ machine' = machine /\ pageTable' = pageTable /\ cr3' = cr3
  BY DEF IInv, MapMemory, Preparing
<1>2. memoryPages \in Nat /\ machine.fbStart \in Nat /\ machine.fbPages \in Nat
  BY <1>1, MachinesAssumption DEF memoryPages, ValidMap
<1>3. i \in 0..memoryPages /\ cr3 = Firmware /\ done = 0..(i - 1)
  BY <1>1 DEF Mapping, Progressing, done
<1>4. memoryPages' = memoryPages /\ memoryRange' = memoryRange
  BY <1>1, MachineStays
<1>5. CASE i < memoryPages /\ mapIdentity /\ i' = i + 1 /\ pc' = pc
  <2>1. i \in allPages /\ done \subseteq allPages
    BY <1>2, <1>3, <1>5 DEF allPages, memoryRange
  <2>2. /\ SameBitmap(locked', pf')
        /\ enoughMemory' =>
             /\ refused' = FALSE
             /\ Complete(locked'.bits, Bitmapped(locked'), pool', locked'.used,
                         pageTable', done \cup {i}, pf', ram')
    BY <1>1, <1>5, <2>1, PassStep
  <2>3. done' = done \cup {i}
    <3>1. done' = 0..((i + 1) - 1)
      BY <1>1, <1>5 DEF done
    <3> QED
      BY <1>3, <3>1
  <2>4. Progressing'
    <3>1. i + 1 \in 0..memoryPages
      BY <1>2, <1>3, <1>5
    <3> QED
      BY <1>1, <1>3, <1>4, <1>5, <3>1 DEF Progressing
  <2>5. Mapping'
    BY <2>2, <2>3, <2>4 DEF Mapping
  <2> QED
    BY <1>1, <2>5 DEF IInv
<1>6. CASE /\ i >= memoryPages
           /\ pc' = "mapFrameBuffer"
           /\ i' = machine.fbStart
           /\ UNCHANGED <<pf, ram, refused>>
  <2>1. done = memoryRange
    BY <1>2, <1>3, <1>6 DEF memoryRange
  <2>2. done' = memoryRange
    <3>1. done' = memoryRange \cup (machine.fbStart..(machine.fbStart - 1))
      BY <1>1, <1>4, <1>6 DEF done
    <3>2. machine.fbStart..(machine.fbStart - 1) = {}
      BY <1>2
    <3> QED
      BY <3>1, <3>2
  <2>3. Progressing'
    <3>1. machine.fbStart \in machine.fbStart..(machine.fbStart + machine.fbPages)
      BY <1>2
    <3> QED
      BY <1>1, <1>3, <1>6, <3>1 DEF Progressing
  <2>4. Mapping'
    BY <1>1, <1>6, <2>1, <2>2, <2>3, KeepMapping
  <2> QED
    BY <1>1, <2>4 DEF IInv
<1> QED
  BY <1>5, <1>6 DEF MapMemory

LEMMA MapFrameBufferStep ==
  ASSUME IInv, MapFrameBuffer
  PROVE  IInv'
<1>1. /\ machine \in Machines /\ Mapping
      /\ pc = "mapFrameBuffer"
      /\ machine' = machine /\ pageTable' = pageTable /\ cr3' = cr3
  BY DEF IInv, MapFrameBuffer, Preparing
<1>2. machine.fbStart \in Nat /\ machine.fbPages \in Nat
  BY <1>1, MachinesAssumption
<1>3. /\ i \in machine.fbStart..(machine.fbStart + machine.fbPages)
      /\ cr3 = Firmware
      /\ done = memoryRange \cup (machine.fbStart..(i - 1))
  BY <1>1 DEF Mapping, Progressing, done
<1>4. memoryRange' = memoryRange /\ allPages' = allPages
  BY <1>1, MachineStays
<1>5. CASE /\ i < machine.fbStart + machine.fbPages
           /\ mapIdentity /\ i' = i + 1 /\ pc' = pc
  <2>1. i \in allPages /\ done \subseteq allPages
    BY <1>2, <1>3, <1>5 DEF allPages, fbRange
  <2>2. /\ SameBitmap(locked', pf')
        /\ enoughMemory' =>
             /\ refused' = FALSE
             /\ Complete(locked'.bits, Bitmapped(locked'), pool', locked'.used,
                         pageTable', done \cup {i}, pf', ram')
    BY <1>1, <1>5, <2>1, PassStep
  <2>3. done' = done \cup {i}
    <3>1. done' = memoryRange \cup (machine.fbStart..((i + 1) - 1))
      BY <1>1, <1>4, <1>5 DEF done
    <3>2. machine.fbStart..((i + 1) - 1) = (machine.fbStart..(i - 1)) \cup {i}
      BY <1>2, <1>3
    <3> QED
      BY <1>3, <3>1, <3>2
  <2>4. Progressing'
    <3>1. i + 1 \in machine.fbStart..(machine.fbStart + machine.fbPages)
      BY <1>2, <1>3, <1>5
    <3> QED
      BY <1>1, <1>3, <1>5, <3>1 DEF Progressing
  <2>5. Mapping'
    BY <2>2, <2>3, <2>4 DEF Mapping
  <2> QED
    BY <1>1, <2>5 DEF IInv
<1>6. CASE /\ i >= machine.fbStart + machine.fbPages
           /\ pc' = "loadCR3"
           /\ UNCHANGED <<pf, ram, i, refused>>
  <2>1. done = allPages
    BY <1>2, <1>3, <1>6 DEF allPages, fbRange
  <2>2. done' = allPages
    BY <1>4, <1>6 DEF done
  <2>3. Progressing'
    BY <1>1, <1>3, <1>6 DEF Progressing
  <2>4. Mapping'
    BY <1>1, <1>6, <2>1, <2>2, <2>3, KeepMapping
  <2> QED
    BY <1>1, <2>4 DEF IInv
<1> QED
  BY <1>5, <1>6 DEF MapFrameBuffer

(* Once all is mapped, only what lies above can be missing.                 *)
LEMMA LoadCR3Step ==
  ASSUME IInv, LoadCR3
  PROVE  IInv'
<1>1. /\ machine \in Machines /\ Mapping
      /\ pc = "loadCR3"
      /\ cr3' = pageTable
      /\ pc' = IF \A f \in inUse : translate(ram, pageTable, f) = f
                 THEN "initializeInterrupts" ELSE "reset"
      /\ machine' = machine /\ pf' = pf /\ ram' = ram
      /\ pageTable' = pageTable /\ i' = i /\ refused' = refused
  BY DEF IInv, LoadCR3, Preparing
<1>2. /\ allPages' = allPages /\ inUse' = inUse /\ enoughMemory' = enoughMemory
  BY <1>1, MachineStays
<1>3. done = allPages /\ done' = allPages
  BY <1>1, <1>2 DEF done
<1>4. CASE \A f \in inUse : translate(ram, pageTable, f) = f
  <2>1. pc' = "initializeInterrupts"
    BY <1>1, <1>4
  <2>2. Progressing'
    BY <1>1, <2>1 DEF Progressing
  <2> QED
    BY <1>1, <1>3, <2>2, KeepMapping DEF IInv
<1>5. CASE ~ \A f \in inUse : translate(ram, pageTable, f) = f
  <2>1. pc' = "reset"
    BY <1>1, <1>5
  <2>2. ASSUME enoughMemory, inUse \subseteq allPages
        PROVE  FALSE
    <3>1. \A page \in addressSpace :
            translate(ram, pageTable, page) = IF page \in done THEN page ELSE Unmapped
      BY <1>1, <2>2 DEF Mapping, Complete
    <3>2. allPages \subseteq addressSpace
      BY <1>1, NeededFacts
    <3> QED
      BY <1>3, <1>5, <2>2, <3>1, <3>2
  <2>3. enoughMemory' => ~(inUse' \subseteq allPages')
    BY <1>2, <2>2
  <2>4. Progressing'
    BY <1>1, <2>1, <2>3 DEF Progressing
  <2> QED
    BY <1>1, <1>3, <2>4, KeepMapping DEF IInv
<1> QED
  BY <1>4, <1>5

LEMMA NextIInv == IInv /\ [Next]_vars => IInv'
<1> SUFFICES ASSUME IInv, [Next]_vars
             PROVE  IInv'
  OBVIOUS
<1>1. CASE InitializePageFrame
  <2>1. /\ machine \in Machines /\ Preparing /\ pf = ZeroedAllocator
        /\ machine' = machine /\ ram' = ram /\ i' = i /\ cr3' = cr3 /\ refused' = refused
        /\ pf' = initializePageFrame(pf, machine.map, machine.stray)
        /\ pc' = "lockKernel"
    BY <1>1 DEF IInv, InitializePageFrame, Mapping, Progressing, Preparing
  <2>2. memoryPages' = memoryPages
    BY <2>1, MachineStays
  <2>3. pf' = initialized'
    BY <2>1 DEF initialized
  <2> QED
    BY <2>1, <2>2, <2>3 DEF IInv, Preparing
<1>2. CASE LockKernel
  <2>1. /\ machine \in Machines /\ Preparing /\ pf = initialized
        /\ machine' = machine /\ ram' = ram /\ i' = i /\ cr3' = cr3 /\ refused' = refused
        /\ pf' = lockPages(pf, PageRun(machine.kernelStart, kernelPages))
        /\ pc' = "requestPML4"
    BY <1>2 DEF IInv, LockKernel, Mapping, Progressing, Preparing
  <2>2. memoryPages' = memoryPages /\ locked' = locked
    BY <2>1, MachineStays
  <2>3. pf' = locked'
    BY <2>1, <2>2 DEF locked, kernelRun
  <2> QED
    BY <2>1, <2>2, <2>3 DEF IInv, Preparing
<1>3. CASE RequestPML4
  BY <1>3, RequestStep
<1>4. CASE MapMemory
  BY <1>4, MapMemoryStep
<1>5. CASE MapFrameBuffer
  BY <1>5, MapFrameBufferStep
<1>6. CASE LoadCR3
  BY <1>6, LoadCR3Step
<1>7. CASE UNCHANGED vars
  <2>1. /\ machine' = machine /\ pc' = pc /\ pf' = pf /\ ram' = ram
        /\ pageTable' = pageTable /\ i' = i /\ cr3' = cr3 /\ refused' = refused
    BY <1>7 DEF vars
  <2>2. /\ memoryPages' = memoryPages /\ memoryRange' = memoryRange
        /\ allPages' = allPages /\ inUse' = inUse /\ locked' = locked
        /\ enoughMemory' = enoughMemory
    BY <2>1, MachineStays
  <2>3. initialized' = initialized /\ done' = done
    BY <2>1, <2>2 DEF initialized, done
  <2>4. Preparing => Preparing'
    BY <2>1, <2>2, <2>3 DEF Preparing
  <2>5. Mapping => Mapping'
    <3>1. Progressing => Progressing'
      BY <2>1, <2>2 DEF Progressing
    <3> QED
      BY <2>1, <2>3, <3>1, KeepMapping DEF Mapping
  <2> QED
    BY <2>1, <2>4, <2>5 DEF IInv
<1>8. CASE Stop
  BY <1>7, <1>8 DEF Stop
<1> QED
  BY <1>1, <1>2, <1>3, <1>4, <1>5, <1>6, <1>7, <1>8 DEF Next

-----------------------------------------------------------------------------
(* The theorems.                                                            *)

(* The inductive invariant holds in every reachable state. *)
THEOREM Invariant == Spec => []IInv
BY InitIInv, NextIInv, PTL DEF Spec

(* The states in which a page table may exist, with enough memory for all. *)
LEMMA BuiltFacts ==
  ASSUME IInv, enoughMemory,
         pc \notin {"initializePageFrame", "lockKernel", "requestPML4"}
  PROVE  /\ machine \in Machines
         /\ Progressing
         /\ pf.size = locked.size /\ pf.base = locked.base
         /\ refused = FALSE
         /\ Complete(locked.bits, Bitmapped(locked), pool, locked.used,
                     pageTable, done, pf, ram)
BY DEF IInv, Preparing, Mapping, SameBitmap

(* With enough memory for the page tables boot is refused no frame.         *)
THEOREM NeverRefused == Spec => []RefusedOnlyWithoutMemory
<1>1. IInv => RefusedOnlyWithoutMemory
  BY DEF IInv, Preparing, Mapping, RefusedOnlyWithoutMemory
<1> QED
  BY <1>1, Invariant, PTL

(* The page tables lie in frames that nothing else uses.                    *)
THEOREM TablesFromPool == Spec => []TablesInFreeMemory
<1>1. IInv => TablesInFreeMemory
  <2> SUFFICES ASSUME IInv, enoughMemory,
                      pc \notin {"initializePageFrame", "lockKernel", "requestPML4"}
               PROVE  upperTables(ram, pageTable) \cup PTs(ram, pageTable)
                        \subseteq pool \ machine.inUse
    BY DEF TablesInFreeMemory
  <2> DEFINE T == Taken(pf, locked.bits)
  <2>1. /\ machine \in Machines
        /\ pf.size = locked.size /\ pf.base = locked.base
        /\ Complete(locked.bits, Bitmapped(locked), pool, locked.used,
                    pageTable, done, pf, ram)
    BY BuiltFacts
  <2>2. Tree(ram, pageTable, T)
    BY <2>1 DEF Complete
  <2>3. T \subseteq pool
    BY <2>1 DEF Complete, Grown, Counted
  <2>4. pool \cap machine.inUse = {}
    BY <2>1, PoolFacts
  <2> HIDE DEF T
  <2>5. upperTables(ram, pageTable) \subseteq T /\ PTs(ram, pageTable) \subseteq T
    BY <2>2, TreeFacts
  <2> QED
    BY <2>3, <2>4, <2>5
<1> QED
  BY <1>1, Invariant, PTL

(* The processor finds every page of memory and of the frame buffer where   *)
(* the firmware had it, and no other page.                                  *)
THEOREM Identity == Spec => []IdentityMapped
<1>1. IInv => IdentityMapped
  <2> SUFFICES ASSUME IInv, cr3 # Firmware, enoughMemory,
                      NEW page \in addressSpace
               PROVE  translate(ram, cr3, page) =
                        IF page \in memoryRange \cup fbRange THEN page ELSE Unmapped
    BY DEF IdentityMapped
  <2>1. Mapping /\ pc \in {"initializeInterrupts", "reset"} /\ cr3 = pageTable
    BY DEF IInv, Preparing, Mapping, Progressing
  <2>2. done = memoryRange \cup fbRange
    BY <2>1 DEF done, allPages
  <2>3. Complete(locked.bits, Bitmapped(locked), pool, locked.used,
                 pageTable, done, pf, ram)
    BY <2>1 DEF Mapping
  <2> QED
    BY <2>1, <2>2, <2>3 DEF Complete
<1> QED
  BY <1>1, Invariant, PTL

(* Loading CR3 is survived unless something in use lies above the memory    *)
(* size and outside the frame buffer.                                       *)
THEOREM ResetExplained == Spec => []ResetOnlyAboveMemorySize
<1>1. IInv => ResetOnlyAboveMemorySize
  BY DEF IInv, Preparing, Mapping, Progressing, ResetOnlyAboveMemorySize, allPages
<1> QED
  BY <1>1, Invariant, PTL

(* getUsedRAM counts the tables, the bitmap and the kernel, exactly: their  *)
(* sum does not wrap.                                                       *)
THEOREM UsedMemory == Spec => []UsedMemoryAccounted
<1>1. IInv => UsedMemoryAccounted
  <2> DEFINE N == Cardinality((bitmapFrames \cup kernelRun) \cap openFrames)
             M == tablesNeeded
  <2> SUFFICES ASSUME IInv, cr3 # Firmware, enoughMemory
               PROVE  pf.used = N + M
    BY DEF UsedMemoryAccounted, kernelRun
  <2>1. Mapping /\ pc \in {"initializeInterrupts", "reset"}
    BY DEF IInv, Preparing, Mapping, Progressing
  <2>2. tablesFor(done) = tablesFor(memoryRange \cup fbRange)
    BY <2>1 DEF done, allPages
  <2>3. /\ machine \in Machines
        /\ pf.size = locked.size /\ pf.base = locked.base
    BY <2>1 DEF IInv, Mapping, SameBitmap
  <2>4. Counted(locked.bits, pool, locked.used, pf, tablesFor(done))
    BY <2>1 DEF Mapping, Complete, Grown
  <2>5. pf.used = (locked.used + M) % Word /\ M \in Nat
    BY <2>2, <2>4, FS_CardinalityType DEF Counted, tablesNeeded
  <2>6. /\ N \in Nat
        /\ locked.used = N % Word
        /\ N + Cardinality(pool) < Word
    BY <2>3, PoolFacts
  <2>7. Cardinality(pool) \in Nat /\ M <= Cardinality(pool)
    <3>1. IsFiniteSet(pool)
      BY <2>3, PoolFacts DEF Roomy
    <3> QED
      BY <3>1, FS_CardinalityType DEF enoughMemory
  <2> HIDE DEF N, M
  <2>8. N \in 0..(Word - 1) /\ N + M \in 0..(Word - 1)
    BY <2>5, <2>6, <2>7, WordAssumption
  <2>9. locked.used = N
    BY <2>6, <2>8, WordAssumption
  <2> QED
    BY <2>5, <2>8, <2>9, WordAssumption
<1> QED
  BY <1>1, Invariant, PTL
=============================================================================
