---------------------------- MODULE MemoryProofs ----------------------------
(***************************************************************************)
(* Lemmas about the operators of the page-frame allocator and of the page  *)
(* tables, for whoever calls them.                                         *)
(*                                                                         *)
(* The allocator: a state is Sane when it has its type and a sound hint,   *)
(* and Accounted when its counters match its bitmap.  The four *Pages      *)
(* operators and requestPage preserve both, so every call does, and so     *)
(* does the chain of calls that initializePageFrame makes from a cleared   *)
(* bitmap.                                                                 *)
(*                                                                         *)
(* The tables: which pages share an index, what makes the tables a tree,   *)
(* and what hanging a table, writing a leaf and a whole mapMemory do to    *)
(* the tree and to every walk through it.                                  *)
(***************************************************************************)
EXTENDS PageTableOps, FiniteSetTheorems, WellFoundedInduction, TLAPS

-----------------------------------------------------------------------------
(* Arithmetic of the 64-bit counters.                                       *)

(* Two remainders of the same number are equal. *)
LEMMA RemainderUnique ==
  ASSUME NEW w \in Nat \ {0}, NEW k \in Int,
         NEW r \in 0..(w - 1), NEW s \in 0..(w - 1), s = k * w + r
  PROVE  s = r
<1>1. CASE k >= 1
  <2>1. k * w >= w
    BY <1>1
  <2> QED
    BY <2>1
<1>2. CASE k <= -1
  <2>1. k * w <= -w
    BY <1>2
  <2> QED
    BY <2>1
<1>3. CASE k = 0
  BY <1>3
<1> QED
  BY <1>1, <1>2, <1>3

(* An addition may be reduced before or after: uint64_t sums do not care.   *)
LEMMA ModAdd ==
  ASSUME NEW w \in Nat \ {0}, NEW a \in Int, NEW b \in Int
  PROVE  ((a % w) + b) % w = (a + b) % w
<1> DEFINE qa == a \div w
           ra == a % w
           qs == (ra + b) \div w
           rs == (ra + b) % w
           qt == (a + b) \div w
           rt == (a + b) % w
<1>1. a = qa * w + ra /\ qa \in Int /\ ra \in 0..(w - 1)
  OBVIOUS
<1>2. ra + b = qs * w + rs /\ qs \in Int /\ rs \in 0..(w - 1)
  BY <1>1
<1>3. a + b = qt * w + rt /\ qt \in Int /\ rt \in 0..(w - 1)
  OBVIOUS
<1> HIDE DEF qa, ra, qs, rs, qt, rt
<1>4. rs = (qt - qa - qs) * w + rt
  BY <1>1, <1>2, <1>3
<1>5. rs = rt
  BY <1>1, <1>2, <1>3, <1>4, RemainderUnique
<1> QED
  BY <1>5 DEF ra, rs, rt

(* The two equations of CountersMatchBitmap, for h bits set, r bytes        *)
(* reserved, u used, f free, a memory of t pages and s stray bits.          *)
Balanced(w, h, r, u, f, t, s) ==
  /\ (r + u + s) % w = h % w
  /\ (f + h) % w = (t + s) % w

(* What an operation does to the counters: n more bits are set, reserved or *)
(* used moves up by n, free moves down by n.  The equations survive.        *)
LEMMA CountersUp ==
  ASSUME NEW w \in Nat \ {0}, NEW n \in Int, NEW h \in Int,
         NEW r \in Int, NEW u \in Int, NEW f \in Int, NEW t \in Int, NEW s \in Int,
         Balanced(w, h, r, u, f, t, s)
  PROVE  /\ Balanced(w, h + n, (r + n) % w, u, (f - n) % w, t, s)
         /\ Balanced(w, h + n, r, (u + n) % w, (f - n) % w, t, s)
<1>1. (r + u + s) % w = h % w /\ (f + h) % w = (t + s) % w
  BY DEF Balanced
<1>2. (r + u + s + n) % w = (h + n) % w
  <2> DEFINE x == r + u + s
  <2>1. x \in Int
    OBVIOUS
  <2>2. x % w = h % w
    BY <1>1
  <2> HIDE DEF x
  <2>3. (x + n) % w = (h + n) % w
    <3>1. ((x % w) + n) % w = (x + n) % w
      BY <2>1, ModAdd
    <3>2. ((h % w) + n) % w = (h + n) % w
      BY ModAdd
    <3> QED
      BY <2>2, <3>1, <3>2
  <2> QED
    BY <2>3 DEF x
<1>3. ASSUME NEW x \in Int, NEW y \in Int, NEW z \in Int, x + y = z
      PROVE  ((x % w) + y) % w = z % w
  <2>1. ((x % w) + y) % w = (x + y) % w
    BY ModAdd
  <2> QED
    BY <1>3, <2>1
<1>4. (((r + n) % w) + (u + s)) % w = (r + u + s + n) % w
  <2> DEFINE x == r + n
             y == u + s
             z == r + u + s + n
  <2>1. x \in Int /\ y \in Int /\ z \in Int /\ x + y = z
    OBVIOUS
  <2> HIDE DEF x, y, z
  <2>2. ((x % w) + y) % w = z % w
    BY <2>1, <1>3
  <2> QED
    BY <2>2 DEF x, y, z
<1>5. (((u + n) % w) + (r + s)) % w = (r + u + s + n) % w
  <2> DEFINE x == u + n
             y == r + s
             z == r + u + s + n
  <2>1. x \in Int /\ y \in Int /\ z \in Int /\ x + y = z
    OBVIOUS
  <2> HIDE DEF x, y, z
  <2>2. ((x % w) + y) % w = z % w
    BY <2>1, <1>3
  <2> QED
    BY <2>2 DEF x, y, z
<1>6. (((f - n) % w) + (h + n)) % w = (f + h) % w
  <2> DEFINE x == f - n
             y == h + n
             z == f + h
  <2>1. x \in Int /\ y \in Int /\ z \in Int /\ x + y = z
    OBVIOUS
  <2> HIDE DEF x, y, z
  <2>2. ((x % w) + y) % w = z % w
    BY <2>1, <1>3
  <2> QED
    BY <2>2 DEF x, y, z
<1> DEFINE rn == (r + n) % w
           un == (u + n) % w
           fn == (f - n) % w
<1>7. rn \in Int /\ un \in Int /\ fn \in Int
  OBVIOUS
<1>8. /\ (rn + (u + s)) % w = (h + n) % w
      /\ (un + (r + s)) % w = (h + n) % w
      /\ (fn + (h + n)) % w = (t + s) % w
  BY <1>1, <1>2, <1>4, <1>5, <1>6
<1> HIDE DEF rn, un, fn
<1>9. rn + (u + s) = rn + u + s /\ un + (r + s) = r + un + s
  BY <1>7
<1>10. Balanced(w, h + n, rn, u, fn, t, s) /\ Balanced(w, h + n, r, un, fn, t, s)
  BY <1>8, <1>9 DEF Balanced
<1> QED
  BY <1>10 DEF rn, un, fn

(* The way back: n fewer bits are set.                                      *)
LEMMA CountersDown ==
  ASSUME NEW w \in Nat \ {0}, NEW n \in Int, NEW h \in Int,
         NEW r \in Int, NEW u \in Int, NEW f \in Int, NEW t \in Int, NEW s \in Int,
         Balanced(w, h, r, u, f, t, s)
  PROVE  /\ Balanced(w, h - n, (r - n) % w, u, (f + n) % w, t, s)
         /\ Balanced(w, h - n, r, (u - n) % w, (f + n) % w, t, s)
<1> DEFINE m == -n
<1>1. m \in Int
  OBVIOUS
<1>2. h + m = h - n /\ r + m = r - n /\ u + m = u - n /\ f - m = f + n
  OBVIOUS
<1> HIDE DEF m
<1>3. /\ Balanced(w, h + m, (r + m) % w, u, (f - m) % w, t, s)
      /\ Balanced(w, h + m, r, (u + m) % w, (f - m) % w, t, s)
  BY <1>1, CountersUp
<1> QED
  BY <1>2, <1>3

(* A non-empty set of naturals has a least element, and Min finds it.  (The *)
(* intervals 0..x, ordered by inclusion, are well-founded.)                 *)
LEMMA MinOfNaturals ==
  ASSUME NEW S \in SUBSET Nat, S # {}
  PROVE  Min(S) \in S /\ \A y \in S : Min(S) <= y
<1> DEFINE T == {0..x : x \in S}
<1>1. \A x \in Nat : 0..x \in FiniteSubsetsOf(Nat)
  BY FS_Interval DEF FiniteSubsetsOf
<1>2. PICK t \in T : \A u \in T : ~ (<<u, t>> \in StrictSubsetOrdering(Nat))
  <2>1. T \subseteq FiniteSubsetsOf(Nat) /\ T # {}
    BY <1>1
  <2> HIDE DEF T
  <2> QED
    BY <2>1, FS_StrictSubsetOrderingWellFounded, WFMin
<1>3. PICK x \in S : t = 0..x
  OBVIOUS
<1>4. ASSUME NEW y \in S
      PROVE  x <= y
  <2>1. ~ (<<0..y, 0..x>> \in StrictSubsetOrdering(Nat))
    BY <1>2, <1>3
  <2>2. 0..y \in SUBSET Nat /\ 0..x \in SUBSET Nat
    OBVIOUS
  <2>3. SUFFICES ASSUME y < x
                 PROVE  FALSE
    OBVIOUS
  <2>4. 0..y \subseteq 0..x
    BY <2>3
  <2>5. 0..y # 0..x
    BY <2>3
  <2> QED
    BY <2>1, <2>2, <2>4, <2>5 DEF StrictSubsetOrdering
<1> QED
  BY <1>4 DEF Min

(* A non-empty set of naturals with a bound has a greatest element, and Max *)
(* finds it.                                                                *)
LEMMA MaxOfNaturals ==
  ASSUME NEW S \in SUBSET Nat, S # {}, NEW bound \in Nat, \A y \in S : y <= bound
  PROVE  Max(S) \in S /\ \A y \in S : y <= Max(S)
<1> DEFINE T == {m \in Nat : \A y \in S : y <= m}
           m == Min(T)
<1>1. m \in T /\ \A x \in T : m <= x
  <2>1. T \in SUBSET Nat /\ T # {}
    OBVIOUS
  <2> HIDE DEF T
  <2> QED
    BY <2>1, MinOfNaturals
<1> HIDE DEF m
<1>2. m \in S
  <2>1. SUFFICES ASSUME m \notin S
                 PROVE  FALSE
    OBVIOUS
  <2>2. \A y \in S : y <= m - 1
    BY <1>1, <2>1
  <2>3. m - 1 \in Nat
    <3>1. PICK y \in S : y <= m - 1
      BY <2>2
    <3> QED
      BY <1>1, <3>1
  <2>4. m - 1 \in T
    BY <2>2, <2>3
  <2> QED
    BY <1>1, <2>4
<1>3. \E x \in S : \A y \in S : x >= y
  BY <1>1, <1>2
<1> QED
  BY <1>3 DEF Max

(* The members of a finite set of naturals, in order: each has a rank, the  *)
(* number of members below it, and every rank is somebody's.                *)
rank(S, x) == Cardinality({y \in S : y < x})

LEMMA Ranks ==
  ASSUME NEW S \in SUBSET Nat, IsFiniteSet(S)
  PROVE  /\ Cardinality(S) \in Nat
         /\ \A x \in S : rank(S, x) \in 0..(Cardinality(S) - 1)
         /\ \A x, y \in S : x < y => rank(S, x) < rank(S, y)
         /\ \A r \in 0..(Cardinality(S) - 1) : \E x \in S : rank(S, x) = r
<1> DEFINE lower(x) == {y \in S : y < x}
           k == Cardinality(S)
<1>1. k \in Nat
  BY FS_CardinalityType
<1>2. ASSUME NEW x \in S
      PROVE  /\ IsFiniteSet(lower(x))
             /\ rank(S, x) = Cardinality(lower(x))
             /\ rank(S, x) \in Nat
             /\ Cardinality(lower(x) \cup {x}) = rank(S, x) + 1
             /\ rank(S, x) < k
  <2> DEFINE B == lower(x)
  <2>1. B \in SUBSET S /\ x \notin B
    OBVIOUS
  <2>2. rank(S, x) = Cardinality(B)
    BY DEF rank
  <2>3. B \cup {x} \in SUBSET S
    OBVIOUS
  <2> HIDE DEF B
  <2>4. IsFiniteSet(B) /\ Cardinality(B) \in Nat
    BY <2>1, FS_Subset, FS_CardinalityType
  <2>5. Cardinality(B \cup {x}) = Cardinality(B) + 1
    BY <2>1, <2>4, FS_AddElement
  <2>6. Cardinality(B \cup {x}) <= k
    BY <2>3, FS_Subset
  <2> HIDE DEF k
  <2>7. Cardinality(B) < k
    BY <1>1, <2>4, <2>5, <2>6
  <2> QED
    BY <2>2, <2>4, <2>5, <2>7 DEF B
<1>3. ASSUME NEW x \in S, NEW y \in S, x < y
      PROVE  rank(S, x) < rank(S, y)
  <2>1. lower(x) \cup {x} \in SUBSET lower(y)
    <3>1. ASSUME NEW z \in lower(x) \cup {x}
          PROVE  z \in S /\ z < y
      <4>1. z \in Nat /\ x \in Nat /\ y \in Nat
        OBVIOUS
      <4>2. z \in S /\ (z < x \/ z = x)
        OBVIOUS
      <4> QED
        BY <1>3, <4>1, <4>2
    <3> QED
      BY <3>1
  <2>2. Cardinality(lower(x) \cup {x}) <= Cardinality(lower(y))
    BY <1>2, <2>1, FS_Subset
  <2>3. rank(S, x) \in Nat /\ Cardinality(lower(x) \cup {x}) = rank(S, x) + 1
    BY <1>2
  <2>4. rank(S, y) \in Nat /\ rank(S, y) = Cardinality(lower(y))
    BY <1>2
  <2> HIDE DEF lower
  <2> QED
    BY <2>2, <2>3, <2>4
<1>4. ASSUME NEW r \in 0..(k - 1)
      PROVE  \E x \in S : rank(S, x) = r
  <2> DEFINE None == {q \in 0..(k - 1) : \A x \in S : rank(S, x) # q}
             least == Min(None)
  <2>1. SUFFICES ASSUME r \in None
                 PROVE  FALSE
    OBVIOUS
  <2>2. least \in None /\ \A q \in None : least <= q
    <3>1. None \in SUBSET Nat /\ None # {}
      BY <1>1, <2>1
    <3> HIDE DEF None
    <3> QED
      BY <3>1, MinOfNaturals
  <2> HIDE DEF least
  <2>3. least \in 0..(k - 1) /\ \A x \in S : rank(S, x) # least
    BY <2>2
  <2>4. \A q \in 0..(least - 1) : \E x \in S : rank(S, x) = q
    <3>1. ASSUME NEW q \in 0..(least - 1)
          PROVE  q \notin None /\ q \in 0..(k - 1)
      <4> HIDE DEF None, k
      <4> QED
        BY <1>1, <2>2, <2>3
    <3> QED
      BY <3>1
  <2>5. S # {}
    <3>1. k > 0
      BY <1>1, <2>3
    <3> QED
      BY <3>1, FS_EmptySet
  <2>6. CASE least = 0
    <3> DEFINE x == Min(S)
    <3>1. x \in S /\ \A y \in S : x <= y
      BY <2>5, MinOfNaturals
    <3> HIDE DEF x
    <3>2. lower(x) = {}
      <4>1. ASSUME NEW y \in S
            PROVE  ~(y < x)
        <5>1. y \in Nat /\ x \in Nat /\ x <= y
          BY <3>1
        <5> QED
          BY <5>1
      <4> QED
        BY <4>1
    <3>3. rank(S, x) = 0
      BY <1>2, <3>1, <3>2, FS_EmptySet
    <3> QED
      BY <2>3, <2>6, <3>1, <3>3
  <2>7. CASE least # 0
    <3>1. PICK x \in S : rank(S, x) = least - 1
      BY <1>1, <2>3, <2>4, <2>7
    <3> DEFINE above == {y \in S : y > x}
               z == Min(above)
    <3>2. above # {}
      <4>1. SUFFICES ASSUME above = {}
                     PROVE  FALSE
        OBVIOUS
      <4>2. lower(x) \cup {x} = S
        <5>1. ASSUME NEW y \in S
              PROVE  y < x \/ y = x
          <6>1. y \in Nat /\ x \in Nat /\ ~(y > x)
            BY <4>1
          <6> QED
            BY <6>1
        <5> QED
          BY <5>1
      <4>3. k = least
        <5>1. least \in Int
          BY <1>1, <2>3
        <5> HIDE DEF lower
        <5> QED
          BY <1>2, <3>1, <4>2, <5>1
      <4> QED
        BY <1>1, <2>3, <4>3
    <3>3. z \in above /\ \A y \in above : z <= y
      <4>1. above \in SUBSET Nat
        OBVIOUS
      <4> HIDE DEF above
      <4> QED
        BY <3>2, <4>1, MinOfNaturals
    <3> HIDE DEF z
    <3>4. z \in S /\ x < z /\ \A y \in S : y > x => z <= y
      BY <3>3
    <3>5. lower(z) = lower(x) \cup {x}
      <4>1. ASSUME NEW y \in S
            PROVE  y < z <=> y < x \/ y = x
        <5>1. y \in Nat /\ x \in Nat /\ z \in Nat /\ x < z /\ (y > x => z <= y)
          BY <3>4
        <5> QED
          BY <5>1
      <4> QED
        BY <4>1
    <3>6. rank(S, z) = least
      <4>1. least \in Int
        BY <1>1, <2>3
      <4>2. rank(S, z) = Cardinality(lower(z))
        BY <1>2, <3>4
      <4>3. Cardinality(lower(x) \cup {x}) = rank(S, x) + 1
        BY <1>2
      <4> HIDE DEF lower
      <4> QED
        BY <3>1, <3>5, <4>1, <4>2, <4>3
    <3> QED
      BY <2>3, <3>4, <3>6
  <2> QED
    BY <2>6, <2>7
<1>5. \A x \in S : rank(S, x) \in 0..(k - 1)
  <2>1. ASSUME NEW x \in S
        PROVE  rank(S, x) \in 0..(k - 1)
    <3>1. rank(S, x) \in Nat /\ rank(S, x) < k
      BY <1>2
    <3> HIDE DEF k
    <3> QED
      BY <1>1, <3>1
  <2> QED
    BY <2>1
<1> QED
  BY <1>1, <1>3, <1>4, <1>5


-----------------------------------------------------------------------------
(* One allocator state.                                                     *)

Allocators ==
  [size : Nat, base : Nat, bits : SUBSET Nat, free : 0..(Word - 1),
   reserved : 0..(Word - 1), used : 0..(Word - 1), next : Nat]

(* A state with its type, and a hint that misses no clear bit. *)
Sane(p) ==
  /\ p \in Allocators
  /\ p.bits \subseteq 0..(p.size * 8)
  /\ p.size * 8 < Word
  /\ p.next <= p.size * 8
  /\ \A i \in 0..(p.next - 1) : i \in p.bits

(* A state whose counters match its bitmap, for a memory of total pages and *)
(* s stray bits.                                                            *)
Accounted(p, total, s) ==
  Balanced(Word, Cardinality(p.bits), p.reserved, p.used, p.free, total, s)

(* The bitmap is a finite set. *)
LEMMA BitsFinite ==
  ASSUME NEW p, Sane(p), NEW S \in SUBSET p.bits
  PROVE  IsFiniteSet(p.bits) /\ IsFiniteSet(S) /\ Cardinality(S) \in Nat
<1>1. IsFiniteSet(0..(p.size * 8))
  BY FS_Interval DEF Sane, Allocators
<1>2. S \in SUBSET (0..(p.size * 8)) /\ p.bits \in SUBSET (0..(p.size * 8))
  BY DEF Sane
<1> QED
  BY <1>1, <1>2, FS_Subset, FS_CardinalityType

(* The bits reservePages and lockPages turn on: new, and inside the bound   *)
(* of bitmap.c.                                                             *)
LEMMA SettableFacts ==
  ASSUME NEW p, Sane(p), NEW F \in SUBSET Nat
  PROVE  /\ Settable(p, F) \subseteq 0..(p.size * 8)
         /\ Settable(p, F) \cap p.bits = {}
         /\ F \cap (0..(p.size * 8)) \subseteq p.bits \cup Settable(p, F)
         /\ IsFiniteSet(Settable(p, F))
         /\ Cardinality(Settable(p, F)) \in Nat
         /\ Cardinality(p.bits) \in Nat
         /\ Cardinality(p.bits \cup Settable(p, F))
              = Cardinality(p.bits) + Cardinality(Settable(p, F))
<1> DEFINE S == Settable(p, F)
<1>0. p.size \in Nat /\ p.bits \subseteq 0..(p.size * 8)
  BY DEF Sane, Allocators
<1>1. \A i \in Nat : i \in S <=> i \in F /\ i <= p.size * 8 /\ i \notin p.bits
  BY DEF Settable, getBitmap, Addressable
<1>a. S \subseteq F
  BY DEF Settable
<1>b. S \subseteq 0..(p.size * 8)
  <2> SUFFICES ASSUME NEW i \in S
               PROVE  i \in 0..(p.size * 8)
    OBVIOUS
  <2>1. i \in Nat
    BY <1>a
  <2>2. i <= p.size * 8
    BY <1>1, <2>1
  <2> QED
    BY <1>0, <2>1, <2>2
<1>c. S \cap p.bits = {}
  BY <1>1, <1>a
<1>d. F \cap (0..(p.size * 8)) \subseteq p.bits \cup S
  BY <1>1
<1>2. IsFiniteSet(0..(p.size * 8))
  BY FS_Interval DEF Sane, Allocators
<1>3. IsFiniteSet(S)
  BY <1>b, <1>2, FS_Subset
<1>4. IsFiniteSet(p.bits)
  BY BitsFinite
<1>5. p.bits \cap S = {}
  BY <1>c
<1> HIDE DEF S
<1>6. Cardinality(S) \in Nat /\ Cardinality(p.bits) \in Nat
  BY <1>3, <1>4, FS_CardinalityType
<1>7. Cardinality(p.bits \cap S) = 0
  BY <1>5, FS_EmptySet
<1>8. Cardinality(p.bits \cup S) = Cardinality(p.bits) + Cardinality(S)
  <2>1. Cardinality(p.bits \cup S)
          = Cardinality(p.bits) + Cardinality(S) - Cardinality(p.bits \cap S)
    BY <1>3, <1>4, FS_Union
  <2> QED
    BY <2>1, <1>6, <1>7
<1> QED
  BY <1>b, <1>c, <1>d, <1>3, <1>6, <1>8 DEF S

(* The bits unreservePages and freePages turn off: all were on.             *)
LEMMA ClearableFacts ==
  ASSUME NEW p, Sane(p), NEW F \in SUBSET Nat
  PROVE  /\ Clearable(p, F) \subseteq p.bits
         /\ IsFiniteSet(Clearable(p, F))
         /\ Cardinality(Clearable(p, F)) \in Nat
         /\ Cardinality(p.bits) \in Nat
         /\ Cardinality(p.bits \ Clearable(p, F))
              = Cardinality(p.bits) - Cardinality(Clearable(p, F))
<1> DEFINE C == Clearable(p, F)
<1>1. C \subseteq p.bits
  BY DEF Clearable, getBitmap
<1>2. IsFiniteSet(p.bits) /\ IsFiniteSet(C) /\ Cardinality(C) \in Nat
  BY <1>1, BitsFinite
<1>3. p.bits \cap C = C
  BY <1>1
<1> HIDE DEF C
<1>4. Cardinality(p.bits) \in Nat
  BY <1>2, FS_CardinalityType
<1>5. Cardinality(p.bits \ C) = Cardinality(p.bits) - Cardinality(C)
  BY <1>2, <1>3, FS_Difference
<1> QED
  BY <1>1, <1>2, <1>4, <1>5 DEF C

-----------------------------------------------------------------------------
(* The operations.                                                          *)

(* reservePages and lockPages set bits, leave the hint alone, and move the  *)
(* counters by the number of bits set.                                      *)
LEMMA TakeFacts ==
  ASSUME NEW p, Sane(p), NEW F \in SUBSET Nat,
         NEW q, q = reservePages(p, F) \/ q = lockPages(p, F)
  PROVE  /\ Sane(q)
         /\ q.size = p.size
         /\ q.base = p.base
         /\ q.next = p.next
         /\ q.bits = p.bits \cup Settable(p, F)
         /\ \A total, s \in Nat : Accounted(p, total, s) => Accounted(q, total, s)
<1> DEFINE S == Settable(p, F)
           n == Cardinality(S)
           h == Cardinality(p.bits)
<1>1. /\ S \subseteq 0..(p.size * 8)
      /\ n \in Nat
      /\ h \in Nat
      /\ Cardinality(p.bits \cup S) = h + n
  BY SettableFacts
<1>2. p \in Allocators
  BY DEF Sane
<1>3. /\ q.size = p.size
      /\ q.base = p.base
      /\ q.next = p.next
      /\ q.bits = p.bits \cup S
      /\ q.free = (p.free - n) % Word
      /\ \/ q.reserved = (p.reserved + n) % Word /\ q.used = p.used
         \/ q.used = (p.used + n) % Word /\ q.reserved = p.reserved
      /\ q = [size |-> q.size, base |-> q.base, bits |-> q.bits,
              free |-> q.free, reserved |-> q.reserved, used |-> q.used,
              next |-> q.next]
  BY <1>2 DEF reservePages, lockPages, Allocators
<1> HIDE DEF S, n, h
<1>4. q \in Allocators
  <2>1. q.free \in 0..(Word - 1)
    BY <1>1, <1>2, <1>3, WordAssumption DEF Allocators
  <2>2. q.reserved \in 0..(Word - 1) /\ q.used \in 0..(Word - 1)
    BY <1>1, <1>2, <1>3, WordAssumption DEF Allocators
  <2>3. q.bits \in SUBSET Nat
    BY <1>1, <1>2, <1>3 DEF Allocators
  <2> QED
    BY <1>2, <1>3, <2>1, <2>2, <2>3 DEF Allocators
<1>5. Sane(q)
  BY <1>1, <1>3, <1>4 DEF Sane
<1>6. ASSUME NEW total \in Nat, NEW s \in Nat, Accounted(p, total, s)
      PROVE  Accounted(q, total, s)
  <2>1. /\ p.reserved \in Int /\ p.used \in Int /\ p.free \in Int
        /\ Balanced(Word, h, p.reserved, p.used, p.free, total, s)
    BY <1>2, <1>6, WordAssumption DEF Allocators, Accounted, h
  <2>2. /\ Balanced(Word, h + n, (p.reserved + n) % Word, p.used,
                    (p.free - n) % Word, total, s)
        /\ Balanced(Word, h + n, p.reserved, (p.used + n) % Word,
                    (p.free - n) % Word, total, s)
    <3>1. n \in Int /\ h \in Int /\ total \in Int /\ s \in Int
      BY <1>1
    <3> QED
      BY <2>1, <3>1, CountersUp, WordAssumption, Zenon
  <2>3. Cardinality(q.bits) = h + n
    BY <1>1, <1>3
  <2>4. Balanced(Word, h + n, q.reserved, q.used, q.free, total, s)
    BY <1>3, <2>2
  <2> QED
    BY <2>3, <2>4 DEF Accounted
<1> QED
  BY <1>3, <1>5, <1>6 DEF S

(* unreservePages and freePages clear bits that were set, pull the hint     *)
(* down to the lowest of them, and move the counters back.                  *)
LEMMA GiveFacts ==
  ASSUME NEW p, Sane(p), NEW F \in SUBSET Nat,
         NEW q, q = unreservePages(p, F) \/ q = freePages(p, F)
  PROVE  /\ Sane(q)
         /\ q.size = p.size
         /\ q.base = p.base
         /\ q.bits = p.bits \ Clearable(p, F)
         /\ \A total, s \in Nat : Accounted(p, total, s) => Accounted(q, total, s)
<1> DEFINE C == Clearable(p, F)
           n == Cardinality(C)
           h == Cardinality(p.bits)
<1>1. /\ C \subseteq p.bits
      /\ n \in Nat
      /\ h \in Nat
      /\ Cardinality(p.bits \ C) = h - n
  BY ClearableFacts
<1>2. p \in Allocators
  BY DEF Sane
<1>3. /\ q.size = p.size
      /\ q.base = p.base
      /\ q.next = Min({p.next} \cup C)
      /\ q.bits = p.bits \ C
      /\ q.free = (p.free + n) % Word
      /\ \/ q.reserved = (p.reserved - n) % Word /\ q.used = p.used
         \/ q.used = (p.used - n) % Word /\ q.reserved = p.reserved
      /\ q = [size |-> q.size, base |-> q.base, bits |-> q.bits,
              free |-> q.free, reserved |-> q.reserved, used |-> q.used,
              next |-> q.next]
  BY <1>2 DEF unreservePages, freePages, Allocators
<1> HIDE DEF C, n, h
<1>4. q.next \in Nat /\ q.next <= p.next /\ \A i \in C : q.next <= i
  <2>1. {p.next} \cup C \in SUBSET Nat
    BY <1>1, <1>2 DEF Allocators
  <2> QED
    BY <1>3, <2>1, MinOfNaturals
<1>5. q \in Allocators
  <2>1. q.free \in 0..(Word - 1)
    BY <1>1, <1>2, <1>3, WordAssumption DEF Allocators
  <2>2. q.reserved \in 0..(Word - 1) /\ q.used \in 0..(Word - 1)
    BY <1>1, <1>2, <1>3, WordAssumption DEF Allocators
  <2>3. q.bits \in SUBSET Nat
    BY <1>2, <1>3 DEF Allocators
  <2> QED
    BY <1>2, <1>3, <1>4, <2>1, <2>2, <2>3 DEF Allocators
<1>6. Sane(q)
  <2>1. ASSUME NEW i \in 0..(q.next - 1)
        PROVE  i \in q.bits
    <3>1. i \in 0..(p.next - 1) /\ i \notin C
      BY <1>1, <1>2, <1>4 DEF Allocators
    <3> QED
      BY <1>3, <3>1 DEF Sane
  <2>2. q.next <= q.size * 8
    BY <1>2, <1>3, <1>4 DEF Sane, Allocators
  <2> QED
    BY <1>3, <1>5, <2>1, <2>2 DEF Sane
<1>7. ASSUME NEW total \in Nat, NEW s \in Nat, Accounted(p, total, s)
      PROVE  Accounted(q, total, s)
  <2>1. /\ p.reserved \in Int /\ p.used \in Int /\ p.free \in Int
        /\ Balanced(Word, h, p.reserved, p.used, p.free, total, s)
    BY <1>2, <1>7, WordAssumption DEF Allocators, Accounted, h
  <2>2. /\ Balanced(Word, h - n, (p.reserved - n) % Word, p.used,
                    (p.free + n) % Word, total, s)
        /\ Balanced(Word, h - n, p.reserved, (p.used - n) % Word,
                    (p.free + n) % Word, total, s)
    <3>1. n \in Int /\ h \in Int /\ total \in Int /\ s \in Int
      BY <1>1
    <3> QED
      BY <2>1, <3>1, CountersDown, WordAssumption, Zenon
  <2>3. Cardinality(q.bits) = h - n
    BY <1>1, <1>3
  <2>4. Balanced(Word, h - n, q.reserved, q.used, q.free, total, s)
    BY <1>3, <2>2
  <2> QED
    BY <2>3, <2>4 DEF Accounted
<1> QED
  BY <1>3, <1>6, <1>7 DEF C

(* What every call leaves as it found it. *)
Kept(p, q) ==
  /\ Sane(q)
  /\ q.size = p.size
  /\ q.base = p.base
  /\ \A total, s \in Nat : Accounted(p, total, s) => Accounted(q, total, s)

LEMMA PagesKeep ==
  ASSUME NEW p, Sane(p), NEW F \in SUBSET Nat
  PROVE  /\ Kept(p, reservePages(p, F))
         /\ Kept(p, lockPages(p, F))
         /\ Kept(p, unreservePages(p, F))
         /\ Kept(p, freePages(p, F))
<1>1. ASSUME NEW q, q = reservePages(p, F) \/ q = lockPages(p, F)
      PROVE  Kept(p, q)
  BY <1>1, TakeFacts DEF Kept
<1>2. ASSUME NEW q, q = unreservePages(p, F) \/ q = freePages(p, F)
      PROVE  Kept(p, q)
  BY <1>2, GiveFacts DEF Kept
<1> QED
  BY <1>1, <1>2

(* requestPage returns NULL when every bit is set, and otherwise a frame    *)
(* whose bit was clear and is the only one it sets.                         *)
LEMMA RequestFacts ==
  ASSUME NEW p, Sane(p)
  PROVE  /\ Sane(requestPage(p))
         /\ requestPage(p).size = p.size
         /\ requestPage(p).base = p.base
         /\ \/ /\ requestedPage(p) = NULL
               /\ 0..(p.size * 8 - 1) \subseteq p.bits
               /\ requestPage(p).bits = p.bits
            \/ /\ requestedPage(p) \in (0..(p.size * 8 - 1)) \ p.bits
               /\ requestPage(p).bits = p.bits \cup {requestedPage(p)}
         /\ \A total, s \in Nat :
              Accounted(p, total, s) => Accounted(requestPage(p), total, s)
<1> DEFINE q == requestPage(p)
           last == p.size * 8
<1>1. /\ p \in Allocators
      /\ p.size \in Nat /\ p.next \in Nat /\ last \in Nat
      /\ p.next <= last
      /\ \A i \in 0..(p.next - 1) : i \in p.bits
  BY DEF Sane, Allocators
<1>2. Candidates(p) = {i \in p.next..(last - 1) : i \notin p.bits}
  BY <1>1 DEF Candidates, getBitmap, Addressable
<1>3. CASE Candidates(p) = {}
  <2>1. q = [p EXCEPT !.next = last] /\ requestedPage(p) = NULL
    BY <1>1, <1>3 DEF requestPage, requestedPage
  <2>2. q = [size |-> p.size, base |-> p.base, bits |-> p.bits, free |-> p.free,
             reserved |-> p.reserved, used |-> p.used, next |-> last]
    BY <1>1, <2>1 DEF Allocators
  <2> HIDE DEF q
  <2>3. \A i \in 0..(last - 1) : i \in p.bits
    BY <1>1, <1>2, <1>3
  <2>4. Sane(q)
    BY <1>1, <2>2, <2>3 DEF Sane, Allocators
  <2>5. \A total, s \in Nat : Accounted(p, total, s) => Accounted(q, total, s)
    BY <2>2 DEF Accounted
  <2>6. /\ q.size = p.size
        /\ q.base = p.base
        /\ q.bits = p.bits
    BY <2>2
  <2>7. 0..(last - 1) \subseteq p.bits
    BY <2>3
  <2> QED
    BY <2>1, <2>4, <2>5, <2>6, <2>7 DEF q
<1>4. CASE Candidates(p) # {}
  <2> DEFINE i == Min(Candidates(p))
             l == lockPages(p, {i})
  <2>1. /\ i \in Candidates(p)
        /\ \A j \in Candidates(p) : i <= j
    <3>1. Candidates(p) \in SUBSET Nat
      BY <1>1, <1>2
    <3> QED
      BY <1>4, <3>1, MinOfNaturals
  <2>2. q = [l EXCEPT !.next = i] /\ requestedPage(p) = i
    BY <1>4 DEF requestPage, requestedPage
  <2> HIDE DEF i, q
  <2>3. i \in p.next..(last - 1) /\ i \notin p.bits /\ i \in Nat
    BY <1>1, <1>2, <2>1
  <2>4. /\ Sane(l)
        /\ l.size = p.size
        /\ l.base = p.base
        /\ l.bits = p.bits \cup Settable(p, {i})
        /\ \A total, s \in Nat : Accounted(p, total, s) => Accounted(l, total, s)
    <3>1. {i} \in SUBSET Nat
      BY <2>3
    <3> QED
      BY <3>1, TakeFacts
  <2>5. Settable(p, {i}) = {i}
    BY <1>1, <2>3 DEF Settable, getBitmap, Addressable
  <2> HIDE DEF l
  <2>6. q = [size |-> l.size, base |-> l.base, bits |-> l.bits, free |-> l.free,
             reserved |-> l.reserved, used |-> l.used, next |-> i]
    BY <2>2, <2>4 DEF Sane, Allocators
  <2>7. \A j \in 0..(i - 1) : j \in l.bits
    <3>1. ASSUME NEW j \in 0..(i - 1)
          PROVE  j \in p.bits
      <4>1. CASE j < p.next
        BY <1>1, <2>3, <4>1
      <4>2. CASE j >= p.next
        BY <1>1, <1>2, <2>1, <2>3, <4>2
      <4> QED
        BY <1>1, <2>3, <4>1, <4>2
    <3> QED
      BY <2>4, <3>1
  <2>8. Sane(q)
    <3>1. q \in Allocators
      BY <2>3, <2>4, <2>6 DEF Sane, Allocators
    <3>2. q.next <= q.size * 8
      BY <1>1, <2>3, <2>4, <2>6
    <3> QED
      BY <2>4, <2>6, <2>7, <3>1, <3>2 DEF Sane
  <2>9. \A total, s \in Nat : Accounted(p, total, s) => Accounted(q, total, s)
    BY <2>4, <2>6 DEF Accounted
  <2>10. i \in (0..(last - 1)) \ p.bits
    BY <1>1, <2>3
  <2> QED
    BY <2>2, <2>4, <2>5, <2>6, <2>8, <2>9, <2>10 DEF q
<1> QED
  BY <1>3, <1>4

-----------------------------------------------------------------------------
(* Initialisation.                                                          *)

(* Every frame a loop of the allocator visits is a frame number. *)
LEMMA PageRunType ==
  ASSUME NEW start \in Nat, NEW count \in Int
  PROVE  PageRun(start, count) \in SUBSET (0..(Word - 1))
<1>1. ASSUME NEW i \in 0..(count - 1)
      PROVE  (start + i) % Word \in 0..(Word - 1)
  BY WordAssumption
<1> QED
  BY <1>1 DEF PageRun

(* What getMemorySize adds up to: there is a running total of the counts,   *)
(* from 0 before the first descriptor on, and it returns the last one.      *)
LEMMA RunningTotal ==
  ASSUME NEW map, NEW n \in Nat, Len(map) = n, \A i \in 1..n : map[i].count \in Nat
  PROVE  \E total \in [0..n -> Nat] :
           /\ total[0] = 0
           /\ \A i \in 1..n : total[i] = total[i - 1] + map[i].count
           /\ getMemorySize(map) = total[n]
<1> DEFINE sums(t, m) == /\ t[0] = 0
                         /\ \A i \in 1..m : t[i] = t[i - 1] + map[i].count
           equation(t) == t = [i \in 0..Len(map) |->
                                 IF i = 0 THEN 0 ELSE t[i - 1] + map[i].count]
           count == CHOOSE t : equation(t)
           None == {m \in 0..n : ~ \E t \in [0..m -> Nat] : sums(t, m)}
           least == Min(None)
<1>1. None = {}
  <2>1. SUFFICES ASSUME None # {}
                 PROVE  FALSE
    OBVIOUS
  <2>2. least \in None /\ \A m \in None : least <= m
    <3>1. None \in SUBSET Nat
      OBVIOUS
    <3> HIDE DEF None
    <3> QED
      BY <2>1, <3>1, MinOfNaturals
  <2> HIDE DEF least
  <2>3. least \in 0..n /\ ~ \E t \in [0..least -> Nat] : sums(t, least)
    BY <2>2
  <2>4. CASE least = 0
    <3>1. [i \in 0..0 |-> 0] \in [0..0 -> Nat] /\ sums([i \in 0..0 |-> 0], 0)
      OBVIOUS
    <3> QED
      BY <2>3, <2>4, <3>1
  <2>5. CASE least # 0
    <3>1. PICK t \in [0..(least - 1) -> Nat] : sums(t, least - 1)
      <4>1. least - 1 \in 0..n /\ ~(least <= least - 1)
        BY <2>3, <2>5
      <4> QED
        BY <2>2, <4>1
    <3> DEFINE u == [i \in 0..least |-> IF i = least THEN t[least - 1] + map[least].count ELSE t[i]]
    <3>2. u \in [0..least -> Nat]
      <4>1. least \in 1..n /\ map[least].count \in Nat /\ t[least - 1] \in Nat
        BY <2>3, <2>5
      <4>2. \A i \in 0..least : i # least => i \in 0..(least - 1)
        BY <2>3
      <4>3. \A i \in 0..least : i # least => t[i] \in Nat
        BY <4>2
      <4> QED
        BY <4>1, <4>3
    <3>3. u[0] = 0
      BY <2>3, <2>5, <3>1
    <3>4. ASSUME NEW i \in 1..least
          PROVE  u[i] = u[i - 1] + map[i].count
      <4>1. CASE i = least
        BY <2>3, <2>5, <4>1
      <4>2. CASE i # least
        <5>1. i \in 1..(least - 1) /\ i \in 0..least /\ i - 1 \in 0..least /\ i - 1 # least
          BY <2>3, <4>2
        <5>2. u[i] = t[i] /\ u[i - 1] = t[i - 1]
          BY <4>2, <5>1
        <5> HIDE DEF u
        <5> QED
          BY <3>1, <5>1, <5>2
      <4> QED
        BY <4>1, <4>2
    <3> HIDE DEF u
    <3>5. sums(u, least)
      BY <3>3, <3>4
    <3> QED
      BY <2>3, <3>2, <3>5
  <2> QED
    BY <2>4, <2>5
<1>2. PICK t \in [0..n -> Nat] : sums(t, n)
  <2>1. n \in 0..n
    OBVIOUS
  <2>2. n \notin None
    BY <1>1
  <2> QED
    BY <2>1, <2>2
<1>3. equation(t)
  <2> DEFINE u == [i \in 0..Len(map) |-> IF i = 0 THEN 0 ELSE t[i - 1] + map[i].count]
  <2>1. \A i \in 0..n : u[i] = t[i]
    BY <1>2
  <2>2. u = [i \in 0..n |-> u[i]] /\ t = [i \in 0..n |-> t[i]]
    OBVIOUS
  <2> HIDE DEF u
  <2>3. t = u
    BY <2>1, <2>2
  <2> QED
    BY <2>3 DEF u
<1>4. equation(count)
  <2> HIDE DEF equation
  <2> QED
    BY <1>3
<1>5. getMemorySize(map) = count[n]
  BY DEF getMemorySize
<1> HIDE DEF count
<1>6. /\ count = [i \in 0..n |-> count[i]]
      /\ count[0] = 0
      /\ \A i \in 1..n : count[i] = count[i - 1] + map[i].count
  <2> DEFINE u == [i \in 0..n |-> IF i = 0 THEN 0 ELSE count[i - 1] + map[i].count]
  <2>1. count = u
    BY <1>4
  <2>2. /\ u = [i \in 0..n |-> u[i]]
        /\ u[0] = 0
        /\ \A i \in 1..n : u[i] = count[i - 1] + map[i].count
    OBVIOUS
  <2> HIDE DEF u
  <2> QED
    BY <2>1, <2>2
<1> DEFINE Odd == {i \in 0..n : count[i] # t[i]}
           first == Min(Odd)
<1>7. Odd = {}
  <2>1. SUFFICES ASSUME Odd # {}
                 PROVE  FALSE
    OBVIOUS
  <2>2. first \in Odd /\ \A i \in Odd : first <= i
    <3>1. Odd \in SUBSET Nat
      OBVIOUS
    <3> HIDE DEF Odd
    <3> QED
      BY <2>1, <3>1, MinOfNaturals
  <2> HIDE DEF first
  <2>3. first \in 0..n /\ count[first] # t[first]
    BY <2>2
  <2>4. first # 0
    BY <1>2, <1>6, <2>3
  <2>5. first \in 1..n /\ first - 1 \in 0..n /\ ~(first <= first - 1)
    BY <2>3, <2>4
  <2>6. count[first - 1] = t[first - 1]
    BY <2>2, <2>5
  <2> QED
    BY <1>2, <1>6, <2>3, <2>5, <2>6
<1>8. getMemorySize(map) = t[n]
  BY <1>5, <1>7
<1> QED
  BY <1>2, <1>8

(* What the allocator reads off a memory map. *)
LEMMA MapFacts ==
  ASSUME NEW map, ValidMap(map)
  PROVE  /\ largestFreeMemorySegment(map) \in Nat
         /\ ConventionalFrames(map) \in SUBSET Nat
<1>1. map \in Seq([type : Nat, start : 0..(Word - 1), count : Nat])
  BY DEF ValidMap
<1>2. DOMAIN map \in SUBSET Nat /\ Conventional(map) \in SUBSET (DOMAIN map)
  BY <1>1 DEF Conventional
<1>3. \A i \in DOMAIN map : map[i].start \in Nat /\ map[i].count \in Nat
  <2> DEFINE R == [type : Nat, start : 0..(Word - 1), count : Nat]
  <2>1. ASSUME NEW r \in R
        PROVE  r.start \in Nat /\ r.count \in Nat
    <3>1. r.start \in 0..(Word - 1) /\ r.count \in Nat
      OBVIOUS
    <3> QED
      BY <3>1, WordAssumption
  <2>2. map \in Seq(R)
    BY <1>1
  <2> HIDE DEF R
  <2>3. \A i \in DOMAIN map : map[i] \in R
    BY <2>2
  <2> QED
    BY <2>1, <2>3
<1>4. largestFreeMemorySegment(map) \in Nat
  <2> DEFINE longest == {i \in Conventional(map) :
                           /\ map[i].count > 0
                           /\ \A j \in Conventional(map) : map[j].count <= map[i].count}
  <2>1. CASE longest = {}
    BY <2>1 DEF largestFreeMemorySegment, NULL
  <2>2. CASE longest # {}
    <3>1. longest \in SUBSET Nat /\ longest \in SUBSET (DOMAIN map)
      BY <1>2
    <3>2. largestFreeMemorySegment(map) = map[Min(longest)].start
      BY <2>2 DEF largestFreeMemorySegment
    <3> HIDE DEF longest
    <3>3. Min(longest) \in longest
      BY <2>2, <3>1, MinOfNaturals
    <3> QED
      BY <1>3, <3>1, <3>2, <3>3
  <2> QED
    BY <2>1, <2>2
<1>5. ConventionalFrames(map) \in SUBSET Nat
  <2>1. ASSUME NEW i \in Conventional(map)
        PROVE  PageRun(map[i].start, map[i].count) \in SUBSET Nat
    <3>1. PageRun(map[i].start, map[i].count) \in SUBSET (0..(Word - 1))
      BY <1>2, <1>3, PageRunType
    <3> QED
      BY <3>1, WordAssumption
  <2> QED
    BY <2>1 DEF ConventionalFrames
<1> QED
  BY <1>4, <1>5

(* initializePageFrame, from the zeroed globals: the chain of calls starts  *)
(* from an empty bitmap whose counters match, so they match at the end; and *)
(* if low frames are reserved, the null page is one of them.                *)
LEMMA InitializeFacts ==
  ASSUME NEW map, ValidMap(map), NEW g \in 0..1
  PROVE  LET q == initializePageFrame(ZeroedAllocator, map, g = 1)
         IN  /\ Sane(q)
             /\ q.size = getMemorySize(map) \div 8 + 1 /\ q.size > 0
             /\ q.base = largestFreeMemorySegment(map)
             /\ Accounted(q, getMemorySize(map), g)
             /\ LowPages > 0 => NULL \in q.bits
<1> DEFINE pages   == getMemorySize(map)
           bytes   == pages \div 8 + 1
           buffer  == largestFreeMemorySegment(map)
           empty   == initializeBitmap([ZeroedAllocator EXCEPT !.free = pages],
                                       bytes, buffer, g = 1)
           held    == reservePages(empty, PageRun(0, pages + 1))
           opened  == unreservePages(held, ConventionalFrames(map))
           lowHeld == reservePages(opened, PageRun(0, LowPages))
           q       == lockPages(lowHeld, PageRun(lowHeld.base, bytes \div PageSize + 1))
<1>1. /\ pages \in 0..(Word - 1)
      /\ pages \in Nat
      /\ bytes * 8 < Word
  BY WordAssumption DEF ValidMap
<1>2. bytes \in Nat /\ bytes > 0
  BY <1>1
<1>3. buffer \in Nat /\ ConventionalFrames(map) \in SUBSET Nat
  BY MapFacts
<1>b. bytes = getMemorySize(map) \div 8 + 1 /\ buffer = largestFreeMemorySegment(map)
  OBVIOUS
<1>4. initializePageFrame(ZeroedAllocator, map, g = 1) = q
  BY DEF initializePageFrame
<1> HIDE DEF pages, bytes, buffer
<1>5. empty = [size |-> bytes, base |-> buffer,
               bits |-> IF g = 1 THEN {bytes * 8} ELSE {},
               free |-> pages, reserved |-> 0, used |-> 0, next |-> 0]
  <2> DEFINE z == [ZeroedAllocator EXCEPT !.free = pages]
  <2>1. z = [size |-> 0, base |-> NULL, bits |-> {}, free |-> pages,
             reserved |-> 0, used |-> 0, next |-> 0]
    BY DEF ZeroedAllocator
  <2>2. empty = initializeBitmap(z, bytes, buffer, g = 1)
    OBVIOUS
  <2> HIDE DEF z, empty
  <2> QED
    BY <2>1, <2>2 DEF initializeBitmap
<1> HIDE DEF empty
<1>6. Sane(empty)
  <2>1. 0 \in 0..(Word - 1)
    BY WordAssumption
  <2>2. empty.bits \subseteq 0..(bytes * 8)
    BY <1>2, <1>5
  <2>3. empty \in Allocators
    BY <1>1, <1>2, <1>3, <1>5, <2>1 DEF Allocators
  <2> QED
    BY <1>1, <1>2, <1>5, <2>2, <2>3 DEF Sane
<1>7. Accounted(empty, pages, g)
  <2>1. Cardinality(empty.bits) = g
    <3>1. CASE g = 0
      BY <1>5, <3>1, FS_EmptySet
    <3>2. CASE g = 1
      <4>1. empty.bits = {bytes * 8}
        BY <1>5, <3>2
      <4> QED
        BY <3>2, <4>1, FS_Singleton
    <3> QED
      BY <3>1, <3>2
  <2> QED
    BY <1>1, <1>5, <2>1, WordAssumption DEF Accounted, Balanced
<1>8. PageRun(0, pages + 1) \in SUBSET Nat /\ PageRun(0, LowPages) \in SUBSET Nat
  <2>1. /\ PageRun(0, pages + 1) \in SUBSET (0..(Word - 1))
        /\ PageRun(0, LowPages) \in SUBSET (0..(Word - 1))
    BY <1>1, PageRunType, LowPagesAssumption
  <2> QED
    BY <2>1, WordAssumption
<1>9. Sane(held) /\ held.size = bytes /\ held.base = buffer /\ Accounted(held, pages, g)
  BY <1>1, <1>5, <1>6, <1>7, <1>8, TakeFacts
<1> HIDE DEF held
<1>10. /\ Sane(opened) /\ opened.size = bytes /\ opened.base = buffer
       /\ Accounted(opened, pages, g)
  <2>1. /\ Sane(opened)
        /\ opened.size = held.size
        /\ opened.base = held.base
        /\ \A total, s \in Nat : Accounted(held, total, s) => Accounted(opened, total, s)
    BY <1>3, <1>9, GiveFacts
  <2> HIDE DEF opened
  <2> QED
    BY <1>1, <1>9, <2>1
<1> HIDE DEF opened
<1>11. /\ Sane(lowHeld) /\ lowHeld.size = bytes /\ lowHeld.base = buffer
       /\ Accounted(lowHeld, pages, g)
       /\ lowHeld.bits = opened.bits \cup Settable(opened, PageRun(0, LowPages))
  BY <1>1, <1>8, <1>10, TakeFacts
<1>n. LowPages > 0 => NULL \in lowHeld.bits
  <2>1. LowPages > 0 => 0 \in PageRun(0, LowPages)
    <3>1. (0 + 0) % Word = 0
      BY WordAssumption
    <3> QED
      BY <3>1, LowPagesAssumption DEF PageRun
  <2>2. 0 \in 0..(opened.size * 8)
    BY <1>2, <1>10
  <2> QED
    BY <1>8, <1>10, <1>11, <2>1, <2>2, SettableFacts DEF NULL
<1> HIDE DEF lowHeld
<1>12. PageRun(lowHeld.base, bytes \div PageSize + 1) \in SUBSET Nat
  <2>1. lowHeld.base \in Nat /\ bytes \div PageSize + 1 \in Int
    BY <1>2, <1>11, PageSizeAssumption DEF Sane, Allocators
  <2>2. PageRun(lowHeld.base, bytes \div PageSize + 1) \in SUBSET (0..(Word - 1))
    BY <2>1, PageRunType
  <2> QED
    BY <2>2, WordAssumption
<1>13. /\ Sane(q) /\ q.size = bytes /\ q.base = buffer /\ Accounted(q, pages, g)
       /\ lowHeld.bits \subseteq q.bits
  BY <1>1, <1>11, <1>12, TakeFacts
<1> QED
  BY <1>2, <1>4, <1>b, <1>n, <1>13 DEF pages

-----------------------------------------------------------------------------
(* Which frames the allocator gives away.                                   *)

(* As long as a frame is clear, requestPage returns the lowest that is, and *)
(* books it as used.                                                        *)
LEMMA RequestLowest ==
  ASSUME NEW p, Sane(p), NEW x \in (0..(p.size * 8 - 1)) \ p.bits
  PROVE  /\ requestedPage(p) \in (0..(p.size * 8 - 1)) \ p.bits
         /\ requestedPage(p) <= x
         /\ requestPage(p).bits = p.bits \cup {requestedPage(p)}
         /\ requestPage(p).used = (p.used + 1) % Word
<1> DEFINE last == p.size * 8
           new == requestedPage(p)
           S == Settable(p, {new})
           n == Cardinality(S)
<1>1. /\ p \in Allocators
      /\ p.size \in Nat /\ p.next \in Nat /\ last \in Nat
      /\ \A i \in 0..(p.next - 1) : i \in p.bits
  BY DEF Sane, Allocators
<1>2. Candidates(p) = {i \in p.next..(last - 1) : i \notin p.bits}
  BY <1>1 DEF Candidates, getBitmap, Addressable
<1>3. x \in Candidates(p)
  BY <1>1, <1>2
<1>4. /\ new = Min(Candidates(p))
      /\ requestPage(p) = [lockPages(p, {new}) EXCEPT !.next = new]
  BY <1>3 DEF requestedPage, requestPage
<1>5. new \in Candidates(p) /\ new <= x
  <2>1. Candidates(p) \in SUBSET Nat /\ Candidates(p) # {}
    BY <1>1, <1>2, <1>3
  <2> QED
    BY <1>3, <1>4, <2>1, MinOfNaturals
<1> HIDE DEF new
<1>6. new \in (0..(last - 1)) \ p.bits
  BY <1>1, <1>2, <1>5
<1>7. S = {new} /\ n = 1
  <2>1. S = {new}
    BY <1>1, <1>6 DEF Settable, getBitmap, Addressable
  <2> QED
    BY <2>1, FS_Singleton
<1>8. /\ requestPage(p).bits = p.bits \cup S
      /\ requestPage(p).used = (p.used + n) % Word
  BY <1>1, <1>4 DEF lockPages, Allocators
<1> QED
  BY <1>5, <1>6, <1>7, <1>8 DEF new

(* requestPage, when the clear bits are those of the open frames that are   *)
(* not shut: it shuts the lowest, or finds none.                            *)
LEMMA RequestShuts ==
  ASSUME NEW p, Sane(p), p.size > 0, NEW open \in SUBSET (0..(p.size * 8)), NEW closed,
         p.bits = (0..(p.size * 8)) \ (open \ closed)
  PROVE  LET new == requestedPage(p)
             q   == requestPage(p)
         IN  /\ Sane(q) /\ q.size = p.size /\ q.base = p.base
             /\ new \in Nat
             /\ q.bits = (0..(p.size * 8)) \ (open \ (closed \cup {new}))
             /\ \/ new \in open \ closed /\ \A f \in open : f < new => f \in closed
                \/ new = NULL /\ \A f \in open : f < p.size * 8 => f \in closed
<1> DEFINE new == requestedPage(p)
           q   == requestPage(p)
           top == p.size * 8
<1>1. /\ Sane(q) /\ q.size = p.size /\ q.base = p.base
      /\ \/ /\ new = NULL
            /\ 0..(top - 1) \subseteq p.bits
            /\ q.bits = p.bits
         \/ /\ new \in (0..(top - 1)) \ p.bits
            /\ q.bits = p.bits \cup {new}
  BY RequestFacts
<1>2. \A x \in (0..(top - 1)) \ p.bits : new <= x
  BY RequestLowest
<1>3. top \in Nat /\ top > 0 /\ p.bits = (0..top) \ (open \ closed) /\ open \in SUBSET (0..top)
  BY DEF Sane, Allocators
<1> HIDE DEF new, q, top
<1>4. CASE new = NULL /\ 0..(top - 1) \subseteq p.bits /\ q.bits = p.bits
  <2>1. ASSUME NEW f \in open, f < top
        PROVE  f \in closed
    <3>1. f \in 0..(top - 1)
      BY <1>3, <2>1
    <3> QED
      BY <1>3, <1>4, <3>1
  <2>2. new \in Nat /\ ~(new \in open \ closed)
    <3>1. new \in 0..(top - 1)
      BY <1>3, <1>4 DEF NULL
    <3> QED
      BY <1>3, <1>4, <3>1
  <2>3. q.bits = (0..top) \ (open \ (closed \cup {new}))
    BY <1>3, <1>4, <2>2
  <2> QED
    BY <1>1, <1>4, <2>1, <2>2, <2>3 DEF new, q, top
<1>5. CASE new \in (0..(top - 1)) \ p.bits /\ q.bits = p.bits \cup {new}
  <2>1. new \in 0..top /\ new \in open \ closed /\ new \in Nat
    BY <1>3, <1>5
  <2>2. q.bits = (0..top) \ (open \ (closed \cup {new}))
    BY <1>3, <1>5, <2>1
  <2>3. ASSUME NEW f \in open, f < new
        PROVE  f \in closed
    <3>1. f \in 0..(top - 1) /\ f \in 0..top /\ ~(new <= f)
      BY <1>3, <1>5, <2>3
    <3>2. f \in p.bits
      BY <1>2, <3>1 DEF top
    <3> QED
      BY <1>3, <3>1, <3>2
  <2> QED
    BY <1>1, <2>1, <2>2, <2>3 DEF new, q, top
<1> QED
  BY <1>1, <1>4, <1>5

(* A run from frame 0 that does not go around the address space. *)
LEMMA LowRun ==
  ASSUME NEW n \in Nat, n <= Word
  PROVE  PageRun(0, n) = 0..(n - 1)
<1>1. \A i \in 0..(n - 1) : (0 + i) % Word = i
  BY WordAssumption
<1> QED
  BY <1>1 DEF PageRun

(* A frame below LowPages, however often the run goes around. *)
LEMMA LowFrames ==
  ASSUME NEW f \in 0..(Word - 1)
  PROVE  f \in PageRun(0, LowPages) <=> f \in 0..(LowPages - 1)
<1>1. f \in Nat /\ f < Word /\ Word \in Nat /\ LowPages \in Nat
  BY WordAssumption, LowPagesAssumption
<1>2. ASSUME f \in 0..(LowPages - 1)
      PROVE  f \in PageRun(0, LowPages)
  <2>1. (0 + f) % Word = f
    BY <1>1
  <2> QED
    BY <1>2, <2>1 DEF PageRun
<1>3. ASSUME f \in PageRun(0, LowPages)
      PROVE  f \in 0..(LowPages - 1)
  <2>1. PICK i \in 0..(LowPages - 1) : f = (0 + i) % Word
    BY <1>3 DEF PageRun
  <2>2. (0 + i) % Word <= i
    <3>1. CASE i < Word
      BY <1>1, <3>1
    <3>2. CASE i >= Word
      <4>1. (0 + i) % Word < Word
        BY <1>1
      <4> QED
        BY <1>1, <2>1, <3>2, <4>1
    <3> QED
      BY <1>1, <3>1, <3>2
  <2> QED
    BY <1>1, <2>1, <2>2
<1> QED
  BY <1>2, <1>3


(* The frames the bitmap shows as free until the first of them is locked:   *)
(* conventional memory, and what it covers above the memory size.           *)
Opened(map, size, stray) ==
  { f \in 0..(size * 8) :
      \/ f \in ConventionalFrames(map)
      \/ f > getMemorySize(map) /\ ~(stray /\ f = size * 8) } \ PageRun(0, LowPages)

(* When the allocator is initialised these are clear and everything else is *)
(* set, except that the bitmap has locked its own frames and counted them.  *)
Opens(map, stray, q) ==
  LET open   == Opened(map, q.size, stray)
      bitmap == PageRun(q.base, q.size \div PageSize + 1)
  IN  /\ q.bits = (0..(q.size * 8)) \ (open \ bitmap)
      /\ q.used = Cardinality(bitmap \cap open) % Word

LEMMA InitializedFrames ==
  ASSUME NEW map, ValidMap(map), NEW g \in 0..1
  PROVE  Opens(map, g = 1, initializePageFrame(ZeroedAllocator, map, g = 1))
<1> DEFINE pages   == getMemorySize(map)
           bytes   == pages \div 8 + 1
           buffer  == largestFreeMemorySegment(map)
           all     == 0..(bytes * 8)
           C       == ConventionalFrames(map)
           low     == PageRun(0, LowPages)
           open    == Opened(map, bytes, g = 1)
           bitmap  == PageRun(buffer, bytes \div PageSize + 1)
           empty   == initializeBitmap([ZeroedAllocator EXCEPT !.free = pages],
                                       bytes, buffer, g = 1)
           held    == reservePages(empty, PageRun(0, pages + 1))
           opened  == unreservePages(held, C)
           lowHeld == reservePages(opened, low)
           q       == lockPages(lowHeld, PageRun(lowHeld.base, bytes \div PageSize + 1))
<1>1. /\ pages \in 0..(Word - 1)
      /\ pages \in Nat
      /\ bytes * 8 < Word
  BY WordAssumption DEF ValidMap
<1>2. bytes \in Nat /\ bytes > 0 /\ pages < bytes * 8
  BY <1>1
<1>3. buffer \in Nat /\ C \in SUBSET Nat
  BY MapFacts
<1>o. /\ open = { f \in all : f \in C \/ (f > pages /\ ~(g = 1 /\ f = bytes * 8)) } \ low
      /\ bytes = getMemorySize(map) \div 8 + 1
  BY DEF Opened
<1>4. initializePageFrame(ZeroedAllocator, map, g = 1) = q
  BY DEF initializePageFrame
<1> HIDE DEF pages, bytes, buffer, C, low, open
<1>5. empty = [size |-> bytes, base |-> buffer,
               bits |-> IF g = 1 THEN {bytes * 8} ELSE {},
               free |-> pages, reserved |-> 0, used |-> 0, next |-> 0]
  <2> DEFINE z == [ZeroedAllocator EXCEPT !.free = pages]
  <2>1. z = [size |-> 0, base |-> NULL, bits |-> {}, free |-> pages,
             reserved |-> 0, used |-> 0, next |-> 0]
    BY DEF ZeroedAllocator
  <2>2. empty = initializeBitmap(z, bytes, buffer, g = 1)
    OBVIOUS
  <2> HIDE DEF z, empty
  <2> QED
    BY <2>1, <2>2 DEF initializeBitmap
<1> HIDE DEF empty
<1>6. Sane(empty)
  <2>1. 0 \in 0..(Word - 1)
    BY WordAssumption
  <2>2. empty.bits \subseteq 0..(bytes * 8)
    BY <1>2, <1>5
  <2>3. empty \in Allocators
    BY <1>1, <1>2, <1>3, <1>5, <2>1 DEF Allocators
  <2> QED
    BY <1>1, <1>2, <1>5, <2>2, <2>3 DEF Sane
<1>7. PageRun(0, pages + 1) = 0..pages
  <2> DEFINE n == pages + 1
  <2>1. n \in Nat /\ n <= Word /\ n - 1 = pages
    BY <1>1, WordAssumption
  <2> HIDE DEF n
  <2>2. PageRun(0, n) = 0..(n - 1)
    BY <2>1, LowRun
  <2> QED
    BY <2>1, <2>2 DEF n
<1>8. low \in SUBSET Nat
  <2>1. low \in SUBSET (0..(Word - 1))
    BY PageRunType, LowPagesAssumption DEF low
  <2> QED
    BY <2>1, WordAssumption
<1>9. /\ Sane(held) /\ held.size = bytes /\ held.base = buffer /\ held.used = 0
      /\ \A f \in all : f \in held.bits <=> f <= pages \/ (g = 1 /\ f = bytes * 8)
      /\ held.bits \subseteq all
  <2>1. PageRun(0, pages + 1) \in SUBSET Nat
    BY <1>1, <1>7
  <2>2. /\ Sane(held) /\ held.size = bytes /\ held.base = buffer
        /\ held.bits = empty.bits \cup Settable(empty, PageRun(0, pages + 1))
    <3>1. /\ Sane(held) /\ held.size = empty.size /\ held.base = empty.base
          /\ held.bits = empty.bits \cup Settable(empty, PageRun(0, pages + 1))
      BY <1>6, <2>1, TakeFacts
    <3>2. empty.size = bytes /\ empty.base = buffer
      BY <1>5
    <3> QED
      BY <3>1, <3>2
  <2>3. held.used = 0
    BY <1>5 DEF reservePages
  <2>4. \A f \in all : f \in Settable(empty, PageRun(0, pages + 1))
                         <=> f <= pages /\ f \notin empty.bits
    BY <1>1, <1>2, <1>5, <1>7 DEF Settable, getBitmap, Addressable
  <2>5. \A f \in all : f \in empty.bits <=> g = 1 /\ f = bytes * 8
    BY <1>5
  <2>6. held.bits \subseteq all
    BY <2>2 DEF Sane
  <2> QED
    BY <2>2, <2>3, <2>4, <2>5, <2>6
<1> HIDE DEF held
<1>10. /\ Sane(opened) /\ opened.size = bytes /\ opened.base = buffer /\ opened.used = 0
       /\ opened.bits = held.bits \ C
  <2>1. /\ Sane(opened)
        /\ opened.size = held.size
        /\ opened.base = held.base
        /\ opened.bits = held.bits \ Clearable(held, C)
    BY <1>3, <1>9, GiveFacts
  <2>2. opened.used = held.used
    BY <1>9 DEF unreservePages, Sane, Allocators
  <2>3. held.bits \cap C = Clearable(held, C)
    BY <1>2, <1>9 DEF Clearable, getBitmap, Addressable
  <2> QED
    BY <1>9, <2>1, <2>2, <2>3
<1> HIDE DEF opened
<1>11. /\ Sane(lowHeld) /\ lowHeld.size = bytes /\ lowHeld.base = buffer /\ lowHeld.used = 0
       /\ lowHeld.bits = all \ open
  <2>1. /\ Sane(lowHeld)
        /\ lowHeld.size = bytes
        /\ lowHeld.base = buffer
        /\ lowHeld.bits = opened.bits \cup Settable(opened, low)
    BY <1>8, <1>10, TakeFacts
  <2>2. lowHeld.used = 0
    BY <1>10 DEF reservePages, Sane, Allocators
  <2>3. \A f \in all : f \in Settable(opened, low) <=> f \in low /\ f \notin opened.bits
    BY <1>2, <1>10 DEF Settable, getBitmap, Addressable
  <2>4. lowHeld.bits \subseteq all
    BY <2>1 DEF Sane
  <2>5. \A f \in all : f \in open <=>
          (f \in C \/ (f > pages /\ ~(g = 1 /\ f = bytes * 8))) /\ f \notin low
    BY <1>o
  <2>6. \A f \in all : ~(f <= pages) <=> f > pages
    BY <1>1, <1>2
  <2>7. \A f \in all : f \in lowHeld.bits <=> f \notin open
    BY <1>9, <1>10, <2>1, <2>3, <2>5, <2>6
  <2> QED
    BY <2>1, <2>2, <2>4, <2>7
<1> HIDE DEF lowHeld
<1>12. bitmap \in SUBSET Nat /\ bitmap = PageRun(lowHeld.base, bytes \div PageSize + 1)
  <2>1. bytes \div PageSize + 1 \in Int
    BY <1>2, PageSizeAssumption
  <2>2. bitmap \in SUBSET (0..(Word - 1))
    BY <1>3, <2>1, PageRunType
  <2> QED
    BY <1>11, <2>2, WordAssumption
<1>13. open \subseteq all
  BY <1>o
<1> HIDE DEF bitmap
<1>14. Settable(lowHeld, bitmap) = bitmap \cap open
  BY <1>2, <1>11, <1>12, <1>13 DEF Settable, getBitmap, Addressable
<1>15. q = lockPages(lowHeld, bitmap)
  BY <1>12
<1> HIDE DEF q
<1>16. /\ q.size = bytes /\ q.base = buffer
       /\ q.bits = lowHeld.bits \cup Settable(lowHeld, bitmap)
  BY <1>11, <1>12, <1>15, TakeFacts
<1>17. q.used = Cardinality(bitmap \cap open) % Word
  <2> DEFINE n == Cardinality(bitmap \cap open)
  <2>1. n \in Nat
    BY <1>11, <1>12, <1>14, SettableFacts
  <2>2. q.used = (lowHeld.used + n) % Word
    BY <1>11, <1>14, <1>15 DEF lockPages, Sane, Allocators
  <2> HIDE DEF n
  <2>3. q.used = n % Word
    BY <1>11, <2>1, <2>2
  <2> QED
    BY <2>3 DEF n
<1>18. q.bits = all \ (open \ bitmap)
  BY <1>11, <1>13, <1>14, <1>16
<1>19. Opens(map, g = 1, q)
  BY <1>16, <1>17, <1>18 DEF Opens, open, bitmap
<1> QED
  BY <1>4, <1>19

-----------------------------------------------------------------------------
(* The indexes of a page.                                                   *)

(* Two numbers with the same remainder and the same quotient are the same.  *)
LEMMA DigitsDetermine ==
  ASSUME NEW a \in Nat, NEW b \in Nat,
         a % Fanout = b % Fanout, a \div Fanout = b \div Fanout
  PROVE  a = b
<1>1. a = (a \div Fanout) * Fanout + (a % Fanout) /\ b = (b \div Fanout) * Fanout + (b % Fanout)
  BY FanoutAssumption
<1> QED
  BY <1>1

(* A quotient is smaller than what it is a quotient of by one factor.       *)
LEMMA DigitDrops ==
  ASSUME NEW a \in Nat, NEW n \in Nat \ {0}, a < n * Fanout
  PROVE  a \div Fanout \in Nat /\ a \div Fanout < n
<1> DEFINE q == a \div Fanout
           r == a % Fanout
<1>1. q \in Int /\ r \in 0..(Fanout - 1) /\ a = q * Fanout + r
  BY FanoutAssumption
<1> HIDE DEF q, r
<1>2. CASE q >= n
  <2>1. PICK d \in Nat : q = n + d
    <3>1. q - n \in Nat /\ q = n + (q - n)
      BY <1>1, <1>2
    <3> QED
      BY <3>1
  <2>2. q * Fanout = n * Fanout + d * Fanout
    BY <2>1, FanoutAssumption
  <2>3. d * Fanout >= 0
    BY FanoutAssumption
  <2>4. n * Fanout \in Int /\ d * Fanout \in Int /\ q * Fanout \in Int
    BY <1>1, FanoutAssumption
  <2> QED
    BY <1>1, <2>2, <2>3, <2>4
<1>3. CASE q < 0
  <2>1. q * Fanout <= -Fanout
    BY <1>1, <1>3, FanoutAssumption
  <2>2. q * Fanout \in Int
    BY <1>1, FanoutAssumption
  <2> QED
    BY <1>1, <2>1, <2>2, FanoutAssumption
<1> QED
  BY <1>1, <1>2, <1>3 DEF q

(* Each index of a page is a slot of its table. *)
LEMMA IndexType ==
  ASSUME NEW page \in Nat
  PROVE  LET index == getPageTableIndex(page)
         IN  /\ index.PDP_i \in Slots
             /\ index.PD_i \in Slots
             /\ index.PT_i \in Slots
             /\ index.P_i \in Slots
<1>1. \A a \in Nat : a % Fanout \in Slots /\ a \div Fanout \in Nat
  BY FanoutAssumption DEF Slots
<1> QED
  BY <1>1 DEF getPageTableIndex

(* No two pages of the 48-bit address space have all four indexes in        *)
(* common.                                                                  *)
LEMMA IndexDetermines ==
  ASSUME NEW p \in 0..(Fanout * Fanout * Fanout * Fanout - 1),
         NEW q \in 0..(Fanout * Fanout * Fanout * Fanout - 1),
         getPageTableIndex(p) = getPageTableIndex(q)
  PROVE  p = q
<1>1. /\ p % Fanout = q % Fanout
      /\ (p \div Fanout) % Fanout = (q \div Fanout) % Fanout
      /\ ((p \div Fanout) \div Fanout) % Fanout = ((q \div Fanout) \div Fanout) % Fanout
      /\ (((p \div Fanout) \div Fanout) \div Fanout) % Fanout
           = (((q \div Fanout) \div Fanout) \div Fanout) % Fanout
  BY DEF getPageTableIndex
<1>2. ASSUME NEW a \in 0..(Fanout * Fanout * Fanout * Fanout - 1)
      PROVE  /\ a \in Nat
             /\ a \div Fanout \in Nat
             /\ (a \div Fanout) \div Fanout \in Nat
             /\ ((a \div Fanout) \div Fanout) \div Fanout \in Nat
             /\ ((a \div Fanout) \div Fanout) \div Fanout < Fanout
  <2> DEFINE F3 == Fanout * Fanout * Fanout
             F2 == Fanout * Fanout
             b == a \div Fanout
             c == b \div Fanout
             d == c \div Fanout
  <2>1. F2 \in Nat \ {0} /\ F3 \in Nat \ {0} /\ F3 = F2 * Fanout
    BY FanoutAssumption
  <2>2. a \in Nat /\ a < F3 * Fanout
    BY FanoutAssumption
  <2> HIDE DEF F2, F3
  <2>3. b \in Nat /\ b < F3
    BY <2>1, <2>2, DigitDrops
  <2> HIDE DEF b
  <2>4. c \in Nat /\ c < F2
    BY <2>1, <2>3, DigitDrops
  <2> HIDE DEF c
  <2>5. c < Fanout * Fanout
    BY <2>4 DEF F2
  <2>6. d \in Nat /\ d < Fanout
    BY <2>4, <2>5, DigitDrops, FanoutAssumption
  <2> QED
    BY <2>2, <2>3, <2>4, <2>6 DEF b, c
<1>3. ((p \div Fanout) \div Fanout) \div Fanout = ((q \div Fanout) \div Fanout) \div Fanout
  <2>1. \A x \in Nat : x < Fanout => x % Fanout = x
    BY FanoutAssumption
  <2> DEFINE x == ((p \div Fanout) \div Fanout) \div Fanout
             y == ((q \div Fanout) \div Fanout) \div Fanout
  <2>2. x \in Nat /\ x < Fanout /\ y \in Nat /\ y < Fanout /\ x % Fanout = y % Fanout
    BY <1>1, <1>2
  <2> HIDE DEF x, y
  <2>3. x = y
    BY <2>1, <2>2
  <2> QED
    BY <2>3 DEF x, y
<1>4. (p \div Fanout) \div Fanout = (q \div Fanout) \div Fanout
  BY <1>1, <1>2, <1>3, DigitsDetermine
<1>5. p \div Fanout = q \div Fanout
  BY <1>1, <1>2, <1>4, DigitsDetermine
<1> QED
  BY <1>1, <1>2, <1>5, DigitsDetermine

-----------------------------------------------------------------------------
(* Trees of tables.                                                         *)

(* Below a set of tables are the addresses of their present entries. *)
LEMMA BelowFacts ==
  ASSUME NEW ram, NEW T
  PROVE  /\ \A f \in T, i \in Slots :
              ram[f][i].present => ram[f][i].address \in below(ram, T)
         /\ \A x \in below(ram, T) :
              \E f \in T, i \in Slots : ram[f][i].present /\ ram[f][i].address = x
<1>1. ASSUME NEW f \in T, NEW i \in Slots, ram[f][i].present
      PROVE  ram[f][i].address \in below(ram, T)
  <2>1. <<f, i>> \in links(ram, T)
    BY <1>1 DEF links
  <2>2. target(ram, <<f, i>>) = ram[f][i].address
    BY DEF target
  <2> QED
    BY <2>1, <2>2 DEF below
<1>2. ASSUME NEW x \in below(ram, T)
      PROVE  \E f \in T, i \in Slots : ram[f][i].present /\ ram[f][i].address = x
  <2>1. PICK l \in links(ram, T) : x = target(ram, l)
    BY DEF below
  <2>2. l[1] \in T /\ l[2] \in Slots /\ ram[l[1]][l[2]].present
    BY DEF links
  <2> QED
    BY <2>1, <2>2 DEF target
<1> QED
  BY <1>1, <1>2

(* The entries of the tables above the leaf tables lead to frames of taken, *)
(* no two of them to the same one, and none back to the root.               *)
Tree(ram, root, taken) ==
  LET U == upperTables(ram, root)
  IN  /\ root \in taken
      /\ \A f \in U, i \in Slots :
           ram[f][i].present => ram[f][i].address \in taken \ {root}
      /\ \A f, g \in U, i, j \in Slots :
           /\ ram[f][i].present
           /\ ram[g][j].present
           /\ ram[f][i].address = ram[g][j].address
           => f = g /\ i = j

(* All tables of a tree are of taken, and no table is at two levels. *)
LEMMA TreeFacts ==
  ASSUME NEW ram, NEW root, NEW taken, Tree(ram, root, taken)
  PROVE  LET U == upperTables(ram, root)
         IN  /\ U \subseteq taken
             /\ PTs(ram, root) \subseteq taken
             /\ root \notin PDPs(ram, root) \cup PDs(ram, root) \cup PTs(ram, root)
             /\ PDPs(ram, root) \cap PDs(ram, root) = {}
             /\ PTs(ram, root) \cap U = {}
<1> DEFINE B == PDPs(ram, root)
           C == PDs(ram, root)
           P == PTs(ram, root)
           U == upperTables(ram, root)
<1>1. B = below(ram, {root}) /\ C = below(ram, B) /\ P = below(ram, C)
  BY DEF PDPs, PDs, PTs
<1>2. U = {root} \cup B \cup C
  BY DEF upperTables
<1>3. /\ root \in taken
      /\ \A f \in U, i \in Slots :
           ram[f][i].present => ram[f][i].address \in taken \ {root}
      /\ \A f, g \in U, i, j \in Slots :
           /\ ram[f][i].present
           /\ ram[g][j].present
           /\ ram[f][i].address = ram[g][j].address
           => f = g /\ i = j
  BY DEF Tree
<1> HIDE DEF B, C, P, U
<1>4. B \cup C \cup P \subseteq taken \ {root}
  <2>1. ASSUME NEW T \in SUBSET U
        PROVE  below(ram, T) \subseteq taken \ {root}
    <3> SUFFICES ASSUME NEW x \in below(ram, T)
                 PROVE  x \in taken \ {root}
      OBVIOUS
    <3>1. PICK f \in T, i \in Slots : ram[f][i].present /\ ram[f][i].address = x
      BY BelowFacts
    <3> QED
      BY <1>3, <3>1
  <2>2. {root} \in SUBSET U /\ B \in SUBSET U /\ C \in SUBSET U
    BY <1>2
  <2> QED
    BY <1>1, <2>1, <2>2
<1>5. ASSUME NEW S \in SUBSET U, NEW T \in SUBSET U, S \cap T = {}
      PROVE  below(ram, S) \cap below(ram, T) = {}
  <2> SUFFICES ASSUME NEW x \in below(ram, S), x \in below(ram, T)
               PROVE  FALSE
    OBVIOUS
  <2>1. PICK f \in S, i \in Slots : ram[f][i].present /\ ram[f][i].address = x
    BY BelowFacts
  <2>2. PICK g \in T, j \in Slots : ram[g][j].present /\ ram[g][j].address = x
    BY BelowFacts
  <2>3. f = g
    BY <1>3, <2>1, <2>2
  <2> QED
    BY <1>5, <2>3
<1>6. {root} \cap B = {} /\ {root} \cap C = {} /\ root \notin P
  BY <1>4
<1>7. {root} \in SUBSET U /\ B \in SUBSET U /\ C \in SUBSET U
  BY <1>2
<1>8. B \cap C = {}
  BY <1>1, <1>5, <1>6, <1>7
<1>9. P \cap C = {} /\ P \cap B = {}
  BY <1>1, <1>5, <1>6, <1>7, <1>8
<1> QED
  BY <1>2, <1>3, <1>4, <1>6, <1>8, <1>9 DEF B, C, P, U

(* Where the entries of each level lead. *)
LEMMA LevelFacts ==
  ASSUME NEW ram, NEW root
  PROVE  /\ \A i \in Slots :
              ram[root][i].present => ram[root][i].address \in PDPs(ram, root)
         /\ \A f \in PDPs(ram, root), i \in Slots :
              ram[f][i].present => ram[f][i].address \in PDs(ram, root)
         /\ \A f \in PDs(ram, root), i \in Slots :
              ram[f][i].present => ram[f][i].address \in PTs(ram, root)
         /\ root \in upperTables(ram, root)
         /\ PDPs(ram, root) \subseteq upperTables(ram, root)
         /\ PDs(ram, root) \subseteq upperTables(ram, root)
<1>1. \A i \in Slots : ram[root][i].present => ram[root][i].address \in PDPs(ram, root)
  <2>1. root \in {root}
    OBVIOUS
  <2> QED
    BY <2>1, BelowFacts DEF PDPs
<1>2. \A f \in PDPs(ram, root), i \in Slots :
        ram[f][i].present => ram[f][i].address \in PDs(ram, root)
  BY BelowFacts DEF PDs
<1>3. \A f \in PDs(ram, root), i \in Slots :
        ram[f][i].present => ram[f][i].address \in PTs(ram, root)
  BY BelowFacts DEF PTs
<1> QED
  BY <1>1, <1>2, <1>3 DEF upperTables

(* Every present entry of frames F is left alone. *)
KeepsPresent(F, ram, ram2) ==
  \A f \in F, i \in Slots : ram[f][i].present => ram2[f][i] = ram[f][i]

(* Present entries that are left alone leave every table at its level. *)
LEMMA LevelsGrow ==
  ASSUME NEW ram, NEW ram2, NEW root,
         KeepsPresent(upperTables(ram, root), ram, ram2)
  PROVE  /\ PDPs(ram, root) \subseteq PDPs(ram2, root)
         /\ PDs(ram, root) \subseteq PDs(ram2, root)
         /\ PTs(ram, root) \subseteq PTs(ram2, root)
         /\ upperTables(ram, root) \subseteq upperTables(ram2, root)
<1>1. ASSUME NEW T \in SUBSET upperTables(ram, root), NEW T2, T \subseteq T2
      PROVE  below(ram, T) \subseteq below(ram2, T2)
  <2> SUFFICES ASSUME NEW x \in below(ram, T)
               PROVE  x \in below(ram2, T2)
    OBVIOUS
  <2>1. PICK f \in T, i \in Slots : ram[f][i].present /\ ram[f][i].address = x
    BY BelowFacts
  <2>2. ram2[f][i].present /\ ram2[f][i].address = x
    BY <2>1 DEF KeepsPresent
  <2>3. f \in T2
    BY <1>1
  <2> QED
    BY <2>2, <2>3, BelowFacts
<1>2. PDPs(ram, root) \subseteq PDPs(ram2, root)
  <2>1. {root} \in SUBSET upperTables(ram, root)
    BY LevelFacts
  <2> QED
    BY <1>1, <2>1 DEF PDPs
<1>3. PDs(ram, root) \subseteq PDs(ram2, root)
  BY <1>1, <1>2, LevelFacts DEF PDs
<1>4. PTs(ram, root) \subseteq PTs(ram2, root)
  BY <1>1, <1>3, LevelFacts DEF PTs
<1> QED
  BY <1>2, <1>3, <1>4 DEF upperTables

(* Tables that are left alone stay the same tree, under the same walks. *)
LEMMA LevelsStay ==
  ASSUME NEW ram, NEW ram2, NEW root,
         \A f \in upperTables(ram, root), i \in Slots : ram2[f][i] = ram[f][i]
  PROVE  /\ upperTables(ram2, root) = upperTables(ram, root)
         /\ PTs(ram2, root) = PTs(ram, root)
<1>1. ASSUME NEW T \in SUBSET upperTables(ram, root)
      PROVE  below(ram2, T) = below(ram, T)
  <2>1. ASSUME NEW x \in below(ram2, T)
        PROVE  x \in below(ram, T)
    <3>1. PICK f \in T, i \in Slots : ram2[f][i].present /\ ram2[f][i].address = x
      BY BelowFacts
    <3>2. ram[f][i].present /\ ram[f][i].address = x
      BY <3>1
    <3> QED
      BY <3>2, BelowFacts
  <2>2. ASSUME NEW x \in below(ram, T)
        PROVE  x \in below(ram2, T)
    <3>1. PICK f \in T, i \in Slots : ram[f][i].present /\ ram[f][i].address = x
      BY BelowFacts
    <3>2. ram2[f][i].present /\ ram2[f][i].address = x
      BY <3>1
    <3> QED
      BY <3>2, BelowFacts
  <2> QED
    BY <2>1, <2>2
<1>2. PDPs(ram2, root) = PDPs(ram, root)
  <2>1. {root} \in SUBSET upperTables(ram, root)
    BY LevelFacts
  <2> QED
    BY <1>1, <2>1 DEF PDPs
<1>3. PDs(ram2, root) = PDs(ram, root)
  BY <1>1, <1>2, LevelFacts DEF PDs
<1>4. PTs(ram2, root) = PTs(ram, root)
  BY <1>1, <1>3, LevelFacts DEF PTs
<1> QED
  BY <1>2, <1>3, <1>4 DEF upperTables

-----------------------------------------------------------------------------
(* Walks.                                                                   *)

(* Changes that keep every present entry, and let an absent one become at   *)
(* most a link to an empty table, show in no walk.                          *)
LEMMA WalkSame ==
  ASSUME NEW ram, NEW ram2, NEW root, NEW page \in Nat,
         \A f \in upperTables(ram, root) \cup PTs(ram, root), i \in Slots :
           IF ram[f][i].present
             THEN ram2[f][i] = ram[f][i]
             ELSE \/ ram2[f][i] = ram[f][i]
                  \/ /\ f \notin PTs(ram, root)
                     /\ \A j \in Slots : ~ram2[ram2[f][i].address][j].present
  PROVE  translate(ram2, root, page) = translate(ram, root, page)
<1> DEFINE index == getPageTableIndex(page)
           a == index.PDP_i
           b == index.PD_i
           c == index.PT_i
           d == index.P_i
           U == upperTables(ram, root)
           P == PTs(ram, root)
           e1 == ram[root][a]
           e2 == ram[e1.address][b]
           e3 == ram[e2.address][c]
           e4 == ram[e3.address][d]
           g1 == ram2[root][a]
           g2 == ram2[g1.address][b]
           g3 == ram2[g2.address][c]
           g4 == ram2[g3.address][d]
<1>1. a \in Slots /\ b \in Slots /\ c \in Slots /\ d \in Slots
  BY IndexType
<1>2. /\ translate(ram, root, page)
           = IF e1.present /\ e2.present /\ e3.present /\ e4.present
               THEN e4.address ELSE Unmapped
      /\ translate(ram2, root, page)
           = IF g1.present /\ g2.present /\ g3.present /\ g4.present
               THEN g4.address ELSE Unmapped
  BY DEF translate
<1>3. /\ e1 = ram[root][a] /\ e2 = ram[e1.address][b]
      /\ e3 = ram[e2.address][c] /\ e4 = ram[e3.address][d]
      /\ g1 = ram2[root][a] /\ g2 = ram2[g1.address][b]
      /\ g3 = ram2[g2.address][c] /\ g4 = ram2[g3.address][d]
  OBVIOUS
<1>4. /\ root \in U
      /\ e1.present => e1.address \in U
      /\ e1.present /\ e2.present => e2.address \in U
      /\ e1.present /\ e2.present /\ e3.present => e3.address \in P
  <2>1. root \in U /\ (e1.present => e1.address \in PDPs(ram, root))
    BY <1>1, LevelFacts
  <2> HIDE DEF e1
  <2>2. e1.present /\ e2.present => e2.address \in PDs(ram, root)
    BY <1>1, <2>1, LevelFacts
  <2> HIDE DEF e2
  <2>3. e1.present /\ e2.present /\ e3.present => e3.address \in P
    BY <1>1, <2>2, LevelFacts
  <2> QED
    BY <2>1, <2>2, <2>3, LevelFacts
<1> HIDE DEF index, a, b, c, d, U, P, e1, e2, e3, e4, g1, g2, g3, g4
<1>5. ASSUME NEW f \in U \cup P, NEW i \in Slots
      PROVE  \/ ram2[f][i] = ram[f][i]
             \/ /\ ~ram[f][i].present
                /\ f \notin P
                /\ \A j \in Slots : ~ram2[ram2[f][i].address][j].present
  BY DEF U, P
<1>6. g1 = e1 \/ (~e1.present /\ ~g2.present)
  BY <1>1, <1>3, <1>4, <1>5
<1>7. e1.present => g2 = e2 \/ (~e2.present /\ ~g3.present)
  <2>1. e1.present => \/ ram2[e1.address][b] = e2
                      \/ /\ ~e2.present
                         /\ \A j \in Slots : ~ram2[ram2[e1.address][b].address][j].present
    BY <1>1, <1>3, <1>4, <1>5
  <2>2. e1.present => g2 = ram2[e1.address][b]
    BY <1>3, <1>6
  <2> QED
    BY <1>1, <1>3, <2>1, <2>2
<1>8. e1.present /\ e2.present => g3 = e3 \/ (~e3.present /\ ~g4.present)
  <2>1. e1.present /\ e2.present
          => \/ ram2[e2.address][c] = e3
             \/ /\ ~e3.present
                /\ \A j \in Slots : ~ram2[ram2[e2.address][c].address][j].present
    BY <1>1, <1>3, <1>4, <1>5
  <2>2. e1.present /\ e2.present => g3 = ram2[e2.address][c]
    BY <1>3, <1>7
  <2> QED
    BY <1>1, <1>3, <2>1, <2>2
<1>9. e1.present /\ e2.present /\ e3.present => g4 = e4
  <2>1. ASSUME e1.present, e2.present, e3.present
        PROVE  ram2[e3.address][d] = e4
    <3>1. e3.address \in P
      BY <1>4, <2>1
    <3> QED
      BY <1>1, <1>3, <1>5, <3>1
  <2> QED
    BY <1>3, <1>8, <2>1
<1>10. CASE ~e1.present
  BY <1>2, <1>6, <1>10
<1>11. CASE e1.present /\ ~e2.present
  BY <1>2, <1>6, <1>7, <1>11
<1>12. CASE e1.present /\ e2.present /\ ~e3.present
  BY <1>2, <1>6, <1>7, <1>8, <1>12
<1>13. CASE e1.present /\ e2.present /\ e3.present
  BY <1>2, <1>6, <1>7, <1>8, <1>9, <1>13
<1> QED
  BY <1>10, <1>11, <1>12, <1>13

(* Changes that keep every present entry keep every walk that arrives. *)
LEMMA WalkKept ==
  ASSUME NEW ram, NEW ram2, NEW root, NEW page \in Nat,
         KeepsPresent(upperTables(ram, root) \cup PTs(ram, root), ram, ram2),
         translate(ram, root, page) # Unmapped
  PROVE  translate(ram2, root, page) = translate(ram, root, page)
<1> DEFINE index == getPageTableIndex(page)
           a == index.PDP_i
           b == index.PD_i
           c == index.PT_i
           d == index.P_i
           e1 == ram[root][a]
           e2 == ram[e1.address][b]
           e3 == ram[e2.address][c]
           e4 == ram[e3.address][d]
<1>k. \A f \in upperTables(ram, root) \cup PTs(ram, root), i \in Slots :
        ram[f][i].present => ram2[f][i] = ram[f][i]
  BY DEF KeepsPresent
<1>1. a \in Slots /\ b \in Slots /\ c \in Slots /\ d \in Slots
  BY IndexType
<1>2. /\ e1.present /\ e2.present /\ e3.present /\ e4.present
      /\ translate(ram, root, page) = e4.address
  BY DEF translate
<1> DEFINE g1 == ram2[root][a]
           g2 == ram2[g1.address][b]
           g3 == ram2[g2.address][c]
           g4 == ram2[g3.address][d]
<1>3. translate(ram2, root, page)
        = IF g1.present /\ g2.present /\ g3.present /\ g4.present
            THEN g4.address ELSE Unmapped
  BY DEF translate
<1> HIDE DEF index, a, b, c, d
<1>4. g1 = e1
  BY <1>k, <1>1, <1>2, LevelFacts
<1>5. e1.address \in PDPs(ram, root)
  BY <1>1, <1>2, LevelFacts
<1> HIDE DEF e1, g1
<1>6. g2 = e2
  BY <1>k, <1>1, <1>2, <1>4, <1>5, LevelFacts
<1>7. e2.address \in PDs(ram, root)
  BY <1>1, <1>2, <1>5, LevelFacts
<1> HIDE DEF e2, g2
<1>8. g3 = e3
  BY <1>k, <1>1, <1>2, <1>6, <1>7, LevelFacts
<1>9. e3.address \in PTs(ram, root)
  BY <1>1, <1>2, <1>7, LevelFacts
<1> HIDE DEF e3, g3
<1>10. g4 = e4
  BY <1>k, <1>1, <1>2, <1>8, <1>9
<1> QED
  BY <1>2, <1>3, <1>4, <1>6, <1>8, <1>10

-----------------------------------------------------------------------------
(* Writing tables.                                                          *)

(* The memory the tables are in: frames D full of entries. *)
Memory(D) == [D -> [Slots -> Entry]]

(* What mapMemory writes is an entry again, present, and leads to the frame *)
(* wherever an entry can.                                                   *)
LEMMA PointedFacts ==
  ASSUME NEW entry \in Entry, NEW frame \in Nat
  PROVE  /\ pointedAt(entry, frame) \in Entry
         /\ pointedAt(entry, frame).present
         /\ pointedAt(entry, frame).address = frame % EntryFrames
         /\ frame < EntryFrames => pointedAt(entry, frame).address = frame
<1>1. frame % EntryFrames \in 0..(EntryFrames - 1)
  BY EntryFramesAssumption
<1>2. frame < EntryFrames => frame % EntryFrames = frame
  BY EntryFramesAssumption
<1> DEFINE address == frame % EntryFrames
<1>3. pointedAt(entry, frame)
        = [entry EXCEPT !.address = address, !.present = TRUE, !.writable = TRUE]
  BY DEF pointedAt
<1> HIDE DEF address
<1>4. address \in 0..(EntryFrames - 1)
  BY <1>1 DEF address
<1>5. pointedAt(entry, frame) \in Entry
  BY <1>3, <1>4 DEF Entry
<1>6. pointedAt(entry, frame).present
  BY <1>3, <1>4 DEF Entry
<1>7. pointedAt(entry, frame).address = address
  BY <1>3, <1>4 DEF Entry
<1> QED
  BY <1>2, <1>5, <1>6, <1>7 DEF address

(* Clearing a frame. *)
LEMMA ClearedFacts ==
  ASSUME NEW D, NEW ram \in Memory(D), NEW new \in D
  PROVE  /\ memsetTable(ram, new) \in Memory(D)
         /\ \A i \in Slots : memsetTable(ram, new)[new][i] = ZeroEntry
         /\ \A f \in D \ {new} : memsetTable(ram, new)[f] = ram[f]
<1>1. ZeroEntry \in Entry
  BY EntryFramesAssumption DEF ZeroEntry, Entry
<1> QED
  BY <1>1 DEF memsetTable, Memory

(* Clearing a frame and pointing an entry at it. *)
hung(ram, table, i, new) ==
  [memsetTable(ram, new) EXCEPT ![table][i] = pointedAt(ram[table][i], new)]

LEMMA HungFacts ==
  ASSUME NEW D, NEW ram \in Memory(D), NEW table \in D, NEW new \in D,
         NEW i \in Slots, new \in 0..(EntryFrames - 1)
  PROVE  LET ram2 == hung(ram, table, i, new)
         IN  /\ ram2 \in Memory(D)
             /\ ram2[table][i].present
             /\ ram2[table][i].address = new
             /\ \A f \in D \ {new}, j \in Slots :
                  ram2[f][j] = ram[f][j] \/ (f = table /\ j = i)
             /\ \A j \in Slots : ram2[new][j] = ZeroEntry \/ (new = table /\ j = i)
<1> DEFINE ram2 == hung(ram, table, i, new)
           m == memsetTable(ram, new)
           e == pointedAt(ram[table][i], new)
<1>1. e \in Entry /\ e.present /\ e.address = new
  <2>1. ram[table][i] \in Entry /\ new \in Nat /\ new < EntryFrames
    BY EntryFramesAssumption DEF Memory
  <2> QED
    BY <2>1, PointedFacts
<1>2. /\ m \in Memory(D)
      /\ \A j \in Slots : m[new][j] = ZeroEntry
      /\ \A f \in D \ {new} : m[f] = ram[f]
  BY ClearedFacts
<1>3. ram2 = [m EXCEPT ![table][i] = e]
  BY DEF hung
<1> HIDE DEF m, e, ram2
<1>4. /\ ram2 \in Memory(D)
      /\ ram2[table][i] = e
      /\ \A f \in D, j \in Slots : ram2[f][j] = m[f][j] \/ (f = table /\ j = i)
  <2>1. m \in Memory(D) /\ e \in Entry
    BY <1>1, <1>2
  <2>2. [m[table] EXCEPT ![i] = e] \in [Slots -> Entry]
    BY <2>1 DEF Memory
  <2>3. ram2 = [m EXCEPT ![table] = [m[table] EXCEPT ![i] = e]]
    BY <1>3
  <2>4. ram2 \in Memory(D)
    BY <2>1, <2>2, <2>3, Zenon DEF Memory
  <2>5. ram2[table][i] = e
    BY <1>3, <2>1 DEF Memory
  <2>6. \A f \in D, j \in Slots : ram2[f][j] = m[f][j] \/ (f = table /\ j = i)
    BY <1>3, <2>1 DEF Memory
  <2> QED
    BY <2>4, <2>5, <2>6
<1> QED
  BY <1>1, <1>2, <1>4 DEF ram2

(* Pointing an entry anywhere. *)
written(ram, table, i, frame) == [ram EXCEPT ![table][i] = pointedAt(@, frame)]

LEMMA WrittenFacts ==
  ASSUME NEW D, NEW ram \in Memory(D), NEW table \in D, NEW i \in Slots,
         NEW frame \in Nat
  PROVE  LET ram2 == written(ram, table, i, frame)
         IN  /\ ram2 \in Memory(D)
             /\ ram2[table][i].present
             /\ ram2[table][i].address = frame % EntryFrames
             /\ \A f \in D, j \in Slots :
                  ram2[f][j] = ram[f][j] \/ (f = table /\ j = i)
<1> DEFINE ram2 == written(ram, table, i, frame)
           e == pointedAt(ram[table][i], frame)
<1>1. e \in Entry /\ e.present /\ e.address = frame % EntryFrames
  <2>1. ram[table][i] \in Entry
    BY DEF Memory
  <2> QED
    BY <2>1, PointedFacts
<1>2. ram2 = [ram EXCEPT ![table][i] = e]
  BY DEF written
<1> HIDE DEF e, ram2
<1>3. /\ ram2 \in Memory(D)
      /\ ram2[table][i] = e
      /\ \A f \in D, j \in Slots : ram2[f][j] = ram[f][j] \/ (f = table /\ j = i)
  BY <1>1, <1>2 DEF Memory
<1> QED
  BY <1>1, <1>3 DEF ram2

-----------------------------------------------------------------------------
(* What the writes do to the tree.                                          *)

(* Tables that are left alone are the same tree. *)
LEMMA TreeStays ==
  ASSUME NEW ram, NEW ram2, NEW root, NEW taken, Tree(ram, root, taken),
         \A f \in upperTables(ram, root), i \in Slots : ram2[f][i] = ram[f][i]
  PROVE  Tree(ram2, root, taken)
<1>1. upperTables(ram2, root) = upperTables(ram, root)
  BY LevelsStay
<1> QED
  BY <1>1 DEF Tree

(* No walk notices the difference. *)
SameWalks(root, ram, ram2) ==
  \A page \in Nat : translate(ram2, root, page) = translate(ram, root, page)

(* The absent entry i of table, and nothing else but new itself, is changed *)
(* to lead to new, an empty table.                                          *)
Hangs(D, ram, ram2, table, i, new) ==
  /\ ~ram[table][i].present
  /\ ram2[table][i].present
  /\ ram2[table][i].address = new
  /\ \A f \in D \ {new}, j \in Slots :
       ram2[f][j] = ram[f][j] \/ (f = table /\ j = i)
  /\ \A j \in Slots : ~ram2[new][j].present

(* An empty table that hangs nowhere may hang in any absent entry above the *)
(* leaves: the tree grows by it, and no walk notices.                       *)
LEMMA TreeGrows ==
  ASSUME NEW D, NEW taken \in SUBSET D, NEW ram, NEW ram2, NEW root,
         Tree(ram, root, taken),
         NEW table \in upperTables(ram, root), NEW i \in Slots,
         NEW new \in D \ taken, Hangs(D, ram, ram2, table, i, new)
  PROVE  /\ Tree(ram2, root, taken \cup {new})
         /\ KeepsPresent(upperTables(ram, root) \cup PTs(ram, root), ram, ram2)
         /\ SameWalks(root, ram, ram2)
<1> DEFINE U == upperTables(ram, root)
           P == PTs(ram, root)
           U2 == upperTables(ram2, root)
<1>h. /\ ~ram[table][i].present
      /\ ram2[table][i].present
      /\ ram2[table][i].address = new
      /\ \A f \in D \ {new}, j \in Slots :
           ram2[f][j] = ram[f][j] \/ (f = table /\ j = i)
      /\ \A j \in Slots : ~ram2[new][j].present
  BY DEF Hangs
<1>1. U \subseteq taken /\ P \subseteq taken /\ P \cap U = {} /\ root \in U
  BY TreeFacts, LevelFacts
<1>2. /\ root \in taken
      /\ \A f \in U, j \in Slots :
           ram[f][j].present => ram[f][j].address \in taken \ {root}
      /\ \A f, g \in U, j, k \in Slots :
           /\ ram[f][j].present
           /\ ram[g][k].present
           /\ ram[f][j].address = ram[g][k].address
           => f = g /\ j = k
  BY DEF Tree
<1>3. U2 \subseteq U \cup {new}
  <2>1. ASSUME NEW T \in SUBSET U, NEW T2 \in SUBSET (T \cup {new})
        PROVE  below(ram2, T2) \subseteq below(ram, T) \cup {new}
    <3> SUFFICES ASSUME NEW x \in below(ram2, T2), x # new
                 PROVE  x \in below(ram, T)
      OBVIOUS
    <3>1. PICK f \in T2, j \in Slots : ram2[f][j].present /\ ram2[f][j].address = x
      BY BelowFacts
    <3>2. f \in T /\ f \in D \ {new}
      BY <1>1, <1>h, <3>1
    <3>3. ram[f][j].present /\ ram[f][j].address = x
      BY <1>h, <3>1, <3>2
    <3> QED
      BY <3>2, <3>3, BelowFacts
  <2>2. PDPs(ram2, root) \subseteq PDPs(ram, root) \cup {new}
    BY <1>1, <2>1 DEF PDPs
  <2>3. PDs(ram2, root) \subseteq PDs(ram, root) \cup {new}
    BY <2>1, <2>2, LevelFacts DEF PDs
  <2> QED
    BY <2>2, <2>3 DEF upperTables
<1> HIDE DEF U, P, U2
<1>4. \A f \in U \cup P, j \in Slots :
        \/ ram2[f][j] = ram[f][j]
        \/ /\ f = table /\ j = i
           /\ ~ram[f][j].present
           /\ ram2[f][j].address = new
  BY <1>1, <1>h
<1>5. \A f \in U2, j \in Slots :
        ram2[f][j].present =>
          /\ f \in U
          /\ \/ f = table /\ j = i /\ ram2[f][j].address = new
             \/ /\ ram[f][j].present
                /\ ram2[f][j].address = ram[f][j].address
                /\ ram2[f][j].address \in taken \ {root}
  BY <1>2, <1>3, <1>4, <1>h
<1>6. Tree(ram2, root, taken \cup {new})
  <2>1. root # new
    BY <1>2
  <2>2. \A f \in U2, j \in Slots :
          ram2[f][j].present => ram2[f][j].address \in (taken \cup {new}) \ {root}
    BY <1>5, <2>1
  <2>3. ASSUME NEW f \in U2, NEW g \in U2, NEW j \in Slots, NEW k \in Slots,
               ram2[f][j].present, ram2[g][k].present,
               ram2[f][j].address = ram2[g][k].address
        PROVE  f = g /\ j = k
    <3>1. CASE ram2[f][j].address = new
      <4>1. new \notin taken
        OBVIOUS
      <4>2. f = table /\ j = i
        BY <1>5, <2>3, <3>1, <4>1
      <4>3. ram2[g][k].address = new
        BY <2>3, <3>1, Zenon
      <4>4. g = table /\ k = i
        BY <1>5, <2>3, <4>1, <4>3, Zenon
      <4> QED
        BY <4>2, <4>4
    <3>2. CASE ram2[f][j].address # new
      <4>1. f \in U /\ ram[f][j].present /\ ram2[f][j].address = ram[f][j].address
        BY <1>5, <2>3, <3>2
      <4>2. g \in U /\ ram[g][k].present /\ ram2[g][k].address = ram[g][k].address
        BY <1>5, <2>3, <3>2
      <4>3. ram[f][j].address = ram[g][k].address
        BY <2>3, <4>1, <4>2, Zenon
      <4> QED
        BY <1>2, <4>1, <4>2, <4>3
    <3> QED
      BY <1>h, <3>1, <3>2
  <2> QED
    BY <1>2, <2>2, <2>3 DEF Tree, U2
<1>7. KeepsPresent(U \cup P, ram, ram2)
  BY <1>4 DEF KeepsPresent
<1>8. ASSUME NEW page \in Nat
      PROVE  translate(ram2, root, page) = translate(ram, root, page)
  <2>1. \A f \in U \cup P, j \in Slots :
          IF ram[f][j].present
            THEN ram2[f][j] = ram[f][j]
            ELSE \/ ram2[f][j] = ram[f][j]
                 \/ /\ f \notin P
                    /\ \A k \in Slots : ~ram2[ram2[f][j].address][k].present
    <3>1. table \notin P
      BY <1>1 DEF U
    <3> QED
      BY <1>4, <1>h, <3>1
  <2> QED
    BY <2>1, WalkSame DEF U, P
<1> QED
  BY <1>6, <1>7, <1>8 DEF U, P, SameWalks

(* The present entries a walk for a page goes through, down to table t3. *)
Walk(ram, root, page, t1, t2, t3) ==
  LET index == getPageTableIndex(page)
  IN  /\ ram[root][index.PDP_i].present /\ ram[root][index.PDP_i].address = t1
      /\ ram[t1][index.PD_i].present    /\ ram[t1][index.PD_i].address = t2
      /\ ram[t2][index.PT_i].present    /\ ram[t2][index.PT_i].address = t3

(* Where the tables of a walk are. *)
LEMMA WalkLevels ==
  ASSUME NEW ram, NEW root, NEW page \in Nat, NEW t1, NEW t2, NEW t3,
         Walk(ram, root, page, t1, t2, t3)
  PROVE  /\ t1 \in upperTables(ram, root)
         /\ t2 \in upperTables(ram, root)
         /\ t3 \in PTs(ram, root)
<1> DEFINE index == getPageTableIndex(page)
<1>1. index.PDP_i \in Slots /\ index.PD_i \in Slots /\ index.PT_i \in Slots
  BY IndexType
<1>2. /\ ram[root][index.PDP_i].present /\ ram[root][index.PDP_i].address = t1
      /\ ram[t1][index.PD_i].present    /\ ram[t1][index.PD_i].address = t2
      /\ ram[t2][index.PT_i].present    /\ ram[t2][index.PT_i].address = t3
  BY DEF Walk
<1> HIDE DEF index
<1>3. t1 \in PDPs(ram, root)
  BY <1>1, <1>2, LevelFacts
<1>4. t2 \in PDs(ram, root)
  BY <1>1, <1>2, <1>3, LevelFacts
<1>5. t3 \in PTs(ram, root)
  BY <1>1, <1>2, <1>4, LevelFacts
<1> QED
  BY <1>3, <1>4, <1>5, LevelFacts

(* In a tree, walks that end in the same leaf table went the same way. *)
LEMMA WalkUnique ==
  ASSUME NEW ram, NEW root, NEW taken, Tree(ram, root, taken),
         NEW p \in Nat, NEW t1, NEW t2, NEW t3, Walk(ram, root, p, t1, t2, t3),
         NEW q \in Nat, NEW u1, NEW u2, Walk(ram, root, q, u1, u2, t3)
  PROVE  LET i == getPageTableIndex(p)
             j == getPageTableIndex(q)
         IN  i.PDP_i = j.PDP_i /\ i.PD_i = j.PD_i /\ i.PT_i = j.PT_i
<1> DEFINE U == upperTables(ram, root)
           i == getPageTableIndex(p)
           j == getPageTableIndex(q)
<1>1. /\ i.PDP_i \in Slots /\ i.PD_i \in Slots /\ i.PT_i \in Slots
      /\ j.PDP_i \in Slots /\ j.PD_i \in Slots /\ j.PT_i \in Slots
  BY IndexType
<1>2. t1 \in U /\ t2 \in U /\ u1 \in U /\ u2 \in U /\ root \in U
  BY WalkLevels, LevelFacts
<1>3. /\ ram[root][i.PDP_i].present /\ ram[root][i.PDP_i].address = t1
      /\ ram[t1][i.PD_i].present    /\ ram[t1][i.PD_i].address = t2
      /\ ram[t2][i.PT_i].present    /\ ram[t2][i.PT_i].address = t3
  BY DEF Walk
<1>4. /\ ram[root][j.PDP_i].present /\ ram[root][j.PDP_i].address = u1
      /\ ram[u1][j.PD_i].present    /\ ram[u1][j.PD_i].address = u2
      /\ ram[u2][j.PT_i].present    /\ ram[u2][j.PT_i].address = t3
  BY DEF Walk
<1>5. \A f, g \in U, k, l \in Slots :
        /\ ram[f][k].present
        /\ ram[g][l].present
        /\ ram[f][k].address = ram[g][l].address
        => f = g /\ k = l
  BY DEF Tree
<1> HIDE DEF U, i, j
<1>6. t2 = u2 /\ i.PT_i = j.PT_i
  BY <1>1, <1>2, <1>3, <1>4, <1>5
<1>7. t1 = u1 /\ i.PD_i = j.PD_i
  BY <1>1, <1>2, <1>3, <1>4, <1>5, <1>6
<1>8. i.PDP_i = j.PDP_i
  BY <1>1, <1>2, <1>3, <1>4, <1>5, <1>7
<1> QED
  BY <1>6, <1>7, <1>8 DEF i, j

(* A walk that cannot be completed down to a leaf table is a page fault;    *)
(* one that can ends in what the leaf entry says.                           *)
LEMMA WalkEnds ==
  ASSUME NEW ram, NEW root, NEW page \in Nat
  PROVE  \/ /\ \A t1, t2, t3 : ~Walk(ram, root, page, t1, t2, t3)
            /\ translate(ram, root, page) = Unmapped
         \/ \E t1, t2, t3 :
              /\ Walk(ram, root, page, t1, t2, t3)
              /\ LET pte == ram[t3][getPageTableIndex(page).P_i]
                 IN  translate(ram, root, page)
                       = IF pte.present THEN pte.address ELSE Unmapped
<1> DEFINE index == getPageTableIndex(page)
           e1 == ram[root][index.PDP_i]
           e2 == ram[e1.address][index.PD_i]
           e3 == ram[e2.address][index.PT_i]
           e4 == ram[e3.address][index.P_i]
<1>1. translate(ram, root, page)
        = IF e1.present /\ e2.present /\ e3.present /\ e4.present
            THEN e4.address ELSE Unmapped
  BY DEF translate
<1>2. CASE e1.present /\ e2.present /\ e3.present
  <2>1. Walk(ram, root, page, e1.address, e2.address, e3.address)
    BY <1>2 DEF Walk
  <2>2. translate(ram, root, page) = IF e4.present THEN e4.address ELSE Unmapped
    BY <1>1, <1>2
  <2> QED
    BY <2>1, <2>2
<1>3. CASE ~(e1.present /\ e2.present /\ e3.present)
  <2>1. translate(ram, root, page) = Unmapped
    BY <1>1, <1>3
  <2>2. ASSUME NEW t1, NEW t2, NEW t3, Walk(ram, root, page, t1, t2, t3)
        PROVE  FALSE
    BY <1>3, <2>2 DEF Walk
  <2> QED
    BY <2>1, <2>2
<1> QED
  BY <1>2, <1>3

(* A walk can be completed in at most one way. *)
LEMMA WalkOnce ==
  ASSUME NEW ram, NEW root, NEW page \in Nat,
         NEW t1, NEW t2, NEW t3, Walk(ram, root, page, t1, t2, t3)
  PROVE  LET pte == ram[t3][getPageTableIndex(page).P_i]
         IN  translate(ram, root, page) = IF pte.present THEN pte.address ELSE Unmapped
BY DEF Walk, translate

(* Walks down to the leaf tables only depend on the tables above them. *)
LEMMA WalkAgree ==
  ASSUME NEW ram, NEW ram2, NEW root, NEW page \in Nat,
         KeepsPresent(upperTables(ram, root), ram, ram2),
         NEW t1, NEW t2, NEW t3, Walk(ram, root, page, t1, t2, t3)
  PROVE  Walk(ram2, root, page, t1, t2, t3)
<1> DEFINE index == getPageTableIndex(page)
<1>1. index.PDP_i \in Slots /\ index.PD_i \in Slots /\ index.PT_i \in Slots
  BY IndexType
<1>2. /\ ram[root][index.PDP_i].present /\ ram[root][index.PDP_i].address = t1
      /\ ram[t1][index.PD_i].present    /\ ram[t1][index.PD_i].address = t2
      /\ ram[t2][index.PT_i].present    /\ ram[t2][index.PT_i].address = t3
  BY DEF Walk
<1>3. /\ root \in upperTables(ram, root)
      /\ t1 \in upperTables(ram, root)
      /\ t2 \in upperTables(ram, root)
  BY WalkLevels, LevelFacts
<1>4. /\ ram2[root][index.PDP_i] = ram[root][index.PDP_i]
      /\ ram2[t1][index.PD_i] = ram[t1][index.PD_i]
      /\ ram2[t2][index.PT_i] = ram[t2][index.PT_i]
  BY <1>1, <1>2, <1>3 DEF KeepsPresent
<1> QED
  BY <1>2, <1>4 DEF Walk

(* Writing the leaf entry of a page maps this page and no other. *)
LEMMA LeafWritten ==
  ASSUME NEW ram, NEW ram2, NEW root, NEW taken, Tree(ram, root, taken),
         NEW page \in 0..(Fanout * Fanout * Fanout * Fanout - 1),
         NEW t1, NEW t2, NEW t3, Walk(ram, root, page, t1, t2, t3),
         ram2[t3][getPageTableIndex(page).P_i].present,
         \A f \in upperTables(ram, root) \cup PTs(ram, root), j \in Slots :
           \/ ram2[f][j] = ram[f][j]
           \/ f = t3 /\ j = getPageTableIndex(page).P_i
  PROVE  /\ Tree(ram2, root, taken)
         /\ translate(ram2, root, page) = ram2[t3][getPageTableIndex(page).P_i].address
         /\ \A q \in 0..(Fanout * Fanout * Fanout * Fanout - 1) :
              q # page => translate(ram2, root, q) = translate(ram, root, q)
<1> DEFINE U == upperTables(ram, root)
           Last == Fanout * Fanout * Fanout * Fanout - 1
<1>1. \A p \in 0..Last : p \in Nat
  BY FanoutAssumption
<1>2. t3 \in PTs(ram, root) /\ t3 \notin U
  BY <1>1, WalkLevels, TreeFacts
<1>3. \A f \in U, j \in Slots : ram2[f][j] = ram[f][j]
  BY <1>2
<1>4. Tree(ram2, root, taken)
  BY <1>3, TreeStays
<1>5. ASSUME NEW p \in Nat, NEW u1, NEW u2, NEW u3
      PROVE  Walk(ram2, root, p, u1, u2, u3) <=> Walk(ram, root, p, u1, u2, u3)
  <2>1. Walk(ram, root, p, u1, u2, u3) => Walk(ram2, root, p, u1, u2, u3)
    BY <1>3, WalkAgree DEF KeepsPresent
  <2>2. upperTables(ram2, root) = U
    BY <1>3, LevelsStay
  <2>3. \A f \in upperTables(ram2, root), j \in Slots : ram[f][j] = ram2[f][j]
    BY <1>3, <2>2
  <2>4. Walk(ram2, root, p, u1, u2, u3) => Walk(ram, root, p, u1, u2, u3)
    BY <2>3, WalkAgree DEF KeepsPresent
  <2> QED
    BY <2>1, <2>4
<1>6. translate(ram2, root, page) = ram2[t3][getPageTableIndex(page).P_i].address
  <2>1. page \in Nat /\ Walk(ram2, root, page, t1, t2, t3)
    BY <1>1, <1>5
  <2> QED
    BY <2>1, WalkOnce
<1>7. ASSUME NEW q \in 0..Last, q # page
      PROVE  translate(ram2, root, q) = translate(ram, root, q)
  <2>1. q \in Nat /\ page \in Nat
    BY <1>1
  <2>2. CASE \A u1, u2, u3 : ~Walk(ram, root, q, u1, u2, u3)
    <3>1. translate(ram, root, q) = Unmapped
      BY <2>1, <2>2, WalkEnds
    <3>2. translate(ram2, root, q) = Unmapped
      BY <1>5, <2>1, <2>2, WalkEnds
    <3> QED
      BY <3>1, <3>2
  <2>3. ASSUME NEW u1, NEW u2, NEW u3, Walk(ram, root, q, u1, u2, u3)
        PROVE  translate(ram2, root, q) = translate(ram, root, q)
    <3> DEFINE d == getPageTableIndex(q).P_i
    <3>1. Walk(ram2, root, q, u1, u2, u3) /\ d \in Slots /\ u3 \in PTs(ram, root)
      BY <1>5, <2>1, <2>3, WalkLevels, IndexType
    <3>2. ~(u3 = t3 /\ d = getPageTableIndex(page).P_i)
      <4> SUFFICES ASSUME u3 = t3, d = getPageTableIndex(page).P_i
                   PROVE  FALSE
        OBVIOUS
      <4> DEFINE i == getPageTableIndex(page)
                 j == getPageTableIndex(q)
      <4>1. i.PDP_i = j.PDP_i /\ i.PD_i = j.PD_i /\ i.PT_i = j.PT_i
        BY <2>1, <2>3, WalkUnique
      <4>2. i.P_i = j.P_i
        OBVIOUS
      <4>3. i = j
        BY <4>1, <4>2 DEF getPageTableIndex
      <4> QED
        BY <1>7, <4>3, IndexDetermines
    <3>3. ram2[u3][d] = ram[u3][d]
      BY <3>1, <3>2
    <3> HIDE DEF d
    <3> QED
      BY <2>1, <2>3, <3>1, <3>3, WalkOnce DEF d
  <2> QED
    BY <2>2, <2>3
<1> QED
  BY <1>4, <1>6, <1>7

-----------------------------------------------------------------------------
(* One level of mapMemory.                                                  *)

(* The frames the bitmap answers for. *)
Bitmapped(p) == 0..(p.size * 8 - 1)

(* A sane allocator that keeps the null page, of a memory whose every frame *)
(* an entry can name, and what is in that memory.                           *)
Sound(p, ram) ==
  /\ Sane(p)
  /\ p.size * 8 <= EntryFrames
  /\ NULL \in Bitmapped(p)
  /\ NULL \in p.bits
  /\ ram \in Memory(Bitmapped(p))

(* The frames tables are in, when others hold held. *)
Taken(p, held) == (p.bits \cap Bitmapped(p)) \ (held \cup {NULL})

(* requestPage returns a frame of memory, NULL only if none is clear. *)
LEMMA RequestedFacts ==
  ASSUME NEW p, NEW ram, Sound(p, ram)
  PROVE  LET new == requestedPage(p)
             q   == requestPage(p)
         IN  /\ new \in Bitmapped(p)
             /\ new \in 0..(EntryFrames - 1)
             /\ Bitmapped(q) = Bitmapped(p)
             /\ \A ram2 \in Memory(Bitmapped(p)) : Sound(q, ram2)
             /\ \/ new = NULL /\ q.bits = p.bits /\ Bitmapped(p) \subseteq p.bits
                \/ new # NULL /\ new \notin p.bits /\ q.bits = p.bits \cup {new}
<1> DEFINE new == requestedPage(p)
           q   == requestPage(p)
<1>1. /\ Sane(p)
      /\ p.size * 8 <= EntryFrames
      /\ NULL \in Bitmapped(p)
      /\ NULL \in p.bits
      /\ p.size \in Nat
  BY DEF Sound, Sane, Allocators
<1>2. /\ Sane(q) /\ q.size = p.size
      /\ \/ new = NULL /\ Bitmapped(p) \subseteq p.bits /\ q.bits = p.bits
         \/ new \in Bitmapped(p) \ p.bits /\ q.bits = p.bits \cup {new}
  BY <1>1, RequestFacts DEF Bitmapped
<1> HIDE DEF new, q
<1>3. new \in Bitmapped(p)
  BY <1>1, <1>2
<1>4. new \in 0..(EntryFrames - 1)
  BY <1>1, <1>3, EntryFramesAssumption DEF Bitmapped
<1>5. Bitmapped(q) = Bitmapped(p)
  BY <1>2 DEF Bitmapped
<1>6. NULL \in q.bits
  BY <1>1, <1>2
<1>7. ASSUME NEW ram2 \in Memory(Bitmapped(p))
      PROVE  Sound(q, ram2)
  BY <1>1, <1>2, <1>5, <1>6, <1>7 DEF Sound
<1>8. \/ new = NULL /\ q.bits = p.bits /\ Bitmapped(p) \subseteq p.bits
      \/ new # NULL /\ new \notin p.bits /\ q.bits = p.bits \cup {new}
  BY <1>1, <1>2
<1> QED
  BY <1>3, <1>4, <1>5, <1>7, <1>8 DEF new, q

(* Where a walk of mapMemory stands. *)
At(p, ram, table, refused) ==
  [pf |-> p, ram |-> ram, table |-> table, refused |-> refused]

(* A level whose table is absent. *)
LEMMA DescendAbsent ==
  ASSUME NEW p, NEW ram, NEW table, NEW refused, NEW i, ~ram[table][i].present
  PROVE  descend(At(p, ram, table, refused), i)
           = At(requestPage(p), hung(ram, table, i, requestedPage(p)),
                requestedPage(p), refused \/ requestedPage(p) = NULL)
BY DEF descend, At, hung

(* A walk that was refused a table: no frame is clear, it stands in frame   *)
(* 0, and whatever was written there leads back to frame 0.                 *)
Lost(p, ram) ==
  /\ Sound(p, ram)
  /\ Bitmapped(p) \subseteq p.bits
  /\ \A i \in Slots : ram[NULL][i].address = NULL

(* As long as none is refused, a level of mapMemory finds or makes the next *)
(* table, keeps the tree and shows in no walk.                              *)
Descended(p, ram, root, held, table, i, p2, ram2, table2) ==
  /\ Sound(p2, ram2)
  /\ p.bits \subseteq p2.bits
  /\ Tree(ram2, root, Taken(p2, held))
  /\ ram2[table][i].present
  /\ ram2[table][i].address = table2
  /\ KeepsPresent(upperTables(ram, root) \cup PTs(ram, root), ram, ram2)
  /\ SameWalks(root, ram, ram2)

(* The request refused first changes one absent entry and frame 0. *)
FellOff(p, ram, p2, ram2) ==
  /\ Lost(p2, ram2)
  /\ KeepsPresent(Bitmapped(p) \ {NULL}, ram, ram2)

LEMMA DescendKeeps ==
  ASSUME NEW p, NEW ram, Sound(p, ram), NEW held \in SUBSET p.bits,
         NEW root, Tree(ram, root, Taken(p, held)),
         NEW table \in upperTables(ram, root), NEW i \in Slots
  PROVE  LET s == descend(At(p, ram, table, FALSE), i)
         IN  /\ Bitmapped(s.pf) = Bitmapped(p)
             /\ \/ /\ s = At(s.pf, s.ram, s.table, FALSE)
                   /\ Descended(p, ram, root, held, table, i, s.pf, s.ram, s.table)
                \/ /\ s = At(s.pf, s.ram, NULL, TRUE)
                   /\ FellOff(p, ram, s.pf, s.ram)
<1> DEFINE D == Bitmapped(p)
           taken == Taken(p, held)
           U == upperTables(ram, root)
           P == PTs(ram, root)
           new == requestedPage(p)
           q == requestPage(p)
           ram2 == hung(ram, table, i, new)
           s == descend(At(p, ram, table, FALSE), i)
<1>1. taken \in SUBSET (D \ {NULL}) /\ taken \in SUBSET p.bits
  BY DEF Taken
<1>2. U \subseteq taken /\ P \subseteq taken /\ table \in D \ {NULL}
  BY <1>1, TreeFacts
<1>3. ram \in Memory(D)
  BY DEF Sound
<1>4. CASE ram[table][i].present
  <2>1. s = At(p, ram, ram[table][i].address, FALSE)
    BY <1>4 DEF descend, At
  <2> HIDE DEF s
  <2>2. s.pf = p /\ s.ram = ram /\ s.table = ram[table][i].address
    BY <2>1 DEF At
  <2>3. Descended(p, ram, root, held, table, i, p, ram, ram[table][i].address)
    BY <1>4 DEF Descended, KeepsPresent, SameWalks
  <2> QED
    BY <2>1, <2>2, <2>3 DEF s
<1>5. CASE ~ram[table][i].present
  <2>1. s = At(q, ram2, new, new = NULL)
    <3>1. s = At(q, ram2, new, FALSE \/ new = NULL)
      BY <1>5, DescendAbsent
    <3>2. (FALSE \/ new = NULL) = (new = NULL)
      OBVIOUS
    <3> QED
      BY <3>1, <3>2
  <2> HIDE DEF s
  <2>2. /\ new \in D
        /\ new \in 0..(EntryFrames - 1)
        /\ Bitmapped(q) = D
        /\ \A r \in Memory(D) : Sound(q, r)
        /\ \/ new = NULL /\ q.bits = p.bits /\ D \subseteq p.bits
           \/ new # NULL /\ new \notin p.bits /\ q.bits = p.bits \cup {new}
    BY RequestedFacts
  <2> HIDE DEF D, taken, new, q, U, P
  <2>3. /\ ram2 \in Memory(D)
        /\ ram2[table][i].present
        /\ ram2[table][i].address = new
        /\ \A f \in D \ {new}, j \in Slots :
             ram2[f][j] = ram[f][j] \/ (f = table /\ j = i)
        /\ \A j \in Slots : ram2[new][j] = ZeroEntry \/ (new = table /\ j = i)
    BY <1>2, <1>3, <2>2, HungFacts
  <2> HIDE DEF ram2
  <2>4. CASE new = NULL
    <3>1. Lost(q, ram2)
      <4>1. \A j \in Slots : ram2[NULL][j].address = NULL
        BY <1>2, <2>3, <2>4 DEF ZeroEntry, NULL
      <4> QED
        BY <2>2, <2>3, <2>4, <4>1 DEF Lost
    <3>2. KeepsPresent(D \ {NULL}, ram, ram2)
      BY <1>5, <2>3, <2>4 DEF KeepsPresent
    <3>3. FellOff(p, ram, q, ram2)
      BY <3>1, <3>2 DEF FellOff, D
    <3>4. s = At(q, ram2, NULL, TRUE)
      BY <2>1, <2>4
    <3>5. s.pf = q /\ s.ram = ram2
      BY <3>4 DEF At
    <3> QED
      BY <2>2, <3>3, <3>4, <3>5 DEF s, D
  <2>5. CASE new # NULL
    <3>1. /\ new \in D \ taken
          /\ new \notin U \cup P
          /\ q.bits = p.bits \cup {new}
      BY <1>1, <1>2, <2>2, <2>5
    <3>2. \A j \in Slots : ~ram2[new][j].present
      <4>1. new # table
        BY <3>1 DEF U
      <4> QED
        BY <2>3, <4>1 DEF ZeroEntry
    <3>3. /\ Tree(ram2, root, taken \cup {new})
          /\ KeepsPresent(U \cup P, ram, ram2)
          /\ SameWalks(root, ram, ram2)
      <4>1. taken \in SUBSET D /\ Tree(ram, root, taken)
        BY <1>1 DEF taken
      <4>2. new \in D \ taken
        BY <3>1
      <4>3. Hangs(D, ram, ram2, table, i, new)
        BY <1>5, <2>3, <3>2 DEF Hangs
      <4> QED
        BY <4>1, <4>2, <4>3, TreeGrows DEF U, P
    <3>4. Taken(q, held) = taken \cup {new}
      <4>1. new \notin held
        BY <2>2, <2>5
      <4>2. Taken(q, held) = (q.bits \cap D) \ (held \cup {NULL})
        BY <2>2 DEF Taken
      <4>3. taken = (p.bits \cap D) \ (held \cup {NULL})
        BY DEF taken, Taken, D
      <4> QED
        BY <2>2, <2>5, <3>1, <4>1, <4>2, <4>3
    <3>5. Sound(q, ram2) /\ p.bits \subseteq q.bits
      BY <2>2, <2>3, <3>1
    <3>6. Descended(p, ram, root, held, table, i, q, ram2, new)
      BY <2>3, <3>3, <3>4, <3>5 DEF Descended, U, P
    <3>7. s = At(q, ram2, new, FALSE)
      BY <2>1, <2>5
    <3>8. s.pf = q /\ s.ram = ram2 /\ s.table = new
      BY <3>7 DEF At
    <3> QED
      BY <2>2, <3>6, <3>7, <3>8 DEF s, D
  <2> QED
    BY <2>4, <2>5
<1> QED
  BY <1>4, <1>5

(* After a refusal every level is refused, or finds the entry a level above *)
(* it has just written; only frame 0 changes.                               *)
LEMMA DescendLost ==
  ASSUME NEW p, NEW ram, Lost(p, ram), NEW i \in Slots
  PROVE  LET s == descend(At(p, ram, NULL, TRUE), i)
         IN  /\ s = At(s.pf, s.ram, NULL, TRUE)
             /\ Bitmapped(s.pf) = Bitmapped(p)
             /\ Lost(s.pf, s.ram)
             /\ KeepsPresent(Bitmapped(p) \ {NULL}, ram, s.ram)
<1> DEFINE D == Bitmapped(p)
           new == requestedPage(p)
           q == requestPage(p)
           ram2 == hung(ram, NULL, i, new)
           s == descend(At(p, ram, NULL, TRUE), i)
<1>1. /\ Sound(p, ram) /\ D \subseteq p.bits
      /\ \A j \in Slots : ram[NULL][j].address = NULL
      /\ NULL \in D
      /\ ram \in Memory(D)
  BY DEF Lost, Sound
<1>2. CASE ram[NULL][i].present
  <2>1. s = At(p, ram, ram[NULL][i].address, TRUE)
    BY <1>2 DEF descend, At
  <2> HIDE DEF s
  <2>2. s = At(p, ram, NULL, TRUE)
    BY <1>1, <2>1
  <2>3. s.pf = p /\ s.ram = ram
    BY <2>2 DEF At
  <2>4. KeepsPresent(D \ {NULL}, ram, ram)
    BY DEF KeepsPresent
  <2> QED
    BY <1>1, <2>2, <2>3, <2>4 DEF s
<1>3. CASE ~ram[NULL][i].present
  <2>1. s = At(q, ram2, new, TRUE)
    <3>1. s = At(q, ram2, new, TRUE \/ new = NULL)
      BY <1>3, DescendAbsent
    <3>2. (TRUE \/ new = NULL) = TRUE
      OBVIOUS
    <3> QED
      BY <3>1, <3>2
  <2> HIDE DEF s
  <2>2. /\ new \in D
        /\ new \in 0..(EntryFrames - 1)
        /\ Bitmapped(q) = D
        /\ \A r \in Memory(D) : Sound(q, r)
        /\ \/ new = NULL /\ q.bits = p.bits /\ D \subseteq p.bits
           \/ new # NULL /\ new \notin p.bits /\ q.bits = p.bits \cup {new}
    BY <1>1, RequestedFacts
  <2> HIDE DEF D, new, q
  <2>3. new = NULL /\ D \subseteq q.bits
    BY <1>1, <2>2
  <2>4. /\ ram2 \in Memory(D)
        /\ ram2[NULL][i].address = new
        /\ \A f \in D \ {new}, j \in Slots :
             ram2[f][j] = ram[f][j] \/ (f = NULL /\ j = i)
        /\ \A j \in Slots : ram2[new][j] = ZeroEntry \/ (new = NULL /\ j = i)
    BY <1>1, <2>2, HungFacts
  <2> HIDE DEF ram2
  <2>5. Lost(q, ram2)
    <3>1. \A j \in Slots : ram2[NULL][j].address = NULL
      BY <2>3, <2>4 DEF ZeroEntry, NULL
    <3> QED
      BY <2>2, <2>3, <2>4, <3>1 DEF Lost
  <2>6. KeepsPresent(D \ {NULL}, ram, ram2)
    BY <2>3, <2>4 DEF KeepsPresent
  <2>7. s = At(q, ram2, NULL, TRUE)
    BY <2>1, <2>3
  <2>8. s.pf = q /\ s.ram = ram2
    BY <2>7 DEF At
  <2> QED
    BY <2>2, <2>5, <2>6, <2>7, <2>8 DEF D, s
<1> QED
  BY <1>2, <1>3

-----------------------------------------------------------------------------
(* All of mapMemory.                                                        *)

(* Changes add up. *)
LEMMA KeepsChain ==
  ASSUME NEW F, NEW G, NEW a, NEW b, NEW c, F \subseteq G,
         KeepsPresent(F, a, b), KeepsPresent(G, b, c)
  PROVE  KeepsPresent(F, a, c)
<1> SUFFICES ASSUME NEW f \in F, NEW i \in Slots, a[f][i].present
             PROVE  c[f][i] = a[f][i]
  BY DEF KeepsPresent
<1>1. b[f][i] = a[f][i]
  BY DEF KeepsPresent
<1>2. c[f][i] = b[f][i]
  BY <1>1 DEF KeepsPresent
<1> QED
  BY <1>1, <1>2

(* The leaf entry, when it is written in frame 0. *)
LEMMA LostToTheEnd ==
  ASSUME NEW p, NEW ram, Lost(p, ram), NEW i \in Slots, NEW frame \in Nat
  PROVE  KeepsPresent(Bitmapped(p) \ {NULL}, ram, written(ram, NULL, i, frame))
<1> DEFINE ram2 == written(ram, NULL, i, frame)
<1>1. ram \in Memory(Bitmapped(p)) /\ NULL \in Bitmapped(p)
  BY DEF Lost, Sound
<1>2. \A f \in Bitmapped(p) \ {NULL} : ram2[f] = ram[f]
  BY <1>1 DEF Memory, written
<1> QED
  BY <1>2 DEF KeepsPresent

(* What mapMemory has achieved when it has come to memory ram1 unrefused. *)
Progress(p, ram, root, held, p1, ram1) ==
  /\ Bitmapped(p1) = Bitmapped(p)
  /\ Sound(p1, ram1)
  /\ p.bits \subseteq p1.bits
  /\ Tree(ram1, root, Taken(p1, held))
  /\ KeepsPresent(upperTables(ram, root) \cup PTs(ram, root), ram, ram1)
  /\ SameWalks(root, ram, ram1)

(* It has been refused a table, and the entries of F that were present are  *)
(* as they were.                                                            *)
Adrift(D, F, ram, s) ==
  /\ s = At(s.pf, s.ram, NULL, TRUE)
  /\ Bitmapped(s.pf) = D
  /\ Lost(s.pf, s.ram)
  /\ KeepsPresent(F, ram, s.ram)

(* A level, taken by a walk that has not been refused so far. *)
LEMMA NextLevel ==
  ASSUME NEW p, NEW ram, NEW root, NEW held \in SUBSET p.bits,
         Tree(ram, root, Taken(p, held)),
         NEW p1, NEW ram1, Progress(p, ram, root, held, p1, ram1),
         NEW table \in upperTables(ram1, root), NEW i \in Slots
  PROVE  LET s == descend(At(p1, ram1, table, FALSE), i)
             F == upperTables(ram, root) \cup PTs(ram, root)
         IN  \/ /\ s = At(s.pf, s.ram, s.table, FALSE)
                /\ Progress(p, ram, root, held, s.pf, s.ram)
                /\ s.ram[table][i].present
                /\ s.ram[table][i].address = s.table
                /\ KeepsPresent(upperTables(ram1, root), ram1, s.ram)
             \/ Adrift(Bitmapped(p), F, ram, s)
<1> DEFINE s == descend(At(p1, ram1, table, FALSE), i)
           F == upperTables(ram, root) \cup PTs(ram, root)
           G == upperTables(ram1, root) \cup PTs(ram1, root)
<1>1. /\ Bitmapped(p1) = Bitmapped(p)
      /\ Sound(p1, ram1)
      /\ p.bits \subseteq p1.bits
      /\ Tree(ram1, root, Taken(p1, held))
      /\ KeepsPresent(F, ram, ram1)
      /\ SameWalks(root, ram, ram1)
  BY DEF Progress
<1>2. held \in SUBSET p1.bits
  BY <1>1
<1>3. /\ Bitmapped(s.pf) = Bitmapped(p1)
      /\ \/ /\ s = At(s.pf, s.ram, s.table, FALSE)
            /\ Descended(p1, ram1, root, held, table, i, s.pf, s.ram, s.table)
         \/ /\ s = At(s.pf, s.ram, NULL, TRUE)
            /\ FellOff(p1, ram1, s.pf, s.ram)
  BY <1>1, <1>2, DescendKeeps
<1> HIDE DEF s
<1>4. CASE /\ s = At(s.pf, s.ram, s.table, FALSE)
           /\ Descended(p1, ram1, root, held, table, i, s.pf, s.ram, s.table)
  <2>1. /\ Sound(s.pf, s.ram)
        /\ p1.bits \subseteq s.pf.bits
        /\ Tree(s.ram, root, Taken(s.pf, held))
        /\ s.ram[table][i].present
        /\ s.ram[table][i].address = s.table
        /\ KeepsPresent(G, ram1, s.ram)
        /\ SameWalks(root, ram1, s.ram)
    BY <1>4 DEF Descended
  <2>2. F \subseteq G
    <3>1. KeepsPresent(upperTables(ram, root), ram, ram1)
      BY <1>1 DEF KeepsPresent
    <3> QED
      BY <3>1, LevelsGrow
  <2>3. KeepsPresent(F, ram, s.ram)
    BY <1>1, <2>1, <2>2, KeepsChain
  <2>4. SameWalks(root, ram, s.ram)
    BY <1>1, <2>1 DEF SameWalks
  <2>5. KeepsPresent(upperTables(ram1, root), ram1, s.ram)
    BY <2>1 DEF KeepsPresent
  <2>6. p.bits \subseteq s.pf.bits
    BY <1>1, <2>1
  <2>7. Progress(p, ram, root, held, s.pf, s.ram)
    BY <1>1, <1>3, <2>1, <2>3, <2>4, <2>6 DEF Progress
  <2> QED
    BY <1>4, <2>1, <2>5, <2>7 DEF s
<1>5. CASE /\ s = At(s.pf, s.ram, NULL, TRUE)
           /\ FellOff(p1, ram1, s.pf, s.ram)
  <2>1. F \subseteq Bitmapped(p1) \ {NULL}
    BY <1>1, TreeFacts DEF Taken
  <2>2. Lost(s.pf, s.ram) /\ KeepsPresent(Bitmapped(p1) \ {NULL}, ram1, s.ram)
    BY <1>5 DEF FellOff
  <2>3. KeepsPresent(F, ram, s.ram)
    BY <1>1, <2>1, <2>2, KeepsChain
  <2>4. Adrift(Bitmapped(p), F, ram, s)
    BY <1>1, <1>3, <1>5, <2>2, <2>3 DEF Adrift
  <2> QED
    BY <2>4 DEF s
<1> QED
  BY <1>3, <1>4, <1>5

(* A level, taken by a walk that has been refused a table. *)
LEMMA NextLevelAdrift ==
  ASSUME NEW D, NEW F, F \subseteq D \ {NULL},
         NEW ram, NEW s, Adrift(D, F, ram, s), NEW i \in Slots
  PROVE  Adrift(D, F, ram, descend(s, i))
<1> DEFINE q == descend(s, i)
<1>1. /\ s = At(s.pf, s.ram, NULL, TRUE)
      /\ Bitmapped(s.pf) = D
      /\ Lost(s.pf, s.ram)
      /\ KeepsPresent(F, ram, s.ram)
  BY DEF Adrift
<1>2. q = descend(At(s.pf, s.ram, NULL, TRUE), i)
  BY <1>1
<1>3. /\ q = At(q.pf, q.ram, NULL, TRUE)
      /\ Bitmapped(q.pf) = Bitmapped(s.pf)
      /\ Lost(q.pf, q.ram)
      /\ KeepsPresent(Bitmapped(s.pf) \ {NULL}, s.ram, q.ram)
  <2>1. LET r == descend(At(s.pf, s.ram, NULL, TRUE), i)
        IN  /\ r = At(r.pf, r.ram, NULL, TRUE)
            /\ Bitmapped(r.pf) = Bitmapped(s.pf)
            /\ Lost(r.pf, r.ram)
            /\ KeepsPresent(Bitmapped(s.pf) \ {NULL}, s.ram, r.ram)
    BY <1>1, DescendLost
  <2> HIDE DEF q
  <2> QED
    BY <1>2, <2>1
<1> HIDE DEF q
<1>4. KeepsPresent(D \ {NULL}, s.ram, q.ram)
  BY <1>1, <1>3
<1>5. KeepsPresent(F, ram, q.ram)
  BY <1>1, <1>4, KeepsChain
<1> QED
  BY <1>1, <1>3, <1>5 DEF Adrift, q

(* mapMemory keeps the tree.  If it is refused no table, the page it is     *)
(* given leads to the frame it is given and all other pages lead where they *)
(* led; if it is, no present entry of any table has changed.                *)
Mapped(p, ram, root, held, page, frame, p2, ram2) ==
  /\ Bitmapped(p2) = Bitmapped(p)
  /\ Sound(p2, ram2)
  /\ p.bits \subseteq p2.bits
  /\ Tree(ram2, root, Taken(p2, held))
  /\ translate(ram2, root, page) = frame % EntryFrames
  /\ \A q \in 0..(Fanout * Fanout * Fanout * Fanout - 1) :
       q # page => translate(ram2, root, q) = translate(ram, root, q)

(* The leaf entry, when it is written in the leaf table of the page. *)
LEMMA LeafKeeps ==
  ASSUME NEW p, NEW ram, NEW root, NEW held \in SUBSET p.bits,
         Tree(ram, root, Taken(p, held)),
         NEW page \in 0..(Fanout * Fanout * Fanout * Fanout - 1), NEW frame \in Nat,
         NEW p1, NEW ram1, Progress(p, ram, root, held, p1, ram1),
         NEW t1, NEW t2, NEW t3, Walk(ram1, root, page, t1, t2, t3)
  PROVE  Mapped(p, ram, root, held, page, frame, p1,
                written(ram1, t3, getPageTableIndex(page).P_i, frame))
<1> DEFINE D == Bitmapped(p1)
           d == getPageTableIndex(page).P_i
           ram2 == written(ram1, t3, d, frame)
           taken == Taken(p1, held)
<1>1. /\ Bitmapped(p1) = Bitmapped(p)
      /\ Sound(p1, ram1)
      /\ p.bits \subseteq p1.bits
      /\ Tree(ram1, root, taken)
      /\ SameWalks(root, ram, ram1)
  BY DEF Progress
<1>2. page \in Nat /\ d \in Slots
  <2>1. page \in Nat
    BY FanoutAssumption
  <2> QED
    BY <2>1, IndexType
<1>3. t3 \in D
  <2>1. t3 \in PTs(ram1, root)
    BY <1>2, WalkLevels
  <2>2. t3 \in taken
    BY <1>1, <2>1, TreeFacts
  <2> QED
    BY <2>2 DEF Taken
<1>4. ram1 \in Memory(D)
  BY <1>1 DEF Sound
<1> HIDE DEF D, d
<1>5. /\ ram2 \in Memory(D)
      /\ ram2[t3][d].present
      /\ ram2[t3][d].address = frame % EntryFrames
      /\ \A f \in D, j \in Slots : ram2[f][j] = ram1[f][j] \/ (f = t3 /\ j = d)
  BY <1>2, <1>3, <1>4, WrittenFacts
<1> HIDE DEF ram2
<1>6. upperTables(ram1, root) \cup PTs(ram1, root) \subseteq D
  BY <1>1, TreeFacts DEF Taken, D
<1>7. \A f \in upperTables(ram1, root) \cup PTs(ram1, root), j \in Slots :
        ram2[f][j] = ram1[f][j] \/ (f = t3 /\ j = d)
  BY <1>5, <1>6
<1>8. /\ Tree(ram2, root, taken)
      /\ translate(ram2, root, page) = ram2[t3][d].address
      /\ \A q \in 0..(Fanout * Fanout * Fanout * Fanout - 1) :
           q # page => translate(ram2, root, q) = translate(ram1, root, q)
  BY <1>1, <1>5, <1>7, LeafWritten DEF d
<1>9. Sound(p1, ram2)
  BY <1>1, <1>5 DEF Sound, D
<1>10. \A q \in 0..(Fanout * Fanout * Fanout * Fanout - 1) :
         q # page => translate(ram2, root, q) = translate(ram, root, q)
  <2> DEFINE Last == Fanout * Fanout * Fanout * Fanout - 1
  <2>1. \A q \in 0..Last : q \in Nat
    BY FanoutAssumption
  <2>2. \A q \in 0..Last : translate(ram1, root, q) = translate(ram, root, q)
    BY <1>1, <2>1 DEF SameWalks
  <2> HIDE DEF Last
  <2>3. \A q \in 0..Last : q # page => translate(ram2, root, q) = translate(ram1, root, q)
    BY <1>8 DEF Last
  <2> QED
    BY <2>2, <2>3 DEF Last
<1>11. Mapped(p, ram, root, held, page, frame, p1, ram2)
  BY <1>1, <1>5, <1>8, <1>9, <1>10 DEF Mapped
<1> QED
  BY <1>11 DEF ram2, d

(* mapMemory is three levels and a leaf entry. *)
threeLevels(p, ram, root, page) ==
  LET index == getPageTableIndex(page)
  IN  descend(descend(descend(At(p, ram, root, FALSE), index.PDP_i),
                      index.PD_i), index.PT_i)

LEMMA MapMemoryEnds ==
  ASSUME NEW p, NEW ram, NEW root, NEW page, NEW frame,
         NEW p3, NEW ram3, NEW t3, NEW lost,
         threeLevels(p, ram, root, page) = At(p3, ram3, t3, lost)
  PROVE  mapMemory(p, ram, root, page, frame)
           = At(p3, written(ram3, t3, getPageTableIndex(page).P_i, frame), t3, lost)
<1> DEFINE d == getPageTableIndex(page).P_i
           s3 == threeLevels(p, ram, root, page)
           s == mapMemory(p, ram, root, page, frame)
<1>1. s = [s3 EXCEPT !.ram = [s3.ram EXCEPT ![s3.table][d] = pointedAt(@, frame)]]
  BY DEF mapMemory, At, threeLevels
<1>2. s3 = At(p3, ram3, t3, lost)
  OBVIOUS
<1> HIDE DEF d, s3, s
<1>3. s3.ram = ram3 /\ s3.table = t3
  BY <1>2 DEF At
<1>4. s = [s3 EXCEPT !.ram = written(ram3, t3, d, frame)]
  BY <1>1, <1>3 DEF written
<1>5. ASSUME NEW w
      PROVE  [At(p3, ram3, t3, lost) EXCEPT !.ram = w] = At(p3, w, t3, lost)
  BY DEF At
<1>6. s = At(p3, written(ram3, t3, d, frame), t3, lost)
  BY <1>2, <1>4, <1>5
<1> QED
  BY <1>6 DEF s, d

LEMMA MapMemoryKeeps ==
  ASSUME NEW p, NEW ram, Sound(p, ram), NEW held \in SUBSET p.bits,
         NEW root, Tree(ram, root, Taken(p, held)),
         NEW page \in 0..(Fanout * Fanout * Fanout * Fanout - 1), NEW frame \in Nat
  PROVE  LET s == mapMemory(p, ram, root, page, frame)
         IN  \/ /\ s.refused = FALSE
                /\ Mapped(p, ram, root, held, page, frame, s.pf, s.ram)
             \/ /\ s.refused = TRUE
                /\ KeepsPresent(upperTables(ram, root) \cup PTs(ram, root), ram, s.ram)
<1> DEFINE D == Bitmapped(p)
           F == upperTables(ram, root) \cup PTs(ram, root)
           index == getPageTableIndex(page)
           a == index.PDP_i
           b == index.PD_i
           c == index.PT_i
           d == index.P_i
           s1 == descend(At(p, ram, root, FALSE), a)
           s2 == descend(s1, b)
           s3 == descend(s2, c)
           s == mapMemory(p, ram, root, page, frame)
<1>1. page \in Nat /\ a \in Slots /\ b \in Slots /\ c \in Slots /\ d \in Slots
  <2>1. page \in Nat
    BY FanoutAssumption
  <2> QED
    BY <2>1, IndexType
<1>2. F \subseteq D \ {NULL}
  BY TreeFacts DEF Taken
<1>3. Progress(p, ram, root, held, p, ram) /\ root \in upperTables(ram, root)
  BY LevelFacts DEF Progress, KeepsPresent, SameWalks
<1>4. ASSUME NEW p3, NEW ram3, NEW t3, NEW refused, s3 = At(p3, ram3, t3, refused)
      PROVE  s = At(p3, written(ram3, t3, d, frame), t3, refused)
  <2>1. threeLevels(p, ram, root, page) = At(p3, ram3, t3, refused)
    BY <1>4 DEF threeLevels
  <2> HIDE DEF s3, s
  <2> QED
    BY <2>1, MapMemoryEnds DEF s
<1> HIDE DEF D, index, s1, s2, s3, s
<1>5. \/ /\ s1 = At(s1.pf, s1.ram, s1.table, FALSE)
         /\ Progress(p, ram, root, held, s1.pf, s1.ram)
         /\ s1.ram[root][a].present
         /\ s1.ram[root][a].address = s1.table
      \/ Adrift(D, F, ram, s1)
  BY <1>1, <1>3, NextLevel DEF s1, D
<1>6. ASSUME NEW r, Adrift(D, F, ram, r), NEW i \in Slots
      PROVE  Adrift(D, F, ram, descend(r, i))
  BY <1>2, <1>6, NextLevelAdrift
<1>7. CASE Adrift(D, F, ram, s3)
  <2>1. s3 = At(s3.pf, s3.ram, NULL, TRUE) /\ Bitmapped(s3.pf) = D
    BY <1>7 DEF Adrift
  <2>2. Lost(s3.pf, s3.ram) /\ KeepsPresent(F, ram, s3.ram)
    BY <1>7 DEF Adrift
  <2> DEFINE ram2 == written(s3.ram, NULL, d, frame)
  <2>3. s = At(s3.pf, ram2, NULL, TRUE)
    BY <1>4, <2>1
  <2>4. KeepsPresent(D \ {NULL}, s3.ram, ram2)
    BY <1>1, <2>1, <2>2, LostToTheEnd
  <2> HIDE DEF ram2
  <2>5. KeepsPresent(F, ram, ram2)
    BY <1>2, <2>2, <2>4, KeepsChain
  <2>6. s.refused = TRUE /\ s.ram = ram2
    BY <2>3 DEF At
  <2> QED
    BY <2>5, <2>6 DEF s
<1>8. CASE /\ s1 = At(s1.pf, s1.ram, s1.table, FALSE)
           /\ Progress(p, ram, root, held, s1.pf, s1.ram)
           /\ s1.ram[root][a].present
           /\ s1.ram[root][a].address = s1.table
  <2>1. /\ s1.table \in PDPs(s1.ram, root)
        /\ s1.table \in upperTables(s1.ram, root)
    BY <1>1, <1>8, LevelFacts
  <2>2. s2 = descend(At(s1.pf, s1.ram, s1.table, FALSE), b)
    BY <1>8 DEF s2
  <2>3. \/ /\ s2 = At(s2.pf, s2.ram, s2.table, FALSE)
           /\ Progress(p, ram, root, held, s2.pf, s2.ram)
           /\ s2.ram[s1.table][b].present
           /\ s2.ram[s1.table][b].address = s2.table
           /\ KeepsPresent(upperTables(s1.ram, root), s1.ram, s2.ram)
        \/ Adrift(D, F, ram, s2)
    BY <1>1, <1>8, <2>1, <2>2, NextLevel DEF D
  <2>4. CASE /\ s2 = At(s2.pf, s2.ram, s2.table, FALSE)
             /\ Progress(p, ram, root, held, s2.pf, s2.ram)
             /\ s2.ram[s1.table][b].present
             /\ s2.ram[s1.table][b].address = s2.table
             /\ KeepsPresent(upperTables(s1.ram, root), s1.ram, s2.ram)
    <3>1. s1.table \in PDPs(s2.ram, root)
      BY <2>1, <2>4, LevelsGrow
    <3>2. /\ s2.table \in PDs(s2.ram, root)
          /\ s2.table \in upperTables(s2.ram, root)
      BY <1>1, <2>4, <3>1, LevelFacts
    <3>3. s3 = descend(At(s2.pf, s2.ram, s2.table, FALSE), c)
      BY <2>4 DEF s3
    <3>4. \/ /\ s3 = At(s3.pf, s3.ram, s3.table, FALSE)
             /\ Progress(p, ram, root, held, s3.pf, s3.ram)
             /\ s3.ram[s2.table][c].present
             /\ s3.ram[s2.table][c].address = s3.table
             /\ KeepsPresent(upperTables(s2.ram, root), s2.ram, s3.ram)
          \/ Adrift(D, F, ram, s3)
      BY <1>1, <2>4, <3>2, <3>3, NextLevel DEF D
    <3>5. CASE /\ s3 = At(s3.pf, s3.ram, s3.table, FALSE)
               /\ Progress(p, ram, root, held, s3.pf, s3.ram)
               /\ s3.ram[s2.table][c].present
               /\ s3.ram[s2.table][c].address = s3.table
               /\ KeepsPresent(upperTables(s2.ram, root), s2.ram, s3.ram)
      <4>1. root \in upperTables(s1.ram, root) /\ root \in upperTables(s2.ram, root)
        BY LevelFacts
      <4>2. s2.ram[root][a] = s1.ram[root][a]
        BY <1>1, <1>8, <2>4, <4>1 DEF KeepsPresent
      <4>3. s3.ram[root][a] = s2.ram[root][a]
        BY <1>1, <1>8, <3>5, <4>1, <4>2 DEF KeepsPresent
      <4>4. s3.ram[s1.table][b] = s2.ram[s1.table][b]
        BY <1>1, <2>4, <3>1, <3>5, LevelFacts DEF KeepsPresent
      <4>5. Walk(s3.ram, root, page, s1.table, s2.table, s3.table)
        BY <1>8, <2>4, <3>5, <4>2, <4>3, <4>4 DEF Walk, index
      <4> DEFINE ram2 == written(s3.ram, s3.table, d, frame)
      <4>6. Mapped(p, ram, root, held, page, frame, s3.pf, ram2)
        BY <3>5, <4>5, LeafKeeps DEF index
      <4>7. s = At(s3.pf, ram2, s3.table, FALSE)
        BY <1>4, <3>5
      <4> HIDE DEF ram2
      <4>8. s.pf = s3.pf /\ s.ram = ram2 /\ s.refused = FALSE
        BY <4>7 DEF At
      <4> QED
        BY <4>6, <4>8 DEF s
    <3> QED
      BY <1>7, <3>4, <3>5
  <2>5. CASE Adrift(D, F, ram, s2)
    <3>1. Adrift(D, F, ram, s3)
      BY <1>1, <1>6, <2>5 DEF s3
    <3> QED
      BY <1>7, <3>1
  <2> QED
    BY <2>3, <2>4, <2>5
<1>9. CASE Adrift(D, F, ram, s1)
  <2>1. Adrift(D, F, ram, s2)
    BY <1>1, <1>6, <1>9 DEF s2
  <2>2. Adrift(D, F, ram, s3)
    BY <1>1, <1>6, <2>1 DEF s3
  <2> QED
    BY <1>7, <2>2
<1> QED
  BY <1>5, <1>8, <1>9
=============================================================================
