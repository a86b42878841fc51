---------------------------- MODULE VmmHeapProofs ---------------------------
(***************************************************************************)
(* Theorems about VmmHeap, for a pool of any number of pages of any size   *)
(* and any requests: the lists of the pool and of the caches account for   *)
(* every page, and malloc, free and the pool implement Allocator.          *)
(***************************************************************************)
EXTENDS VmmHeap, FiniteSetTheorems, WellFoundedInduction, TLAPS

(***************************************************************************)
(* Arithmetic.                                                             *)
(***************************************************************************)

\* A non-empty set of naturals has a minimum.
LEMMA LeastExists ==
  ASSUME NEW S \in SUBSET Nat, S # {}
  PROVE  \E x \in S : \A y \in S : x <= y
<1> DEFINE R == OpToRel(<, Nat)
<1>1. IsWellFoundedOn(R, Nat)
  BY NatLessThanWellFounded
<1>2. \A x, y \in Nat : y < x => <<y, x>> \in R
  BY DEF OpToRel
<1> HIDE DEF R
<1>3. PICK x \in S : \A y \in S : ~(<<y, x>> \in R)
  BY <1>1, WFMin
<1>4. \A y \in S : ~(y < x)
  BY <1>2, <1>3, Zenon
<1> QED
  BY <1>3, <1>4

\* A page holds at least one object of a size up to its own, ...
LEMMA PageHolds ==
  ASSUME NEW n \in Nat, NEW s \in 1..n
  PROVE  n \div s \in Nat /\ n \div s >= 1
OBVIOUS

\* ... each of them whole, ...
LEMMA ObjectFits ==
  ASSUME NEW n \in Nat, NEW s \in 1..n, NEW m \in 1..(n \div s)
  PROVE  (m - 1) * s \in Nat /\ (m - 1) * s + s <= n
<1> DEFINE q == n \div s
<1>1. q \in Nat /\ q * s <= n
  OBVIOUS
<1>2. m \in Int /\ 1 <= m /\ m <= q
  BY <1>1
<1> HIDE DEF q
<1>3. m * s <= q * s /\ m * s \in Int /\ (m - 1) * s = m * s - s /\ m * s >= s
  BY <1>1, <1>2
<1> QED
  BY <1>1, <1>3

\* ... and an object that is whole and starts at a multiple is one of them.
LEMMA MultipleIsObject ==
  ASSUME NEW n \in Nat, NEW s \in 1..n, NEW o \in Nat, o % s = 0, o + s <= n
  PROVE  \E m \in 1..(n \div s) : o = (m - 1) * s
<1> DEFINE k == o \div s
           q == n \div s
           r == n % s
<1>1. k \in Nat /\ o = k * s
  OBVIOUS
<1>2. q \in Nat /\ r \in 0..s - 1 /\ n = q * s + r
  OBVIOUS
<1> HIDE DEF k, q, r
<1>3. k * s + s <= q * s + r
  BY <1>1, <1>2
<1>4. k + 1 <= q
  <2>1. SUFFICES ASSUME q <= k PROVE FALSE
    BY <1>1, <1>2
  <2>2. q * s <= k * s
    BY <2>1, <1>1, <1>2
  <2> QED
    BY <2>2, <1>1, <1>2, <1>3
<1> DEFINE x == k + 1
<1>5. x \in 1..q /\ o = (x - 1) * s
  BY <1>1, <1>2, <1>4
<1> HIDE DEF x
<1>6. \E m \in 1..q : o = (m - 1) * s
  BY <1>5, Zenon
<1> QED
  BY <1>6 DEF q

\* Two objects of a page do not overlap.
LEMMA ObjectsApart ==
  ASSUME NEW s \in Nat \ {0}, NEW a \in Nat, NEW b \in Nat, a < b
  PROVE  (a - 1) * s + s <= (b - 1) * s
<1>1. (a - 1) * s + s = a * s
  OBVIOUS
<1>2. a <= b - 1
  OBVIOUS
<1> QED
  BY <1>1, <1>2

(***************************************************************************)
(* Sequences.                                                              *)
(***************************************************************************)
Once(s) == \A i, j \in 1..Len(s) : s[i] = s[j] => i = j

LEMMA ToSetMember ==
  ASSUME NEW S, NEW s \in Seq(S), NEW x
  PROVE  x \in ToSet(s) <=> \E i \in 1..Len(s) : s[i] = x
BY DEF ToSet

\* The rest of a list without repetitions lacks its first element.
LEMMA TailOnce ==
  ASSUME NEW S, NEW s \in Seq(S), s # <<>>, Once(s)
  PROVE  /\ Tail(s) \in Seq(S) /\ Len(Tail(s)) = Len(s) - 1 /\ Once(Tail(s))
         /\ Head(s) \in ToSet(s) /\ Head(s) \in S /\ Head(s) = s[1]
         /\ ToSet(Tail(s)) = ToSet(s) \ {Head(s)}
         /\ \A i \in 1..Len(Tail(s)) : Tail(s)[i] = s[i + 1]
<1>1. Len(s) \in Nat /\ Len(s) > 0
  OBVIOUS
<1>2. /\ Tail(s) \in Seq(S) /\ Len(Tail(s)) = Len(s) - 1
      /\ \A i \in 1..Len(Tail(s)) : Tail(s)[i] = s[i + 1]
  OBVIOUS
<1>3. Head(s) = s[1] /\ Head(s) \in S /\ 1 \in 1..Len(s)
  BY <1>1
<1>4. Head(s) \in ToSet(s)
  BY <1>3, ToSetMember
<1>5. Once(Tail(s))
  BY <1>1, <1>2 DEF Once
<1>6. ASSUME NEW x PROVE x \in ToSet(Tail(s)) <=> x \in ToSet(s) /\ x # Head(s)
  <2>1. ASSUME x \in ToSet(Tail(s)) PROVE x \in ToSet(s) /\ x # Head(s)
    <3>1. PICK i \in 1..Len(Tail(s)) : Tail(s)[i] = x
      BY <2>1, <1>2, ToSetMember
    <3>2. i + 1 \in 1..Len(s) /\ i + 1 # 1 /\ s[i + 1] = x
      BY <3>1, <1>1, <1>2
    <3>3. s[i + 1] # s[1]
      BY <3>2, <1>3 DEF Once
    <3> QED
      BY <3>2, <3>3, <1>3, ToSetMember
  <2>2. ASSUME x \in ToSet(s), x # Head(s) PROVE x \in ToSet(Tail(s))
    <3>1. PICK i \in 1..Len(s) : s[i] = x
      BY <2>2, ToSetMember
    <3>2. i # 1
      BY <3>1, <2>2, <1>3
    <3>3. i - 1 \in 1..Len(Tail(s)) /\ Tail(s)[i - 1] = x
      BY <3>1, <3>2, <1>1, <1>2
    <3> QED
      BY <3>3, <1>2, ToSetMember
  <2> QED
    BY <2>1, <2>2
<1> QED
  BY <1>2, <1>3, <1>4, <1>5, <1>6

\* A list without repetitions stays one when a list of others follows it.
LEMMA ConcatOnce ==
  ASSUME NEW S, NEW s \in Seq(S), NEW t \in Seq(S), Once(s), Once(t),
         ToSet(s) \cap ToSet(t) = {}
  PROVE  /\ s \o t \in Seq(S) /\ Len(s \o t) = Len(s) + Len(t) /\ Once(s \o t)
         /\ ToSet(s \o t) = ToSet(s) \cup ToSet(t)
<1> DEFINE u == s \o t
<1>1. /\ u \in Seq(S) /\ Len(u) = Len(s) + Len(t) /\ Len(s) \in Nat /\ Len(t) \in Nat
      /\ \A i \in 1..Len(u) : u[i] = IF i <= Len(s) THEN s[i] ELSE t[i - Len(s)]
  OBVIOUS
<1>2. ASSUME NEW i \in 1..Len(u)
      PROVE  \/ i \in 1..Len(s) /\ u[i] = s[i] /\ u[i] \in ToSet(s) /\ u[i] \notin ToSet(t)
             \/ /\ i - Len(s) \in 1..Len(t) /\ u[i] = t[i - Len(s)]
                /\ u[i] \in ToSet(t) /\ u[i] \notin ToSet(s)
  <2>1. CASE i <= Len(s)
    <3>1. i \in 1..Len(s) /\ u[i] = s[i]
      BY <2>1, <1>1
    <3> HIDE DEF u
    <3>2. u[i] \in ToSet(s)
      BY <3>1, ToSetMember
    <3> QED
      BY <3>1, <3>2
  <2>2. CASE ~(i <= Len(s))
    <3>1. i - Len(s) \in 1..Len(t) /\ u[i] = t[i - Len(s)]
      BY <2>2, <1>1
    <3> HIDE DEF u
    <3>2. u[i] \in ToSet(t)
      BY <3>1, ToSetMember
    <3> QED
      BY <3>1, <3>2
  <2> QED
    BY <2>1, <2>2
<1>3. ASSUME NEW x PROVE x \in ToSet(s) => x \in ToSet(u)
  <2>1. SUFFICES ASSUME x \in ToSet(s) PROVE x \in ToSet(u)
    OBVIOUS
  <2>2. PICK i \in 1..Len(s) : s[i] = x
    BY <2>1, ToSetMember
  <2>3. i \in 1..Len(u) /\ u[i] = x
    BY <2>2, <1>1
  <2> QED
    BY <2>3, <1>1, ToSetMember
<1>4. ASSUME NEW x PROVE x \in ToSet(t) => x \in ToSet(u)
  <2>1. SUFFICES ASSUME x \in ToSet(t) PROVE x \in ToSet(u)
    OBVIOUS
  <2>2. PICK i \in 1..Len(t) : t[i] = x
    BY <2>1, ToSetMember
  <2>3. i + Len(s) \in 1..Len(u) /\ u[i + Len(s)] = x
    BY <2>2, <1>1
  <2> QED
    BY <2>3, <1>1, ToSetMember
<1> HIDE DEF u
<1>5. Once(u)
  <2>1. SUFFICES ASSUME NEW i \in 1..Len(u), NEW j \in 1..Len(u), u[i] = u[j] PROVE i = j
    BY DEF Once
  <2>2. CASE u[i] \in ToSet(s)
    BY <2>1, <2>2, <1>2 DEF Once
  <2>3. CASE u[i] \notin ToSet(s)
    <3>1. /\ i - Len(s) \in 1..Len(t) /\ u[i] = t[i - Len(s)]
          /\ j - Len(s) \in 1..Len(t) /\ u[j] = t[j - Len(s)]
      BY <2>1, <2>3, <1>2
    <3>2. i - Len(s) = j - Len(s)
      BY <3>1, <2>1 DEF Once
    <3> QED
      BY <3>2, <1>1
  <2> QED
    BY <2>2, <2>3
<1>6. ASSUME NEW x PROVE x \in ToSet(u) => x \in ToSet(s) \cup ToSet(t)
  BY <1>1, <1>2, ToSetMember
<1> QED
  BY <1>1, <1>3, <1>4, <1>5, <1>6 DEF u

(***************************************************************************)
(* The pool.                                                               *)
(***************************************************************************)

\* A popped page was free, and is in use afterwards.
LEMMA PopKeeps ==
  ASSUME NEW h \in HeapType, PoolInv(h), CanGrow(h)
  PROVE  /\ Pop(h) \in HeapType /\ PoolInv(Pop(h))
         /\ Pop(h).free = Tail(h.free) /\ Pop(h).inuse = h.inuse \cup {Head(h.free)}
         /\ Pop(h).used = h.used /\ Pop(h).avl = h.avl /\ Pop(h).owner = h.owner
         /\ Head(h.free) \in PoolPages /\ Head(h.free) \notin h.inuse
<1> DEFINE d == Pop(h)
           s == h.free
<1>1. s \in Seq(PoolPages) /\ s # <<>> /\ Once(s) /\ h.inuse \in SUBSET PoolPages
  BY DEF HeapType, PoolInv, CanGrow, Once
<1>2. /\ Tail(s) \in Seq(PoolPages) /\ Len(Tail(s)) = Len(s) - 1 /\ Once(Tail(s))
      /\ Head(s) \in ToSet(s) /\ Head(s) \in PoolPages
      /\ ToSet(Tail(s)) = ToSet(s) \ {Head(s)}
  BY <1>1, TailOnce
<1>3. /\ d.free = Tail(s) /\ d.inuse = h.inuse \cup {Head(s)}
      /\ d.used = h.used /\ d.avl = h.avl /\ d.owner = h.owner
  BY DEF HeapType, Pop
<1>4. d \in HeapType
  BY <1>1, <1>2 DEF HeapType, Pop
<1>5. IsFiniteSet(ToSet(s)) /\ Cardinality(ToSet(s)) = Len(s)
  <2>1. IsFiniteSet(PoolPages)
    BY HeapAssumption, FS_Interval DEF PoolPages
  <2>2. ToSet(s) \subseteq PoolPages
    BY <1>1, ToSetMember
  <2> QED
    BY <2>1, <2>2, FS_Subset DEF PoolInv
<1>6. Cardinality(ToSet(Tail(s))) = Len(Tail(s))
  <2>1. Cardinality(ToSet(s) \ {Head(s)}) = Cardinality(ToSet(s)) - 1
    BY <1>2, <1>5, FS_RemoveElement
  <2> QED
    BY <2>1, <1>2, <1>5
<1>7. Head(s) \notin h.inuse
  BY <1>2 DEF PoolInv
<1>8. PoolInv(d)
  <2> HIDE DEF d
  <2>1. \A i, j \in 1..Len(d.free) : d.free[i] = d.free[j] => i = j
    BY <1>2, <1>3 DEF Once
  <2>2. Cardinality(ToSet(d.free)) = Len(d.free)
    BY <1>3, <1>6
  <2>3. /\ ToSet(s) \cap h.inuse = {} /\ ToSet(s) \cup h.inuse = PoolPages
    BY DEF PoolInv
  <2>4. ToSet(d.free) \cap d.inuse = {} /\ ToSet(d.free) \cup d.inuse = PoolPages
    BY <1>2, <1>3, <2>3
  <2> QED
    BY <2>1, <2>2, <2>4 DEF PoolInv
<1> QED
  BY <1>2, <1>3, <1>4, <1>7, <1>8

(***************************************************************************)
(* Caches.                                                                 *)
(***************************************************************************)

\* The objects of a fresh page: at least one, all different, all on it.
LEMMA PageObjectsKind ==
  ASSUME NEW p \in PoolPages, NEW sz \in 1..PageSize
  PROVE  /\ PageObjects(p, sz) \in Seq(PoolPages \X Nat) /\ Once(PageObjects(p, sz))
         /\ Len(PageObjects(p, sz)) = PageSize \div sz
         /\ Len(PageObjects(p, sz)) \in Nat /\ Len(PageObjects(p, sz)) >= 1
         /\ \A o \in ToSet(PageObjects(p, sz)) : o[1] = p /\ IsObject(o, sz)
         /\ \A o \in PoolPages \X Nat :
              o[1] = p /\ IsObject(o, sz) => o \in ToSet(PageObjects(p, sz))
<1> DEFINE n == PageSize \div sz
           s == PageObjects(p, sz)
           f(i) == (i - 1) * sz
<1>0. PageSize \in Nat /\ sz \in Nat \ {0}
  BY HeapAssumption
<1>1. n \in Nat /\ n >= 1
  BY <1>0, PageHolds
<1>2. \A i \in 1..n : f(i) \in Nat
  BY <1>0, ObjectFits
<1>3. s = [i \in 1..n |-> <<p, f(i)>>]
  BY DEF PageObjects, Obj
<1>4. \A i, j \in 1..n : i < j => f(i) + sz <= f(j)
  <2>1. \A i, j \in 1..n : i \in Nat /\ j \in Nat
    BY <1>1
  <2> QED
    BY <1>0, <2>1, ObjectsApart
<1>5. \A o : IsObject(o, sz) <=> \E i \in 1..n : o[2] = f(i)
  BY DEF IsObject
<1> HIDE DEF n, f, s
<1>6. s \in Seq(PoolPages \X Nat) /\ Len(s) = n /\ \A i \in 1..n : s[i] = <<p, f(i)>>
  BY <1>1, <1>2, <1>3
<1>7. Once(s)
  <2>1. SUFFICES ASSUME NEW i \in 1..n, NEW j \in 1..n, s[i] = s[j], i # j PROVE FALSE
    BY <1>6 DEF Once
  <2>2. f(i) = f(j)
    BY <1>6, <2>1
  <2>3. i < j \/ j < i
    BY <1>1, <2>1
  <2> QED
    BY <1>0, <1>2, <1>4, <2>2, <2>3
<1>8. ASSUME NEW o \in ToSet(s) PROVE o[1] = p /\ IsObject(o, sz)
  <2>1. PICK i \in 1..n : s[i] = o
    BY <1>6, ToSetMember
  <2> QED
    BY <1>5, <1>6, <2>1
<1>9. ASSUME NEW o \in PoolPages \X Nat, o[1] = p, IsObject(o, sz) PROVE o \in ToSet(s)
  <2>1. PICK i \in 1..n : o[2] = f(i)
    BY <1>5, <1>9
  <2>2. o = s[i]
    BY <1>6, <1>9, <2>1
  <2> QED
    BY <1>6, <2>2, ToSetMember
<1> QED
  BY <1>1, <1>6, <1>7, <1>8, <1>9 DEF s, n

\* What a list becomes when objects are added to it or taken off it.
LEMMA CacheFields ==
  ASSUME NEW x \in CacheType, NEW new \in Seq(PoolPages \X Nat)
  PROVE  /\ x.sz \in 1..PageSize /\ x.obj \in Seq(PoolPages \X Nat) /\ x.nr \in Nat
         /\ Fill(x, new) \in CacheType /\ Fill(x, new).sz = x.sz
         /\ Fill(x, new).obj = x.obj \o new /\ Fill(x, new).nr = x.nr + Len(new)
         /\ x.obj # <<>> /\ x.nr = Len(x.obj) =>
              /\ Drain(x) \in CacheType /\ Drain(x).sz = x.sz
              /\ Drain(x).obj = Tail(x.obj) /\ Drain(x).nr = x.nr - 1
<1>1. x.sz \in 1..PageSize /\ x.obj \in Seq(PoolPages \X Nat) /\ x.nr \in Nat
  BY DEF CacheType
<1>2. x.obj \o new \in Seq(PoolPages \X Nat) /\ x.nr + Len(new) \in Nat
  BY <1>1
<1>3. /\ Fill(x, new).sz = x.sz /\ Fill(x, new).obj = x.obj \o new
      /\ Fill(x, new).nr = x.nr + Len(new)
  BY DEF CacheType, Fill
<1>4. Fill(x, new) \in CacheType
  BY <1>2 DEF CacheType, Fill
<1>5. ASSUME x.obj # <<>>, x.nr = Len(x.obj)
      PROVE  /\ Drain(x) \in CacheType /\ Drain(x).sz = x.sz
             /\ Drain(x).obj = Tail(x.obj) /\ Drain(x).nr = x.nr - 1
  <2>1. Tail(x.obj) \in Seq(PoolPages \X Nat) /\ x.nr - 1 \in Nat
    BY <1>1, <1>5
  <2>2. Drain(x).sz = x.sz /\ Drain(x).obj = Tail(x.obj) /\ Drain(x).nr = x.nr - 1
    BY DEF CacheType, Drain
  <2>3. Drain(x) \in CacheType
    BY <2>1 DEF CacheType, Drain
  <2> QED
    BY <2>2, <2>3
<1> QED
  BY <1>1, <1>3, <1>4, <1>5

LEMMA CachesType ==
  ASSUME NEW h \in HeapType
  PROVE  /\ h.used \in Seq(CacheType) /\ h.owner \in [PoolPages -> 0..PageSize]
         /\ h.inuse \in SUBSET PoolPages /\ h.avl \in 0..SlabNr /\ h.free \in Seq(PoolPages)
         /\ Len(h.used) \in Nat
         /\ \A i \in 1..Len(h.used) :
              /\ h.used[i] \in CacheType /\ h.used[i].sz \in 1..PageSize
              /\ h.used[i].obj \in Seq(PoolPages \X Nat) /\ Len(h.used[i].obj) \in Nat
<1>1. /\ h.used \in Seq(CacheType) /\ h.owner \in [PoolPages -> 0..PageSize]
      /\ h.inuse \in SUBSET PoolPages /\ h.avl \in 0..SlabNr /\ h.free \in Seq(PoolPages)
  BY DEF HeapType
<1>2. Len(h.used) \in Nat /\ \A i \in 1..Len(h.used) : h.used[i] \in CacheType
  BY <1>1
<1>3. \A x \in CacheType :
        x.sz \in 1..PageSize /\ x.obj \in Seq(PoolPages \X Nat) /\ Len(x.obj) \in Nat
  BY DEF CacheType
<1> QED
  BY <1>1, <1>2, <1>3

\* slab_grow, field by field.
LEMMA GrowFields ==
  ASSUME NEW h \in HeapType, PoolInv(h), CanGrow(h), NEW c \in 1..Len(h.used)
  PROVE  LET p == Head(h.free)
             sz == h.used[c].sz
             new == PageObjects(p, sz)
             d == Grow(h, c)
         IN /\ d \in HeapType /\ PoolInv(d)
            /\ d.inuse = h.inuse \cup {p} /\ d.avl = h.avl
            /\ d.owner = [h.owner EXCEPT ![p] = sz]
            /\ Len(d.used) = Len(h.used)
            /\ \A i \in 1..Len(h.used) : d.used[i].sz = h.used[i].sz
            /\ \A i \in 1..Len(h.used) : i # c => d.used[i] = h.used[i]
            /\ d.used[c] = Fill(h.used[c], new)
            /\ d.used[c].obj = h.used[c].obj \o new
            /\ d.used[c].nr = h.used[c].nr + Len(new)
            /\ p \in PoolPages /\ p \notin h.inuse /\ sz \in 1..PageSize
<1> DEFINE p == Head(h.free)
           x == h.used[c]
           new == PageObjects(p, x.sz)
           y == Fill(x, new)
           q == Pop(h)
           d == Grow(h, c)
<1>1. /\ q \in HeapType /\ PoolInv(q) /\ q.inuse = h.inuse \cup {p}
      /\ q.used = h.used /\ q.avl = h.avl /\ q.owner = h.owner
      /\ p \in PoolPages /\ p \notin h.inuse
  BY PopKeeps
<1>2. x \in CacheType /\ x.sz \in 1..PageSize /\ x.sz \in 0..PageSize
  <2>1. x \in CacheType /\ x.sz \in 1..PageSize
    BY CachesType, Zenon
  <2> QED
    BY <2>1, HeapAssumption
<1>3. new \in Seq(PoolPages \X Nat)
  BY <1>1, <1>2, PageObjectsKind
<1>4. /\ y \in CacheType /\ y.sz = x.sz /\ y.obj = x.obj \o new /\ y.nr = x.nr + Len(new)
  BY <1>2, <1>3, CacheFields
<1>5. d = [q EXCEPT !.used[c] = y, !.owner[p] = x.sz]
  BY <1>1 DEF Grow
<1>6. c \in 1..Len(q.used)
  BY <1>1
<1> HIDE DEF new, y, q, d, p, x
<1>7. /\ d \in HeapType
      /\ d.free = q.free /\ d.inuse = q.inuse /\ d.avl = q.avl
      /\ d.owner = [q.owner EXCEPT ![p] = x.sz]
      /\ Len(d.used) = Len(q.used) /\ d.used[c] = y
      /\ \A i \in 1..Len(q.used) : i # c => d.used[i] = q.used[i]
  <2>1. q.used \in Seq(CacheType) /\ q.owner \in [PoolPages -> 0..PageSize]
    BY <1>1, CachesType
  <2>2. /\ [q.used EXCEPT ![c] = y] \in Seq(CacheType)
        /\ [q.owner EXCEPT ![p] = x.sz] \in [PoolPages -> 0..PageSize]
    BY <2>1, <1>1, <1>2, <1>4, <1>6
  <2>3. /\ d.free = q.free /\ d.inuse = q.inuse /\ d.avl = q.avl
        /\ d.used = [q.used EXCEPT ![c] = y] /\ d.owner = [q.owner EXCEPT ![p] = x.sz]
    BY <1>1, <1>5 DEF HeapType
  <2>4. d \in HeapType
    BY <2>2, <1>1, <1>5 DEF HeapType
  <2>5. /\ Len(d.used) = Len(q.used) /\ d.used[c] = y
        /\ \A i \in 1..Len(q.used) : i # c => d.used[i] = q.used[i]
    BY <2>1, <2>3, <1>6
  <2> QED
    BY <2>3, <2>4, <2>5
<1>8. PoolInv(d)
  BY <1>1, <1>7 DEF PoolInv
<1>9. \A i \in 1..Len(h.used) : d.used[i].sz = h.used[i].sz
  BY <1>1, <1>4, <1>7 DEF x
<1> QED
  BY <1>1, <1>2, <1>4, <1>7, <1>8, <1>9 DEF d, p, new, y, x

(***************************************************************************)
(* The blocks in use, for a heap in the middle of an operation.            *)
(***************************************************************************)
OnList(h, o) == \E i \in 1..Len(h.used) : o \in ToSet(h.used[i].obj)
Busy(h, o) == h.owner[o[1]] # 0 /\ IsObject(o, h.owner[o[1]]) /\ ~OnList(h, o)

LiveOf(h, g) ==
  {[page |-> p, off |-> 0, len |-> PageSize] : p \in g} \cup
  {[page |-> o[1], off |-> o[2], len |-> h.owner[o[1]]] : o \in {x \in PoolPages \X Nat : Busy(h, x)}}

\* Live counts the pages given and the objects of caches' pages that are on
\* no free list.
LEMMA LiveIsLiveOf ==
  ASSUME TypeOK
  PROVE  Live = LiveOf(Heap, given)
<1> DEFINE h == Heap
           F == UNION {ToSet(used[i].obj) : i \in 1..Len(used)}
           B(p, o) == [page |-> p, off |-> o[2], len |-> owner[p]]
           Q == {q \in PoolPages : owner[q] # 0}
           U == UNION {{B(p, o) : o \in ToSet(PageObjects(p, owner[p])) \ F} : p \in Q}
           V == {[page |-> o[1], off |-> o[2], len |-> h.owner[o[1]]] :
                    o \in {x \in PoolPages \X Nat : Busy(h, x)}}
<1>1. h \in HeapType /\ h.used = used /\ h.owner = owner
  BY DEF TypeOK, Heap
<1>2. owner \in [PoolPages -> 0..PageSize]
  BY <1>1, CachesType
<1> HIDE DEF h
<1>3. \A o : o \in F <=> OnList(h, o)
  BY <1>1 DEF OnList
<1>4. \A p \in Q : /\ owner[p] \in 1..PageSize
                   /\ \A o \in ToSet(PageObjects(p, owner[p])) :
                        o \in PoolPages \X Nat /\ o[1] = p /\ IsObject(o, owner[p])
                   /\ \A o \in PoolPages \X Nat :
                        o[1] = p /\ IsObject(o, owner[p]) => o \in ToSet(PageObjects(p, owner[p]))
  <2>1. SUFFICES ASSUME NEW p \in Q
                 PROVE  /\ owner[p] \in 1..PageSize
                        /\ \A o \in ToSet(PageObjects(p, owner[p])) :
                             o \in PoolPages \X Nat /\ o[1] = p /\ IsObject(o, owner[p])
                        /\ \A o \in PoolPages \X Nat :
                             o[1] = p /\ IsObject(o, owner[p])
                               => o \in ToSet(PageObjects(p, owner[p]))
    OBVIOUS
  <2>2. p \in PoolPages /\ owner[p] \in 1..PageSize
    BY <1>2, HeapAssumption
  <2>3. /\ PageObjects(p, owner[p]) \in Seq(PoolPages \X Nat)
        /\ \A o \in ToSet(PageObjects(p, owner[p])) : o[1] = p /\ IsObject(o, owner[p])
        /\ \A o \in PoolPages \X Nat :
             o[1] = p /\ IsObject(o, owner[p]) => o \in ToSet(PageObjects(p, owner[p]))
    BY <2>2, PageObjectsKind
  <2>4. \A o \in ToSet(PageObjects(p, owner[p])) : o \in PoolPages \X Nat
    BY <2>3, ToSetMember
  <2> QED
    BY <2>2, <2>3, <2>4
<1> HIDE DEF F
<1>5. ASSUME NEW b \in U PROVE b \in V
  <2>1. PICK p \in Q : b \in {B(p, o) : o \in ToSet(PageObjects(p, owner[p])) \ F}
    OBVIOUS
  <2>2. PICK o \in ToSet(PageObjects(p, owner[p])) \ F : b = B(p, o)
    BY <2>1
  <2>3. o \in PoolPages \X Nat /\ o[1] = p /\ IsObject(o, owner[p]) /\ ~OnList(h, o)
    BY <2>2, <1>3, <1>4
  <2>4. o \in {x \in PoolPages \X Nat : Busy(h, x)}
    BY <2>3, <1>1 DEF Busy
  <2>5. b = [page |-> o[1], off |-> o[2], len |-> h.owner[o[1]]]
    BY <2>2, <2>3, <1>1
  <2> QED
    BY <2>4, <2>5
<1>6. ASSUME NEW b \in V PROVE b \in U
  <2>1. PICK o \in {x \in PoolPages \X Nat : Busy(h, x)} :
               b = [page |-> o[1], off |-> o[2], len |-> h.owner[o[1]]]
    OBVIOUS
  <2>2. /\ o \in PoolPages \X Nat /\ o[1] \in Q
        /\ IsObject(o, owner[o[1]]) /\ o \notin F
    BY <2>1, <1>1, <1>3 DEF Busy
  <2>3. o \in ToSet(PageObjects(o[1], owner[o[1]])) \ F
    BY <2>2, <1>4
  <2>4. b = B(o[1], o)
    BY <2>1, <1>1
  <2> QED
    BY <2>2, <2>3, <2>4
<1>7. U = V
  BY <1>5, <1>6
<1> QED
  BY <1>7 DEF Live, LiveOf, F, h

\* A step of an operation that changes no busy object changes no block.
LEMMA LiveSame ==
  ASSUME NEW h, NEW d, NEW g,
         \A o \in PoolPages \X Nat : Busy(h, o) <=> Busy(d, o),
         \A o \in PoolPages \X Nat : Busy(h, o) => h.owner[o[1]] = d.owner[o[1]]
  PROVE  LiveOf(d, g) = LiveOf(h, g)
<1> DEFINE V(x) == {[page |-> o[1], off |-> o[2], len |-> x.owner[o[1]]] :
                      o \in {y \in PoolPages \X Nat : Busy(x, y)}}
<1>1. ASSUME NEW b \in V(h) PROVE b \in V(d)
  <2>1. PICK o \in PoolPages \X Nat :
               Busy(h, o) /\ b = [page |-> o[1], off |-> o[2], len |-> h.owner[o[1]]]
    BY <1>1
  <2>2. Busy(d, o) /\ b = [page |-> o[1], off |-> o[2], len |-> d.owner[o[1]]]
    BY <2>1
  <2> QED
    BY <2>2
<1>2. ASSUME NEW b \in V(d) PROVE b \in V(h)
  <2>1. PICK o \in PoolPages \X Nat :
               Busy(d, o) /\ b = [page |-> o[1], off |-> o[2], len |-> d.owner[o[1]]]
    BY <1>2
  <2>2. Busy(h, o) /\ b = [page |-> o[1], off |-> o[2], len |-> h.owner[o[1]]]
    BY <2>1
  <2> QED
    BY <2>2
<1>3. V(h) = V(d)
  BY <1>1, <1>2
<1> QED
  BY <1>3 DEF LiveOf

(***************************************************************************)
(* slab_grow.                                                              *)
(***************************************************************************)

\* A list has no object on a page no cache owns, and does not notice who
\* owns that page afterwards.
LEMMA ListElsewhere ==
  ASSUME NEW x \in CacheType, NEW own \in [PoolPages -> 0..PageSize], ListInv(x, own),
         NEW p \in PoolPages, own[p] = 0,
         NEW after, \A q \in PoolPages : q # p => after[q] = own[q]
  PROVE  /\ ListInv(x, after)
         /\ \A o \in ToSet(x.obj) : o \in PoolPages \X Nat /\ o[1] # p /\ own[o[1]] = x.sz
<1>1. x.obj \in Seq(PoolPages \X Nat) /\ x.sz \in 1..PageSize
  BY DEF CacheType
<1>2. \A k \in 1..Len(x.obj) : x.obj[k][1] \in PoolPages /\ x.obj[k] \in PoolPages \X Nat
  BY <1>1
<1>3. \A k \in 1..Len(x.obj) : own[x.obj[k][1]] = x.sz /\ IsObject(x.obj[k], x.sz)
  BY DEF ListInv
<1>4. \A k \in 1..Len(x.obj) : x.obj[k][1] # p
  BY <1>1, <1>3, HeapAssumption
<1>5. \A k \in 1..Len(x.obj) : after[x.obj[k][1]] = x.sz
  BY <1>2, <1>3, <1>4
<1>6. ListInv(x, after)
  BY <1>3, <1>5 DEF ListInv
<1>7. \A o \in ToSet(x.obj) : o \in PoolPages \X Nat /\ o[1] # p /\ own[o[1]] = x.sz
  BY <1>1, <1>2, <1>3, <1>4, ToSetMember
<1> QED
  BY <1>6, <1>7

\* A cache that grows keeps every list and changes no block in use.
LEMMA GrowKeeps ==
  ASSUME NEW h \in HeapType, NEW g, NEW made, HeapInv(h, g, made), CanGrow(h),
         NEW c \in 1..Len(h.used)
  PROVE  /\ Grow(h, c) \in HeapType /\ HeapInv(Grow(h, c), g, made)
         /\ Len(Grow(h, c).used) = Len(h.used) /\ Grow(h, c).used[c].obj # <<>>
         /\ \A i \in 1..Len(h.used) : Grow(h, c).used[i].sz = h.used[i].sz
         /\ LiveOf(Grow(h, c), g) = LiveOf(h, g)
<1> DEFINE p == Head(h.free)
           sz == h.used[c].sz
           new == PageObjects(p, sz)
           d == Grow(h, c)
<1>0. PoolInv(h) /\ PageInv(h, g) /\ DscInv(h, g, made) /\ SortInv(h.used) /\ ObjInv(h) /\ OwnerInv(h)
  BY DEF HeapInv
<1>1. /\ d \in HeapType /\ PoolInv(d)
      /\ d.inuse = h.inuse \cup {p} /\ d.avl = h.avl
      /\ d.owner = [h.owner EXCEPT ![p] = sz]
      /\ Len(d.used) = Len(h.used)
      /\ \A i \in 1..Len(h.used) : d.used[i].sz = h.used[i].sz
      /\ \A i \in 1..Len(h.used) : i # c => d.used[i] = h.used[i]
      /\ d.used[c].obj = h.used[c].obj \o new
      /\ d.used[c].nr = h.used[c].nr + Len(new)
      /\ p \in PoolPages /\ p \notin h.inuse /\ sz \in 1..PageSize
  BY <1>0, GrowFields
<1>2. /\ new \in Seq(PoolPages \X Nat) /\ Once(new) /\ Len(new) \in Nat /\ Len(new) >= 1
      /\ \A o \in ToSet(new) : o[1] = p /\ IsObject(o, sz)
      /\ \A o \in PoolPages \X Nat : o[1] = p /\ IsObject(o, sz) => o \in ToSet(new)
  BY <1>1, PageObjectsKind
<1>3. /\ h.owner \in [PoolPages -> 0..PageSize] /\ h.used \in Seq(CacheType)
      /\ Len(h.used) \in Nat /\ h.inuse \in SUBSET PoolPages
      /\ \A i \in 1..Len(h.used) :
           /\ h.used[i] \in CacheType /\ h.used[i].sz \in 1..PageSize
           /\ h.used[i].obj \in Seq(PoolPages \X Nat) /\ Len(h.used[i].obj) \in Nat
  BY CachesType
<1> HIDE DEF p, sz, new, d
<1>4. h.owner[p] = 0
  BY <1>0, <1>1 DEF PageInv
<1>5. p \notin g /\ g \subseteq h.inuse
  BY <1>0, <1>1 DEF PageInv
<1>6. ASSUME NEW q \in PoolPages, q # p PROVE d.owner[q] = h.owner[q]
  <2>1. d.owner = [h.owner EXCEPT ![p] = sz] /\ h.owner \in [PoolPages -> 0..PageSize]
    BY <1>1, <1>3
  <2> QED
    BY <2>1, <1>6
<1>7. d.owner[p] = sz /\ sz # 0
  BY <1>1, <1>3
<1>8. PageInv(d, g)
  <2>1. g \subseteq d.inuse /\ g \subseteq PoolPages
    BY <1>1, <1>3, <1>5
  <2>2. \A q \in g : d.owner[q] = 0
    BY <1>0, <1>5, <1>6, <2>1 DEF PageInv
  <2>3. \A q \in PoolPages : d.owner[q] # 0 => q \in d.inuse
    BY <1>0, <1>1, <1>6 DEF PageInv
  <2> QED
    BY <2>1, <2>2, <2>3 DEF PageInv
<1>9. DscInv(d, g, made)
  <2>1. DscPages(d, g) = DscPages(h, g)
    BY <1>1, <1>3, <1>6, <1>7 DEF DscPages
  <2> QED
    BY <1>0, <1>1, <2>1 DEF DscInv
<1>10. \A i \in 1..Len(h.used) : ListInv(h.used[i], h.owner)
  BY <1>0 DEF ObjInv
<1>11. \A i \in 1..Len(h.used) :
         /\ ListInv(h.used[i], d.owner)
         /\ \A o \in ToSet(h.used[i].obj) : o[1] # p
  <2>1. TAKE i \in 1..Len(h.used)
  <2>2. h.used[i] \in CacheType /\ ListInv(h.used[i], h.owner)
    BY <1>3, <1>10
  <2>3. \A q \in PoolPages : q # p => d.owner[q] = h.owner[q]
    BY <1>6
  <2>4. p \in PoolPages /\ h.owner \in [PoolPages -> 0..PageSize]
    BY <1>1, <1>3
  <2> QED
    BY <2>2, <2>3, <2>4, <1>4, ListElsewhere
<1> DEFINE x == h.used[c]
           y == d.used[c]
<1>12. x.obj \in Seq(PoolPages \X Nat) /\ Once(x.obj) /\ x.sz = sz /\ y.sz = sz
  BY <1>1, <1>3, <1>10 DEF ListInv, Once, sz
<1>13. ToSet(x.obj) \cap ToSet(new) = {}
  BY <1>2, <1>11
<1>14. /\ y.obj \in Seq(PoolPages \X Nat) /\ Len(y.obj) = Len(x.obj) + Len(new)
       /\ Once(y.obj) /\ ToSet(y.obj) = ToSet(x.obj) \cup ToSet(new)
  BY <1>1, <1>2, <1>12, <1>13, ConcatOnce
<1>15. \A o \in ToSet(y.obj) : d.owner[o[1]] = sz /\ IsObject(o, sz)
  <2>1. ASSUME NEW o \in ToSet(x.obj) PROVE d.owner[o[1]] = sz /\ IsObject(o, sz)
    <3>1. PICK k \in 1..Len(x.obj) : x.obj[k] = o
      BY <1>12, ToSetMember
    <3>2. d.owner[x.obj[k][1]] = x.sz /\ IsObject(x.obj[k], x.sz)
      BY <1>11 DEF ListInv
    <3> QED
      BY <3>1, <3>2, <1>12
  <2>2. ASSUME NEW o \in ToSet(new) PROVE d.owner[o[1]] = sz /\ IsObject(o, sz)
    BY <1>2, <1>7
  <2> QED
    BY <1>14, <2>1, <2>2
<1>16. ListInv(y, d.owner)
  <2>1. \A k \in 1..Len(y.obj) : y.obj[k] \in ToSet(y.obj)
    BY <1>14, ToSetMember
  <2> HIDE DEF y
  <2> QED
    BY <1>12, <1>14, <1>15, <2>1 DEF ListInv, Once
<1>17. ObjInv(d)
  <2>1. \A i \in 1..Len(d.used) : ListInv(d.used[i], d.owner)
    BY <1>1, <1>11, <1>16
  <2> QED
    BY <2>1 DEF ObjInv
<1>18. SortInv(d.used)
  <2>1. \A i, j \in 1..Len(d.used) : i < j => d.used[i].sz < d.used[j].sz
    BY <1>0, <1>1 DEF SortInv
  <2>2. x.nr = Len(x.obj) /\ y.nr = Len(y.obj)
    BY <1>0, <1>1, <1>14 DEF SortInv
  <2>3. \A i \in 1..Len(d.used) : d.used[i].nr = Len(d.used[i].obj)
    BY <1>0, <1>1, <2>2 DEF SortInv
  <2> QED
    BY <2>1, <2>3 DEF SortInv
<1>19. OwnerInv(d)
  <2>1. SUFFICES ASSUME NEW q \in PoolPages, d.owner[q] # 0
                 PROVE  \E i \in 1..Len(d.used) : d.used[i].sz = d.owner[q]
    BY DEF OwnerInv
  <2>2. CASE q = p
    BY <2>2, <1>1, <1>7, <1>12
  <2>3. CASE q # p
    BY <2>1, <2>3, <1>0, <1>1, <1>6 DEF OwnerInv
  <2> QED
    BY <2>2, <2>3
<1>20. HeapInv(d, g, made)
  BY <1>1, <1>8, <1>9, <1>17, <1>18, <1>19 DEF HeapInv
<1>21. y.obj # <<>>
  BY <1>2, <1>12, <1>14
<1>22. ASSUME NEW o \in PoolPages \X Nat
       PROVE  /\ Busy(h, o) <=> Busy(d, o)
              /\ Busy(h, o) => h.owner[o[1]] = d.owner[o[1]]
  <2>0. o[1] \in PoolPages
    OBVIOUS
  <2>1. CASE o[1] = p
    <3>1. ~Busy(h, o)
      BY <2>1, <1>4 DEF Busy
    <3>2. IsObject(o, sz) => OnList(d, o)
      BY <2>1, <1>1, <1>2, <1>14 DEF OnList
    <3> QED
      BY <3>1, <3>2, <2>1, <1>7 DEF Busy
  <2>2. CASE o[1] # p
    <3>1. o \notin ToSet(new)
      BY <2>2, <1>2
    <3>2. \A i \in 1..Len(h.used) : o \in ToSet(d.used[i].obj) <=> o \in ToSet(h.used[i].obj)
      BY <3>1, <1>1, <1>14
    <3>3. OnList(d, o) <=> OnList(h, o)
      BY <3>2, <1>1 DEF OnList
    <3>4. d.owner[o[1]] = h.owner[o[1]]
      BY <2>0, <2>2, <1>6
    <3> QED
      BY <3>3, <3>4 DEF Busy
  <2> QED
    BY <2>1, <2>2
<1>23. LiveOf(d, g) = LiveOf(h, g)
  BY <1>22, LiveSame
<1> QED
  BY <1>1, <1>20, <1>21, <1>23 DEF d

(***************************************************************************)
(* slab_new: a descriptor, a place in the list, a page.                    *)
(***************************************************************************)

\* Lists that do not change keep what is said of them.
LEMMA SameLists ==
  ASSUME NEW h, NEW d, NEW g, d.used = h.used, d.owner = h.owner
  PROVE  /\ ObjInv(h) => ObjInv(d)
         /\ OwnerInv(h) => OwnerInv(d)
         /\ SortInv(h.used) => SortInv(d.used)
         /\ LiveOf(d, g) = LiveOf(h, g)
<1>1. \A o : Busy(h, o) <=> Busy(d, o)
  BY DEF Busy, OnList
<1>2. LiveOf(d, g) = LiveOf(h, g)
  BY <1>1, LiveSame
<1> QED
  BY <1>2 DEF ObjInv, OwnerInv

LEMMA DscPagesFinite ==
  ASSUME NEW h \in HeapType, NEW g
  PROVE  IsFiniteSet(DscPages(h, g)) /\ Cardinality(DscPages(h, g)) \in Nat
<1>1. IsFiniteSet(PoolPages)
  BY HeapAssumption, FS_Interval DEF PoolPages
<1>2. DscPages(h, g) \subseteq PoolPages
  BY CachesType DEF DscPages
<1> QED
  BY <1>1, <1>2, FS_Subset, FS_CardinalityType

\* A descriptor is taken off the list of descriptors, or with a fresh page
\* of them; it is on no list then.
LEMMA DescribeKeeps ==
  ASSUME NEW h \in HeapType, NEW g, HeapInv(h, g, 0), CanDescribe(h)
  PROVE  /\ Describe(h) \in HeapType /\ HeapInv(Describe(h), g, 1)
         /\ Describe(h).used = h.used /\ Describe(h).avl < SlabNr
         /\ LiveOf(Describe(h), g) = LiveOf(h, g)
<1> DEFINE d == Describe(h)
<1>0. PoolInv(h) /\ PageInv(h, g) /\ DscInv(h, g, 0) /\ SortInv(h.used) /\ ObjInv(h) /\ OwnerInv(h)
  BY DEF HeapInv
<1>1. /\ h.avl \in 0..SlabNr /\ Len(h.used) \in Nat /\ SlabNr \in Nat \ {0}
      /\ h.inuse \in SUBSET PoolPages
  BY HeapAssumption, CachesType
<1>2. Cardinality(DscPages(h, g)) \in Nat /\ IsFiniteSet(DscPages(h, g))
  BY DscPagesFinite
<1>3. h.avl + Len(h.used) = SlabNr * Cardinality(DscPages(h, g))
  BY <1>0, <1>1, <1>2 DEF DscInv
<1>4. CASE h.avl > 0
  <2>1. d = [h EXCEPT !.avl = h.avl - 1]
    BY <1>4 DEF Describe
  <2>2. h.avl - 1 \in 0..SlabNr /\ h.avl - 1 < SlabNr
    BY <1>1, <1>4
  <2> HIDE DEF d
  <2>3. /\ d \in HeapType /\ d.free = h.free /\ d.inuse = h.inuse /\ d.used = h.used
        /\ d.owner = h.owner /\ d.avl = h.avl - 1
    BY <2>1, <2>2 DEF HeapType
  <2>4. PoolInv(d) /\ PageInv(d, g)
    BY <1>0, <2>3 DEF PoolInv, PageInv
  <2>5. DscPages(d, g) = DscPages(h, g)
    BY <2>3 DEF DscPages
  <2>6. DscInv(d, g, 1)
    BY <1>1, <1>2, <1>3, <2>3, <2>5 DEF DscInv
  <2>7. ObjInv(d) /\ OwnerInv(d) /\ SortInv(d.used) /\ LiveOf(d, g) = LiveOf(h, g)
    BY <1>0, <2>3, SameLists
  <2> QED
    BY <2>2, <2>3, <2>4, <2>6, <2>7 DEF HeapInv, d
<1>5. CASE ~(h.avl > 0)
  <2> DEFINE q == Pop(h)
             p == Head(h.free)
  <2>1. h.avl = 0 /\ CanGrow(h)
    BY <1>1, <1>5 DEF CanDescribe, CanGrow
  <2>2. /\ q \in HeapType /\ PoolInv(q) /\ q.inuse = h.inuse \cup {p}
        /\ q.used = h.used /\ q.owner = h.owner
        /\ p \in PoolPages /\ p \notin h.inuse
    BY <1>0, <2>1, PopKeeps
  <2>3. d = [q EXCEPT !.avl = SlabNr - 1]
    BY <1>5 DEF Describe
  <2>4. SlabNr - 1 \in 0..SlabNr /\ SlabNr - 1 < SlabNr
    BY <1>1
  <2> HIDE DEF d, q, p
  <2>5. /\ d \in HeapType /\ d.free = q.free /\ d.inuse = q.inuse /\ d.used = q.used
        /\ d.owner = q.owner /\ d.avl = SlabNr - 1
    BY <2>2, <2>3, <2>4 DEF HeapType
  <2>6. PoolInv(d)
    BY <2>2, <2>5 DEF PoolInv
  <2>7. PageInv(d, g)
    BY <1>0, <2>2, <2>5 DEF PageInv
  <2>8. h.owner[p] = 0 /\ p \notin g
    BY <1>0, <2>2 DEF PageInv
  <2>9. DscPages(d, g) = DscPages(h, g) \cup {p} /\ p \notin DscPages(h, g)
    BY <2>2, <2>5, <2>8 DEF DscPages
  <2>10. Cardinality(DscPages(d, g)) = Cardinality(DscPages(h, g)) + 1
    BY <1>2, <2>9, FS_AddElement
  <2>11. DscInv(d, g, 1)
    <3> DEFINE n == Cardinality(DscPages(h, g))
    <3>1. SlabNr * (n + 1) = SlabNr * n + SlabNr /\ SlabNr * n \in Nat
      BY <1>1, <1>2
    <3> HIDE DEF n
    <3>2. d.avl + Len(d.used) + 1 = SlabNr * (n + 1)
      BY <1>1, <1>3, <2>1, <2>2, <2>5, <3>1 DEF n
    <3> QED
      BY <2>10, <3>2 DEF DscInv, n
  <2>12. ObjInv(d) /\ OwnerInv(d) /\ SortInv(d.used) /\ LiveOf(d, g) = LiveOf(h, g)
    BY <1>0, <2>2, <2>5, SameLists
  <2> QED
    BY <2>2, <2>4, <2>5, <2>6, <2>7, <2>11, <2>12 DEF HeapInv, d
<1> QED
  BY <1>4, <1>5

\* A cache that gets no page gives its descriptor back.
LEMMA GiveBackKeeps ==
  ASSUME NEW h \in HeapType, NEW g, HeapInv(h, g, 1), h.avl < SlabNr,
         NEW d, d = [h EXCEPT !.avl = @ + 1]
  PROVE  d \in HeapType /\ HeapInv(d, g, 0) /\ LiveOf(d, g) = LiveOf(h, g)
<1>0. PoolInv(h) /\ PageInv(h, g) /\ DscInv(h, g, 1) /\ SortInv(h.used) /\ ObjInv(h) /\ OwnerInv(h)
  BY DEF HeapInv
<1>1. h.avl \in 0..SlabNr /\ Len(h.used) \in Nat /\ SlabNr \in Nat \ {0}
  BY HeapAssumption, CachesType
<1>2. h.avl + 1 \in 0..SlabNr
  BY <1>1
<1>3. /\ d \in HeapType /\ d.free = h.free /\ d.inuse = h.inuse /\ d.used = h.used
      /\ d.owner = h.owner /\ d.avl = h.avl + 1
  BY <1>2 DEF HeapType
<1>4. PoolInv(d) /\ PageInv(d, g)
  BY <1>0, <1>3 DEF PoolInv, PageInv
<1>5. DscPages(d, g) = DscPages(h, g)
  BY <1>3 DEF DscPages
<1>6. DscInv(d, g, 0)
  BY <1>0, <1>1, <1>3, <1>5 DEF DscInv
<1>7. ObjInv(d) /\ OwnerInv(d) /\ SortInv(d.used) /\ LiveOf(d, g) = LiveOf(h, g)
  BY <1>0, <1>3, SameLists
<1> QED
  BY <1>3, <1>4, <1>6, <1>7 DEF HeapInv

\* The list after an insertion.
LEMMA InsertAtFields ==
  ASSUME NEW S, NEW s \in Seq(S), NEW i \in 1..(Len(s) + 1), NEW e \in S,
         NEW t, t = InsertAt(s, i, e)
  PROVE  /\ t \in Seq(S) /\ Len(t) = Len(s) + 1 /\ t[i] = e
         /\ \A j \in 1..Len(s) : j < i => t[j] = s[j]
         /\ \A j \in 1..Len(s) : j >= i => t[j + 1] = s[j]
<1> DEFINE a == SubSeq(s, 1, i - 1)
           b == SubSeq(s, i, Len(s))
           m == a \o <<e>>
<1>0. Len(s) \in Nat /\ i \in Nat /\ 1 <= i /\ i <= Len(s) + 1
  OBVIOUS
<1>1. a \in Seq(S) /\ Len(a) = i - 1 /\ \A j \in 1..(i - 1) : a[j] = s[j]
  BY <1>0
<1>2. /\ b \in Seq(S) /\ Len(b) = Len(s) + 1 - i
      /\ \A j \in 1..(Len(s) + 1 - i) : b[j] = s[i + j - 1]
  BY <1>0
<1>3. t = m \o b
  BY DEF InsertAt
<1> HIDE DEF a, b
<1>4. /\ m \in Seq(S) /\ Len(m) = i /\ m[i] = e
      /\ \A j \in 1..(i - 1) : m[j] = s[j]
  BY <1>0, <1>1
<1> HIDE DEF m
<1>5. /\ t \in Seq(S) /\ Len(t) = Len(s) + 1
      /\ \A j \in 1..i : t[j] = m[j]
      /\ \A j \in 1..(Len(s) + 1 - i) : t[i + j] = b[j]
  BY <1>0, <1>2, <1>3, <1>4
<1>6. t[i] = e /\ \A j \in 1..Len(s) : j < i => t[j] = s[j]
  BY <1>0, <1>4, <1>5
<1>7. ASSUME NEW j \in 1..Len(s), j >= i PROVE t[j + 1] = s[j]
  <2> DEFINE k == j + 1 - i
  <2>1. k \in 1..(Len(s) + 1 - i) /\ i + k = j + 1 /\ i + k - 1 = j
    BY <1>0, <1>7
  <2> HIDE DEF k
  <2> QED
    BY <1>2, <1>5, <2>1
<1> QED
  BY <1>5, <1>6, <1>7

\* Where slab_new stops: smaller caches are before it, larger ones behind.
LEMMA StopPlace ==
  ASSUME used \in Seq(CacheType), SortInv(used), NEW sz \in Nat, ~Found(sz),
         NEW at, at = IF used # <<>> /\ sz < used[Stop(sz)].sz THEN Stop(sz) ELSE Len(used) + 1
  PROVE  /\ at \in 1..(Len(used) + 1)
         /\ \A j \in 1..Len(used) : j < at => used[j].sz < sz
         /\ \A j \in 1..Len(used) : j >= at => sz < used[j].sz
<1> DEFINE n == Len(used)
           big == {i \in 1..n : used[i].sz >= sz}
<1>1. n \in Nat /\ (used # <<>> => n >= 1)
  OBVIOUS
<1>2. \A i \in 1..n : used[i].sz \in Nat
  <2>1. \A i \in 1..n : used[i] \in CacheType
    OBVIOUS
  <2>2. \A x \in CacheType : x.sz \in Nat
    BY HeapAssumption DEF CacheType
  <2> QED
    BY <2>1, <2>2
<1>3. \A i, j \in 1..n : i < j => used[i].sz < used[j].sz
  BY DEF SortInv
<1>4. CASE big = {}
  <2>1. \A i \in 1..n : used[i].sz < sz
    BY <1>2, <1>4
  <2>2. Stop(sz) = n
    BY <1>4 DEF Stop
  <2>3. at = n + 1
    BY <1>1, <1>2, <2>1, <2>2
  <2> QED
    BY <1>1, <2>1, <2>3
<1>5. CASE big # {}
  <2>1. big \in SUBSET Nat
    BY <1>1
  <2>2. \E x \in big : \A y \in big : x <= y
    BY <1>5, <2>1, LeastExists
  <2>3. Stop(sz) = CHOOSE i \in big : \A j \in big : i <= j
    BY <1>5 DEF Stop
  <2>4. Stop(sz) \in big /\ \A j \in big : Stop(sz) <= j
    BY <2>2, <2>3
  <2> DEFINE k == Stop(sz)
  <2> HIDE DEF k
  <2>5. k \in 1..n /\ used[k].sz >= sz /\ used # <<>>
    BY <1>1, <2>4 DEF k
  <2>6. used[k].sz # sz
    BY <2>5 DEF Found, k
  <2>7. sz < used[k].sz /\ at = k
    BY <1>2, <2>5, <2>6 DEF k
  <2>8. ASSUME NEW j \in 1..n, j < k PROVE used[j].sz < sz
    BY <1>1, <1>2, <2>4, <2>5, <2>8 DEF k
  <2>9. ASSUME NEW j \in 1..n, j >= k PROVE sz < used[j].sz
    BY <1>1, <1>2, <1>3, <2>5, <2>7, <2>9
  <2> QED
    BY <1>1, <2>5, <2>7, <2>8, <2>9
<1> QED
  BY <1>4, <1>5

\* slab_insert keeps the list sorted and uses the descriptor.
LEMMA InsertKeeps ==
  ASSUME NEW h \in HeapType, NEW g, HeapInv(h, g, 1), h.used = used,
         NEW sz \in 1..PageSize, ~Found(sz)
  PROVE  /\ Insert(h, sz) \in HeapType /\ HeapInv(Insert(h, sz), g, 0)
         /\ Insert(h, sz).free = h.free
         /\ \E c \in 1..Len(Insert(h, sz).used) :
              Insert(h, sz).used[c].sz = sz /\ Insert(h, sz).used[c].obj = <<>>
         /\ LiveOf(Insert(h, sz), g) = LiveOf(h, g)
<1> DEFINE at == IF h.used # <<>> /\ sz < h.used[Stop(sz)].sz THEN Stop(sz) ELSE Len(h.used) + 1
           n == Len(used)
           x == Cache(sz)
           t == InsertAt(used, at, x)
           d == Insert(h, sz)
<1>0. PoolInv(h) /\ PageInv(h, g) /\ DscInv(h, g, 1) /\ SortInv(h.used) /\ ObjInv(h) /\ OwnerInv(h)
  BY DEF HeapInv
<1>1. sz \in Nat /\ used \in Seq(CacheType) /\ n \in Nat /\ SortInv(used)
  BY <1>0, HeapAssumption, CachesType
<1>2. /\ at \in 1..(n + 1)
      /\ \A j \in 1..n : j < at => used[j].sz < sz
      /\ \A j \in 1..n : j >= at => sz < used[j].sz
  BY <1>1, StopPlace
<1>3. x \in CacheType /\ x.sz = sz /\ x.obj = <<>> /\ x.nr = 0
  <2>1. <<>> \in Seq(PoolPages \X Nat) /\ 0 \in Nat
    OBVIOUS
  <2> QED
    BY <2>1 DEF Cache, CacheType
<1>4. d = [h EXCEPT !.used = t]
  BY DEF Insert
<1> HIDE DEF at, x
<1>5. /\ t \in Seq(CacheType) /\ Len(t) = n + 1 /\ t[at] = x
      /\ \A j \in 1..n : j < at => t[j] = used[j]
      /\ \A j \in 1..n : j >= at => t[j + 1] = used[j]
  <2>1. at \in 1..(Len(used) + 1)
    BY <1>2
  <2>2. t = InsertAt(used, at, x)
    OBVIOUS
  <2> HIDE DEF t, n
  <2>3. /\ t \in Seq(CacheType) /\ Len(t) = Len(used) + 1 /\ t[at] = x
        /\ \A j \in 1..Len(used) : j < at => t[j] = used[j]
        /\ \A j \in 1..Len(used) : j >= at => t[j + 1] = used[j]
    <3>1. used \in Seq(CacheType) /\ x \in CacheType
      BY <1>1, <1>3
    <3>2. \A i \in 1..(Len(used) + 1) : \A e \in CacheType : \A y :
            y = InsertAt(used, i, e) =>
              /\ y \in Seq(CacheType) /\ Len(y) = Len(used) + 1 /\ y[i] = e
              /\ \A j \in 1..Len(used) : j < i => y[j] = used[j]
              /\ \A j \in 1..Len(used) : j >= i => y[j + 1] = used[j]
      BY <3>1, InsertAtFields
    <3>3. \A e \in CacheType : \A y :
            y = InsertAt(used, at, e) =>
              /\ y \in Seq(CacheType) /\ Len(y) = Len(used) + 1 /\ y[at] = e
              /\ \A j \in 1..Len(used) : j < at => y[j] = used[j]
              /\ \A j \in 1..Len(used) : j >= at => y[j + 1] = used[j]
      BY <2>1, <3>2
    <3>4. \A y :
            y = InsertAt(used, at, x) =>
              /\ y \in Seq(CacheType) /\ Len(y) = Len(used) + 1 /\ y[at] = x
              /\ \A j \in 1..Len(used) : j < at => y[j] = used[j]
              /\ \A j \in 1..Len(used) : j >= at => y[j + 1] = used[j]
      BY <3>1, <3>3
    <3> QED
      BY <2>2, <3>4
  <2> QED
    BY <2>3 DEF n
<1> HIDE DEF t, d
<1>6. /\ d \in HeapType /\ d.free = h.free /\ d.inuse = h.inuse /\ d.used = t
      /\ d.owner = h.owner /\ d.avl = h.avl
  BY <1>4, <1>5 DEF HeapType
<1>7. ASSUME NEW i \in 1..(n + 1)
      PROVE  \/ i < at /\ i \in 1..n /\ t[i] = used[i]
             \/ i = at /\ t[i] = x
             \/ i > at /\ i - 1 \in 1..n /\ i - 1 >= at /\ t[i] = used[i - 1]
  <2>1. CASE i < at
    BY <1>1, <1>2, <1>5, <2>1
  <2>2. CASE i = at
    BY <1>5, <2>2
  <2>3. CASE i > at
    <3> DEFINE k == i - 1
    <3>1. k \in 1..n /\ k >= at /\ k + 1 = i
      BY <1>1, <1>2, <2>3
    <3> HIDE DEF k
    <3>2. t[k + 1] = used[k]
      BY <1>5, <3>1
    <3> QED
      BY <2>3, <3>1, <3>2 DEF k
  <2> QED
    BY <1>1, <1>2, <2>1, <2>2, <2>3
<1>8. ASSUME NEW j \in 1..n PROVE \E i \in 1..(n + 1) : t[i] = used[j]
  <2>1. j \in 1..(n + 1) /\ j + 1 \in 1..(n + 1) /\ (j < at \/ j >= at)
    BY <1>1, <1>2
  <2> QED
    BY <1>5, <2>1
<1>9. PoolInv(d) /\ PageInv(d, g)
  BY <1>0, <1>6 DEF PoolInv, PageInv
<1>10. DscInv(d, g, 0)
  <2>1. DscPages(d, g) = DscPages(h, g)
    BY <1>6 DEF DscPages
  <2>2. h.avl \in Int
    BY CachesType, HeapAssumption
  <2> QED
    BY <1>0, <1>1, <1>5, <1>6, <2>1, <2>2 DEF DscInv
<1>11. \A i, j \in 1..n : i < j => used[i].sz < used[j].sz
  BY <1>1 DEF SortInv
<1>12. \A j \in 1..n : used[j].sz \in Nat /\ used[j].nr = Len(used[j].obj)
                       /\ ListInv(used[j], h.owner)
  <2>1. \A j \in 1..n : used[j].sz \in 1..PageSize
    BY CachesType
  <2>2. \A j \in 1..n : used[j].sz \in Nat
    BY <2>1, HeapAssumption
  <2> QED
    BY <1>0, <2>2 DEF SortInv, ObjInv
<1>13. SortInv(t)
  <2>1. ASSUME NEW i \in 1..(n + 1), NEW j \in 1..(n + 1), i < j PROVE t[i].sz < t[j].sz
    <3>1. CASE i < at /\ j < at
      <4>1. i \in 1..n /\ j \in 1..n /\ t[i] = used[i] /\ t[j] = used[j]
        BY <1>1, <1>2, <1>7, <3>1
      <4> QED
        BY <1>11, <2>1, <4>1
    <3>2. CASE i < at /\ j = at
      <4>1. i \in 1..n /\ t[i] = used[i] /\ t[j] = x
        BY <1>1, <1>2, <1>7, <3>2
      <4> QED
        BY <1>2, <1>3, <3>2, <4>1
    <3>3. CASE i < at /\ j > at
      <4>1. i \in 1..n /\ t[i] = used[i] /\ j - 1 \in 1..n /\ j - 1 >= at /\ t[j] = used[j - 1]
        BY <1>1, <1>2, <1>7, <3>3
      <4>2. used[i].sz < sz /\ sz < used[j - 1].sz
        BY <1>2, <3>3, <4>1
      <4> QED
        BY <1>1, <1>12, <4>1, <4>2
    <3>4. CASE i = at
      <4>1. t[i] = x /\ j - 1 \in 1..n /\ j - 1 >= at /\ t[j] = used[j - 1]
        BY <1>1, <1>2, <1>7, <2>1, <3>4
      <4> QED
        BY <1>2, <1>3, <4>1
    <3>5. CASE i > at
      <4>1. /\ i - 1 \in 1..n /\ t[i] = used[i - 1] /\ j - 1 \in 1..n
            /\ t[j] = used[j - 1] /\ i - 1 < j - 1
        BY <1>1, <1>2, <1>7, <2>1, <3>5
      <4> QED
        BY <1>11, <4>1
    <3> QED
      BY <1>1, <1>2, <2>1, <3>1, <3>2, <3>3, <3>4, <3>5
  <2>2. ASSUME NEW i \in 1..(n + 1) PROVE t[i].nr = Len(t[i].obj)
    <3>1. Len(x.obj) = x.nr
      BY <1>3
    <3>2. t[i] = x \/ \E j \in 1..n : t[i] = used[j]
      BY <1>7
    <3> QED
      BY <1>12, <3>1, <3>2
  <2> QED
    BY <1>5, <2>1, <2>2 DEF SortInv
<1>14. ObjInv(d)
  <2>1. ListInv(x, h.owner)
    BY <1>3 DEF ListInv
  <2>2. \A i \in 1..(n + 1) : ListInv(t[i], h.owner)
    BY <1>7, <1>12, <2>1
  <2> QED
    BY <1>5, <1>6, <2>2 DEF ObjInv
<1>15. OwnerInv(d)
  <2>1. SUFFICES ASSUME NEW p \in PoolPages, d.owner[p] # 0
                 PROVE  \E i \in 1..Len(d.used) : d.used[i].sz = d.owner[p]
    BY DEF OwnerInv
  <2>2. PICK j \in 1..n : used[j].sz = h.owner[p]
    BY <1>0, <1>6, <2>1 DEF OwnerInv
  <2> QED
    BY <1>5, <1>6, <1>8, <2>2
<1>16. HeapInv(d, g, 0)
  BY <1>6, <1>9, <1>10, <1>13, <1>14, <1>15 DEF HeapInv
<1>17. \A o : OnList(h, o) <=> OnList(d, o)
  <2>1. ASSUME NEW o, OnList(h, o) PROVE OnList(d, o)
    BY <1>5, <1>6, <1>8, <2>1 DEF OnList
  <2>2. ASSUME NEW o, OnList(d, o) PROVE OnList(h, o)
    <3>1. PICK i \in 1..(n + 1) : o \in ToSet(t[i].obj)
      BY <1>5, <1>6, <2>2 DEF OnList
    <3>2. ToSet(x.obj) = {}
      BY <1>3 DEF ToSet
    <3> QED
      BY <1>7, <3>1, <3>2 DEF OnList
  <2> QED
    BY <2>1, <2>2
<1>18. LiveOf(d, g) = LiveOf(h, g)
  <2>1. \A o : Busy(h, o) <=> Busy(d, o)
    BY <1>6, <1>17 DEF Busy
  <2> QED
    BY <1>6, <2>1, LiveSame
<1>19. at \in 1..Len(d.used) /\ d.used[at].sz = sz /\ d.used[at].obj = <<>>
  BY <1>2, <1>3, <1>5, <1>6
<1> QED
  BY <1>6, <1>16, <1>18, <1>19 DEF d

\* slab_new as a whole.
LEMMA CacheForKeeps ==
  ASSUME NEW h \in HeapType, NEW g, HeapInv(h, g, 0), h.used = used,
         NEW sz \in 1..PageSize, ~Found(sz)
  PROVE  /\ CacheFor(h, sz) \in HeapType /\ HeapInv(CacheFor(h, sz), g, 0)
         /\ LiveOf(CacheFor(h, sz), g) = LiveOf(h, g)
         /\ CanDescribe(h) /\ CanGrow(Describe(h)) =>
              \E c \in 1..Len(CacheFor(h, sz).used) : CacheFor(h, sz).used[c].sz = sz
<1> DEFINE d == Describe(h)
           e == CacheFor(h, sz)
<1>1. CASE ~CanDescribe(h)
  BY <1>1 DEF CacheFor
<1>2. CASE CanDescribe(h) /\ ~CanGrow(d)
  <2>1. d \in HeapType /\ HeapInv(d, g, 1) /\ d.avl < SlabNr /\ LiveOf(d, g) = LiveOf(h, g)
    BY <1>2, DescribeKeeps
  <2>2. e = [d EXCEPT !.avl = @ + 1]
    BY <1>2 DEF CacheFor
  <2> HIDE DEF d, e
  <2>3. e \in HeapType /\ HeapInv(e, g, 0) /\ LiveOf(e, g) = LiveOf(d, g)
    BY <2>1, <2>2, GiveBackKeeps
  <2> QED
    BY <1>2, <2>1, <2>3 DEF d, e
<1>3. CASE CanDescribe(h) /\ CanGrow(d)
  <2> DEFINE i == Insert(d, sz)
             c == CHOOSE k \in 1..Len(i.used) : i.used[k].sz = sz /\ i.used[k].obj = <<>>
  <2>1. d \in HeapType /\ HeapInv(d, g, 1) /\ d.used = h.used /\ LiveOf(d, g) = LiveOf(h, g)
    BY <1>3, DescribeKeeps
  <2>2. e = Grow(i, c)
    BY <1>3 DEF CacheFor
  <2> HIDE DEF e
  <2>3. /\ i \in HeapType /\ HeapInv(i, g, 0) /\ i.free = d.free
        /\ \E k \in 1..Len(i.used) : i.used[k].sz = sz /\ i.used[k].obj = <<>>
        /\ LiveOf(i, g) = LiveOf(d, g)
    BY <2>1, InsertKeeps
  <2> HIDE DEF i
  <2>4. c \in 1..Len(i.used) /\ i.used[c].sz = sz
    BY <2>3
  <2> HIDE DEF c
  <2>5. CanGrow(i)
    BY <1>3, <2>3 DEF CanGrow
  <2>6. /\ e \in HeapType /\ HeapInv(e, g, 0) /\ Len(e.used) = Len(i.used)
        /\ e.used[c].sz = sz /\ LiveOf(e, g) = LiveOf(i, g)
    BY <2>2, <2>3, <2>4, <2>5, GrowKeeps
  <2> QED
    BY <2>1, <2>3, <2>4, <2>6 DEF e
<1> QED
  BY <1>1, <1>2, <1>3

(***************************************************************************)
(* A list that gains or loses one object: free and malloc.                 *)
(***************************************************************************)

\* The owner of an object's page says which list it may be on.
LEMMA OneList ==
  ASSUME NEW h \in HeapType, NEW g, NEW made, HeapInv(h, g, made),
         NEW i \in 1..Len(h.used), NEW o \in ToSet(h.used[i].obj)
  PROVE  /\ o \in PoolPages \X Nat /\ h.owner[o[1]] = h.used[i].sz
         /\ IsObject(o, h.used[i].sz)
         /\ \A c \in 1..Len(h.used) : h.used[c].sz = h.owner[o[1]] => c = i
<1>1. /\ h.used[i].obj \in Seq(PoolPages \X Nat) /\ Len(h.used) \in Nat
      /\ \A j \in 1..Len(h.used) : h.used[j].sz \in 1..PageSize
  BY CachesType
<1>2. PICK k \in 1..Len(h.used[i].obj) : h.used[i].obj[k] = o
  BY <1>1, ToSetMember
<1>3. o \in PoolPages \X Nat
  BY <1>1, <1>2
<1>4. h.owner[o[1]] = h.used[i].sz /\ IsObject(o, h.used[i].sz)
  BY <1>2 DEF HeapInv, ObjInv, ListInv
<1>5. ASSUME NEW c \in 1..Len(h.used), h.used[c].sz = h.owner[o[1]] PROVE c = i
  <2>1. \A a, b \in 1..Len(h.used) : a < b => h.used[a].sz < h.used[b].sz
    BY DEF HeapInv, SortInv
  <2>2. h.used[c].sz = h.used[i].sz /\ h.used[i].sz \in Int
    BY <1>1, <1>4, <1>5, HeapAssumption
  <2>3. ~(c < i) /\ ~(i < c)
    BY <2>1, <2>2
  <2> QED
    BY <1>1, <2>3
<1> QED
  BY <1>3, <1>4, <1>5

\* One list replaced by another of the same cache.
LEMMA UpdateKeeps ==
  ASSUME NEW h \in HeapType, NEW g, HeapInv(h, g, 0), NEW c \in 1..Len(h.used),
         NEW y \in CacheType, y.sz = h.used[c].sz, y.nr = Len(y.obj), ListInv(y, h.owner),
         NEW d \in HeapType, d.free = h.free, d.inuse = h.inuse, d.avl = h.avl,
         d.owner = h.owner, Len(d.used) = Len(h.used), d.used[c] = y,
         \A i \in 1..Len(h.used) : i # c => d.used[i] = h.used[i]
  PROVE  HeapInv(d, g, 0)
<1>0. PoolInv(h) /\ PageInv(h, g) /\ DscInv(h, g, 0) /\ SortInv(h.used) /\ ObjInv(h) /\ OwnerInv(h)
  BY DEF HeapInv
<1>1. \A i \in 1..Len(h.used) : d.used[i].sz = h.used[i].sz
  OBVIOUS
<1>2. PoolInv(d) /\ PageInv(d, g)
  BY <1>0 DEF PoolInv, PageInv
<1>3. DscInv(d, g, 0)
  BY <1>0 DEF DscInv, DscPages
<1>4. SortInv(d.used)
  <2>1. \A i, j \in 1..Len(d.used) : i < j => d.used[i].sz < d.used[j].sz
    BY <1>0, <1>1 DEF SortInv
  <2>2. \A i \in 1..Len(d.used) : d.used[i].nr = Len(d.used[i].obj)
    BY <1>0 DEF SortInv
  <2> QED
    BY <2>1, <2>2 DEF SortInv
<1>5. ObjInv(d)
  BY <1>0 DEF ObjInv
<1>6. OwnerInv(d)
  BY <1>0, <1>1 DEF OwnerInv
<1> QED
  BY <1>2, <1>3, <1>4, <1>5, <1>6 DEF HeapInv

BlockAt(h, o) == [page |-> o[1], off |-> o[2], len |-> h.owner[o[1]]]

\* malloc takes the first object off a list: it becomes busy, and no other.
LEMMA DrainKeeps ==
  ASSUME NEW h \in HeapType, NEW g, HeapInv(h, g, 0), NEW c \in 1..Len(h.used),
         h.used[c].obj # <<>>, NEW d, d = [h EXCEPT !.used[c] = Drain(@)],
         NEW o, o = Head(h.used[c].obj)
  PROVE  /\ d \in HeapType /\ HeapInv(d, g, 0)
         /\ o \in PoolPages \X Nat /\ h.owner[o[1]] = h.used[c].sz
         /\ IsObject(o, h.owner[o[1]]) /\ ~Busy(h, o)
         /\ LiveOf(d, g) = LiveOf(h, g) \cup {BlockAt(h, o)}
<1> DEFINE x == h.used[c]
           y == Drain(x)
<1>1. x \in CacheType /\ x.obj \in Seq(PoolPages \X Nat)
  BY CachesType
<1>2. x.nr = Len(x.obj) /\ ListInv(x, h.owner) /\ Once(x.obj)
  BY DEF HeapInv, SortInv, ObjInv, ListInv, Once
<1>3. /\ y \in CacheType /\ y.sz = x.sz /\ y.obj = Tail(x.obj) /\ y.nr = x.nr - 1
  <2>1. <<>> \in Seq(PoolPages \X Nat)
    OBVIOUS
  <2> QED
    BY <1>1, <1>2, <2>1, CacheFields
<1>4. /\ Tail(x.obj) \in Seq(PoolPages \X Nat) /\ Len(Tail(x.obj)) = Len(x.obj) - 1
      /\ Once(Tail(x.obj)) /\ o \in ToSet(x.obj)
      /\ ToSet(Tail(x.obj)) = ToSet(x.obj) \ {o}
      /\ \A k \in 1..Len(Tail(x.obj)) : Tail(x.obj)[k] = x.obj[k + 1]
  BY <1>1, <1>2, TailOnce
<1>5. d = [h EXCEPT !.used[c] = y]
  OBVIOUS
<1> HIDE DEF y
<1>6. ListInv(y, h.owner)
  <2>1. \A k \in 1..Len(x.obj) : h.owner[x.obj[k][1]] = x.sz /\ IsObject(x.obj[k], x.sz)
    BY <1>2 DEF ListInv
  <2>2. \A k \in 1..Len(y.obj) : k + 1 \in 1..Len(x.obj) /\ y.obj[k] = x.obj[k + 1]
    BY <1>1, <1>3, <1>4
  <2>3. \A k \in 1..Len(y.obj) : h.owner[y.obj[k][1]] = y.sz /\ IsObject(y.obj[k], y.sz)
    BY <1>3, <2>1, <2>2
  <2> QED
    BY <1>3, <1>4, <2>3 DEF ListInv, Once
<1>7. y.nr = Len(y.obj)
  BY <1>2, <1>3, <1>4
<1>8. /\ d \in HeapType /\ HeapInv(d, g, 0) /\ d.owner = h.owner
      /\ Len(d.used) = Len(h.used) /\ d.used[c] = y
      /\ \A i \in 1..Len(h.used) : i # c => d.used[i] = h.used[i]
  <2>1. h.used \in Seq(CacheType)
    BY CachesType
  <2>2. [h.used EXCEPT ![c] = y] \in Seq(CacheType)
    BY <1>3, <2>1
  <2>3. /\ d \in HeapType /\ d.free = h.free /\ d.inuse = h.inuse /\ d.avl = h.avl
        /\ d.owner = h.owner /\ d.used = [h.used EXCEPT ![c] = y]
    BY <1>5, <2>2 DEF HeapType
  <2>4. /\ Len(d.used) = Len(h.used) /\ d.used[c] = y
        /\ \A i \in 1..Len(h.used) : i # c => d.used[i] = h.used[i]
    BY <2>1, <2>3
  <2> QED
    BY <1>3, <1>6, <1>7, <2>3, <2>4, UpdateKeeps
<1>9. /\ o \in PoolPages \X Nat /\ h.owner[o[1]] = x.sz /\ IsObject(o, x.sz)
      /\ \A i \in 1..Len(h.used) : o \in ToSet(h.used[i].obj) => i = c
  BY <1>4, OneList
<1>10. OnList(h, o) /\ x.sz # 0
  <2>1. x.sz \in 1..PageSize
    BY CachesType
  <2> QED
    BY <1>4, <2>1 DEF OnList
<1>11. ASSUME NEW q PROVE OnList(d, q) <=> OnList(h, q) /\ q # o
  <2>1. \A i \in 1..Len(h.used) :
           q \in ToSet(d.used[i].obj) <=> q \in ToSet(h.used[i].obj) /\ q # o
    BY <1>3, <1>4, <1>8, <1>9
  <2> QED
    BY <1>8, <2>1 DEF OnList
<1>12. ASSUME NEW q PROVE Busy(d, q) <=> Busy(h, q) \/ q = o
  BY <1>8, <1>9, <1>10, <1>11 DEF Busy
<1>13. \A q : BlockAt(d, q) = BlockAt(h, q)
  BY <1>8 DEF BlockAt
<1>14. LiveOf(d, g) = LiveOf(h, g) \cup {BlockAt(h, o)}
  <2> DEFINE V(z) == {BlockAt(z, q) : q \in {w \in PoolPages \X Nat : Busy(z, w)}}
             P == {[page |-> p, off |-> 0, len |-> PageSize] : p \in g}
  <2>1. LiveOf(d, g) = P \cup V(d) /\ LiveOf(h, g) = P \cup V(h)
    BY DEF LiveOf, BlockAt
  <2>2. V(d) = V(h) \cup {BlockAt(h, o)}
    BY <1>9, <1>12, <1>13
  <2> HIDE DEF V, P
  <2> QED
    BY <2>1, <2>2
<1> QED
  BY <1>8, <1>9, <1>10, <1>14 DEF Busy

\* free puts an object at the end of its list: it is busy before, and not
\* afterwards.
LEMMA FillKeeps ==
  ASSUME NEW h \in HeapType, NEW g, HeapInv(h, g, 0), NEW c \in 1..Len(h.used),
         NEW o \in PoolPages \X Nat, h.owner[o[1]] = h.used[c].sz,
         IsObject(o, h.used[c].sz), o \notin ToSet(h.used[c].obj),
         NEW d \in HeapType, d.free = h.free, d.inuse = h.inuse, d.avl = h.avl,
         d.owner = h.owner, Len(d.used) = Len(h.used),
         d.used[c] = Fill(h.used[c], <<o>>),
         \A i \in 1..Len(h.used) : i # c => d.used[i] = h.used[i]
  PROVE  /\ HeapInv(d, g, 0)
         /\ BlockAt(h, o) \in LiveOf(h, g) /\ LiveOf(d, g) = LiveOf(h, g) \ {BlockAt(h, o)}
<1> DEFINE x == h.used[c]
           y == Fill(x, <<o>>)
           one == <<o>>
<1>1. x \in CacheType /\ x.obj \in Seq(PoolPages \X Nat)
  BY CachesType
<1>2. x.nr = Len(x.obj) /\ ListInv(x, h.owner) /\ Once(x.obj)
  BY DEF HeapInv, SortInv, ObjInv, ListInv, Once
<1>3. one \in Seq(PoolPages \X Nat) /\ Len(one) = 1 /\ ToSet(one) = {o} /\ Once(one)
  BY DEF ToSet, Once
<1> HIDE DEF one
<1>4. y \in CacheType /\ y.sz = x.sz /\ y.obj = x.obj \o one /\ y.nr = x.nr + Len(one)
  <2>1. y = Fill(x, one)
    BY DEF one
  <2> HIDE DEF x, y
  <2> QED
    BY <1>1, <1>3, <2>1, CacheFields
<1> HIDE DEF y
<1>5. /\ y.obj \in Seq(PoolPages \X Nat) /\ Len(y.obj) = Len(x.obj) + 1
      /\ Once(y.obj) /\ ToSet(y.obj) = ToSet(x.obj) \cup {o}
  <2>1. ToSet(x.obj) \cap ToSet(one) = {}
    BY <1>3
  <2>2. one \in Seq(PoolPages \X Nat) /\ Once(one)
    BY <1>3
  <2> HIDE DEF x
  <2>3. /\ x.obj \o one \in Seq(PoolPages \X Nat)
        /\ Len(x.obj \o one) = Len(x.obj) + Len(one) /\ Once(x.obj \o one)
        /\ ToSet(x.obj \o one) = ToSet(x.obj) \cup ToSet(one)
    BY <1>1, <1>2, <2>1, <2>2, ConcatOnce
  <2> QED
    BY <1>3, <1>4, <2>3
<1>6. ListInv(y, h.owner)
  <2>1. \A q \in ToSet(x.obj) : h.owner[q[1]] = x.sz /\ IsObject(q, x.sz)
    BY OneList, Zenon
  <2>2. \A q \in ToSet(y.obj) : h.owner[q[1]] = x.sz /\ IsObject(q, x.sz)
    BY <1>5, <2>1
  <2>3. \A k \in 1..Len(y.obj) : y.obj[k] \in ToSet(y.obj)
    BY <1>5, ToSetMember
  <2> QED
    BY <1>4, <1>5, <2>2, <2>3 DEF ListInv, Once
<1>7. y.nr = Len(y.obj) /\ d.used[c] = y
  BY <1>2, <1>3, <1>4, <1>5 DEF y
<1>8. HeapInv(d, g, 0)
  BY <1>4, <1>6, <1>7, UpdateKeeps
<1>9. \A i \in 1..Len(h.used) : o \notin ToSet(h.used[i].obj)
  <2>1. SUFFICES ASSUME NEW i \in 1..Len(h.used), o \in ToSet(h.used[i].obj) PROVE FALSE
    OBVIOUS
  <2>2. c = i
    BY <2>1, OneList
  <2> QED
    BY <2>1, <2>2
<1>10. x.sz # 0
  <2>1. x.sz \in 1..PageSize
    BY CachesType
  <2> QED
    BY <2>1
<1>11. Busy(h, o)
  BY <1>9, <1>10 DEF Busy, OnList
<1>12. ASSUME NEW q PROVE OnList(d, q) <=> OnList(h, q) \/ q = o
  <2>1. \A i \in 1..Len(h.used) : q \in ToSet(h.used[i].obj) => q \in ToSet(d.used[i].obj)
    BY <1>5, <1>7
  <2>2. \A i \in 1..Len(h.used) :
           q \in ToSet(d.used[i].obj) => q \in ToSet(h.used[i].obj) \/ q = o
    BY <1>5, <1>7
  <2>3. o \in ToSet(d.used[c].obj)
    BY <1>5, <1>7
  <2> QED
    BY <2>1, <2>2, <2>3 DEF OnList
<1>13. ASSUME NEW q PROVE Busy(d, q) <=> Busy(h, q) /\ q # o
  BY <1>12 DEF Busy
<1>14. \A q : BlockAt(d, q) = BlockAt(h, q)
  BY DEF BlockAt
<1>15. \A q \in PoolPages \X Nat : BlockAt(h, q) = BlockAt(h, o) => q = o
  <2>1. TAKE q \in PoolPages \X Nat
  <2>2. BlockAt(h, q).page = q[1] /\ BlockAt(h, q).off = q[2]
    BY DEF BlockAt
  <2>3. BlockAt(h, o).page = o[1] /\ BlockAt(h, o).off = o[2]
    BY DEF BlockAt
  <2> QED
    BY <2>2, <2>3
<1> DEFINE V(z) == {BlockAt(z, q) : q \in {w \in PoolPages \X Nat : Busy(z, w)}}
           P == {[page |-> p, off |-> 0, len |-> PageSize] : p \in g}
<1>16. LiveOf(d, g) = P \cup V(d) /\ LiveOf(h, g) = P \cup V(h)
  BY DEF LiveOf, BlockAt
<1>17. BlockAt(h, o) \notin P
  <2>1. SUFFICES ASSUME NEW p \in g, BlockAt(h, o) = [page |-> p, off |-> 0, len |-> PageSize]
                 PROVE  FALSE
    OBVIOUS
  <2>2. BlockAt(h, o).page = o[1]
    BY DEF BlockAt
  <2>3. p = o[1]
    BY <2>1, <2>2
  <2> QED
    BY <2>3, <1>10 DEF HeapInv, PageInv
<1>18. V(d) = V(h) \ {BlockAt(h, o)} /\ BlockAt(h, o) \in V(h)
  BY <1>11, <1>13, <1>14, <1>15
<1> HIDE DEF V, P
<1> QED
  BY <1>8, <1>16, <1>17, <1>18

(***************************************************************************)
(* Blocks do not overlap.                                                  *)
(***************************************************************************)

\* The blocks in use are on pages that are in use.
LEMMA LivePages ==
  ASSUME NEW h \in HeapType, NEW g, NEW made, HeapInv(h, g, made), NEW b \in LiveOf(h, g)
  PROVE  \/ \E p \in g : b = [page |-> p, off |-> 0, len |-> PageSize]
         \/ \E o \in PoolPages \X Nat : Busy(h, o) /\ b = BlockAt(h, o)
BY DEF LiveOf, BlockAt

\* An object that is not busy shares no byte with a block in use, ...
LEMMA ObjectApart ==
  ASSUME NEW h \in HeapType, NEW g, NEW made, HeapInv(h, g, made),
         NEW o \in PoolPages \X Nat, h.owner[o[1]] # 0, IsObject(o, h.owner[o[1]]),
         ~Busy(h, o), NEW b \in LiveOf(h, g)
  PROVE  Promise!Bytes(BlockAt(h, o)) \cap Promise!Bytes(b) = {}
<1> DEFINE a == BlockAt(h, o)
           sz == h.owner[o[1]]
<1>1. a.page = o[1] /\ a.off = o[2] /\ a.len = sz
  BY DEF BlockAt
<1>2. ASSUME a.page # b.page PROVE Promise!Bytes(a) \cap Promise!Bytes(b) = {}
  BY <1>2 DEF Promise!Bytes
<1>3. sz \in 1..PageSize /\ sz \in Nat \ {0} /\ PageSize \in Nat
  BY CachesType, HeapAssumption
<1>4. CASE \E p \in g : b = [page |-> p, off |-> 0, len |-> PageSize]
  <2>1. PICK p \in g : b = [page |-> p, off |-> 0, len |-> PageSize]
    BY <1>4
  <2>2. h.owner[p] = 0 /\ b.page = p
    BY <2>1 DEF HeapInv, PageInv
  <2> QED
    BY <1>1, <1>2, <2>2
<1>5. CASE \E q \in PoolPages \X Nat : Busy(h, q) /\ b = BlockAt(h, q)
  <2>1. PICK q \in PoolPages \X Nat : Busy(h, q) /\ b = BlockAt(h, q)
    BY <1>5
  <2>2. b.page = q[1] /\ b.off = q[2] /\ b.len = h.owner[q[1]]
    BY <2>1 DEF BlockAt
  <2>3. CASE q[1] # o[1]
    BY <1>1, <1>2, <2>2, <2>3
  <2>4. CASE q[1] = o[1]
    <3>1. b.len = sz /\ IsObject(q, sz) /\ q # o
      BY <2>1, <2>2, <2>4 DEF Busy
    <3>2. q[2] # o[2]
      BY <2>4, <3>1
    <3>3. PICK m \in 1..(PageSize \div sz) : o[2] = (m - 1) * sz
      BY DEF IsObject
    <3>4. PICK n \in 1..(PageSize \div sz) : q[2] = (n - 1) * sz
      BY <3>1 DEF IsObject
    <3>5. m \in Nat /\ n \in Nat /\ m # n
      <4>1. PageSize \div sz \in Nat
        BY <1>3, PageHolds
      <4> QED
        BY <3>2, <3>3, <3>4, <4>1
    <3> HIDE DEF a, sz
    <3>6. o[2] + sz <= q[2] \/ q[2] + sz <= o[2]
      <4>1. CASE m < n
        BY <4>1, <1>3, <3>3, <3>4, <3>5, ObjectsApart
      <4>2. CASE n < m
        BY <4>2, <1>3, <3>3, <3>4, <3>5, ObjectsApart
      <4> QED
        BY <3>5, <4>1, <4>2
    <3>7. o[2] \in Nat /\ q[2] \in Nat
      OBVIOUS
    <3>8. (o[2]..(o[2] + sz - 1)) \cap (q[2]..(q[2] + sz - 1)) = {}
      BY <1>3, <3>6, <3>7
    <3>9. \A z \in Promise!Bytes(a) : \E k \in o[2]..(o[2] + sz - 1) : z = <<o[1], k>>
      BY <1>1 DEF Promise!Bytes
    <3>10. \A z \in Promise!Bytes(b) : \E k \in q[2]..(q[2] + sz - 1) : z = <<q[1], k>>
      BY <2>2, <3>1 DEF Promise!Bytes
    <3> QED
      BY <3>8, <3>9, <3>10 DEF a
  <2> QED
    BY <2>3, <2>4
<1> QED
  BY <1>4, <1>5, LivePages

\* ... and neither does a free page.
LEMMA FreePageApart ==
  ASSUME NEW h \in HeapType, NEW g, HeapInv(h, g, 0), NEW p \in PoolPages, p \notin h.inuse,
         NEW a, a = [page |-> p, off |-> 0, len |-> PageSize], NEW b \in LiveOf(h, g)
  PROVE  Promise!Bytes(a) \cap Promise!Bytes(b) = {}
<1>1. p \notin g /\ h.owner[p] = 0
  BY DEF HeapInv, PageInv
<1>2. b.page # p
  <2>1. CASE \E q \in g : b = [page |-> q, off |-> 0, len |-> PageSize]
    BY <1>1, <2>1
  <2>2. CASE \E o \in PoolPages \X Nat : Busy(h, o) /\ b = BlockAt(h, o)
    BY <1>1, <2>2 DEF Busy, BlockAt
  <2> QED
    BY <2>1, <2>2, LivePages
<1>3. a.page = p
  OBVIOUS
<1> QED
  BY <1>2, <1>3 DEF Promise!Bytes

(***************************************************************************)
(* The actions.                                                            *)
(***************************************************************************)
LEMMA LiveNow == TypeOK => Live = LiveOf(Heap, given)
BY LiveIsLiveOf

LEMMA LiveNext == TypeOK' => Live' = LiveOf(Heap', given')
<1>1. (TypeOK => Live = LiveOf(Heap, given))'
  BY LiveNow, PTL
<1> QED
  BY <1>1

\* What an operation leaves behind is the heap of the next state.
LEMMA BecomesHeap ==
  ASSUME NEW h \in HeapType, Becomes(h)
  PROVE  Heap' = h
BY DEF Becomes, Heap, HeapType

\* A refused request leaves every block alone.
LEMMA RefuseStep ==
  ASSUME TypeOK, NEW h \in HeapType, HeapInv(h, given, 0),
         LiveOf(h, given) = LiveOf(Heap, given),
         Heap' = h, given' = given, ret' = Null
  PROVE  IInv' /\ Promise!ANext
<1>1. TypeOK'
  BY DEF TypeOK
<1>2. IInv'
  BY <1>1 DEF IInv
<1>3. Live' = Live
  BY <1>1, LiveNow, LiveNext
<1> QED
  BY <1>2, <1>3 DEF Promise!ANext, Promise!Refuse

\* The first object of a list is granted.
LEMMA TakeStep ==
  ASSUME TypeOK, NEW h \in HeapType, HeapInv(h, given, 0),
         LiveOf(h, given) = LiveOf(Heap, given), NEW c \in 1..Len(h.used),
         h.used[c].obj # <<>>, Take(h, c), given' = given
  PROVE  IInv' /\ Promise!ANext
<1> DEFINE d == [h EXCEPT !.used[c] = Drain(@)]
           o == Head(h.used[c].obj)
           b == BlockAt(h, o)
<1>1. /\ d \in HeapType /\ HeapInv(d, given, 0)
      /\ o \in PoolPages \X Nat /\ h.owner[o[1]] = h.used[c].sz
      /\ IsObject(o, h.owner[o[1]]) /\ ~Busy(h, o)
      /\ LiveOf(d, given) = LiveOf(h, given) \cup {b}
  BY DrainKeeps
<1>2. Becomes(d) /\ ret' = [page |-> o[1], off |-> o[2], len |-> h.used[c].sz]
  BY DEF Take
<1> HIDE DEF d, o
<1>3. Heap' = d
  BY <1>1, <1>2, BecomesHeap
<1>4. TypeOK'
  BY <1>1, <1>3 DEF TypeOK
<1>5. IInv'
  BY <1>1, <1>3, <1>4 DEF IInv
<1>6. ret' = b
  BY <1>1, <1>2 DEF BlockAt
<1>7. Live' = Live \cup {b} /\ Live = LiveOf(h, given)
  BY <1>1, <1>3, <1>4, LiveNow, LiveNext
<1> DEFINE sz == h.used[c].sz
<1>8. sz \in 1..PageSize /\ sz # 0 /\ PageSize \in Nat
  <2>1. sz \in 1..PageSize
    BY CachesType
  <2> QED
    BY <2>1, HeapAssumption
<1>9. \A l \in Live : Promise!Bytes(b) \cap Promise!Bytes(l) = {}
  BY <1>1, <1>7, <1>8, ObjectApart
<1>10. b.page = o[1] /\ b.off = o[2] /\ b.len = sz
  BY <1>1 DEF BlockAt
<1>11. o[2] \in Nat /\ o[2] + sz <= PageSize
  <2>1. PICK m \in 1..(PageSize \div sz) : o[2] = (m - 1) * sz
    BY <1>1 DEF IsObject
  <2> HIDE DEF sz
  <2> QED
    BY <1>8, <2>1, ObjectFits
<1>12. b \in Promise!Block /\ b.off + b.len <= PageSize
  <2>1. o[1] \in PoolPages /\ o[2] \in 0..(PageSize - 1) /\ sz \in 1..PageSize
    BY <1>1, <1>8, <1>11
  <2>2. b = [page |-> o[1], off |-> o[2], len |-> sz]
    BY <1>1 DEF BlockAt
  <2> HIDE DEF b, sz
  <2> QED
    BY <1>8, <1>10, <1>11, <2>1, <2>2 DEF Promise!Block
<1> HIDE DEF b
<1>13. Promise!Grant(b)
  BY <1>6, <1>7, <1>9, <1>12 DEF Promise!Grant
<1> QED
  BY <1>5, <1>12, <1>13 DEF Promise!ANext

\* malloc: no page for a new cache, a free object, a cache that grows, or
\* no page to grow by.
LEMMA MallocStep ==
  ASSUME IInv, NEW asz \in Asked, Malloc(asz)
  PROVE  IInv' /\ Promise!ANext
<1> DEFINE sz == SlabSize(asz)
           h == IF Found(sz) \/ asz > PageSize \div 2 THEN Heap ELSE CacheFor(Heap, sz)
           c == CHOOSE i \in 1..Len(h.used) : h.used[i].sz = sz
<1>1. /\ TypeOK /\ Heap \in HeapType /\ HeapInv(Heap, given, 0) /\ Heap.used = used
      /\ given' = given
  BY DEF IInv, TypeOK, Heap, Malloc
<1>2. asz \in Nat /\ PageSize \in Nat \ {0}
  BY HeapAssumption
<1>3. asz <= PageSize \div 2 => sz \in 1..PageSize
  <2>1. PageSize \div 2 <= PageSize
    BY <1>2
  <2>2. asz <= PageSize \div 2 => asz <= PageSize
    BY <1>2, <2>1
  <2> QED
    BY <1>2, <2>2 DEF SlabSize
<1>4. asz > PageSize \div 2 \/ asz <= PageSize \div 2
  <2>1. PageSize \div 2 \in Nat
    BY <1>2
  <2> QED
    BY <1>2, <2>1
<1>5. /\ h \in HeapType /\ HeapInv(h, given, 0) /\ LiveOf(h, given) = LiveOf(Heap, given)
  <2>1. CASE Found(sz) \/ asz > PageSize \div 2
    BY <1>1, <2>1
  <2>2. CASE ~(Found(sz) \/ asz > PageSize \div 2)
    <3>1. sz \in 1..PageSize /\ ~Found(sz) /\ h = CacheFor(Heap, sz)
      BY <1>3, <1>4, <2>2
    <3> HIDE DEF sz, h
    <3> QED
      BY <1>1, <3>1, CacheForKeeps
  <2> QED
    BY <2>1, <2>2
<1>6. Found(sz) \/ CanCache(Heap, asz) => \E i \in 1..Len(h.used) : h.used[i].sz = sz
  <2>1. CASE Found(sz)
    <3>1. used # <<>> /\ used[Stop(sz)].sz = sz /\ h = Heap
      BY <2>1 DEF Found
    <3>2. Stop(sz) \in 1..Len(used)
      <4> DEFINE big == {i \in 1..Len(used) : used[i].sz >= sz}
      <4>1. Len(used) \in Nat /\ Len(used) >= 1
        BY <1>1, <3>1, CachesType
      <4>2. CASE big = {}
        BY <4>1, <4>2 DEF Stop
      <4>3. CASE big # {}
        <5>1. big \in SUBSET Nat
          BY <4>1
        <5>2. \E i \in big : \A j \in big : i <= j
          BY <4>3, <5>1, LeastExists
        <5>3. Stop(sz) = CHOOSE i \in big : \A j \in big : i <= j
          BY <4>3 DEF Stop
        <5>4. Stop(sz) \in big
          BY <5>2, <5>3
        <5> QED
          BY <5>4
      <4> QED
        BY <4>2, <4>3
    <3> QED
      BY <1>1, <3>1, <3>2
  <2>2. CASE ~Found(sz) /\ CanCache(Heap, asz)
    <3>1. /\ asz <= PageSize \div 2 /\ CanDescribe(Heap) /\ CanGrow(Describe(Heap))
      BY <2>2 DEF CanCache
    <3>2. ~(asz > PageSize \div 2)
      BY <1>2, <3>1
    <3>3. sz \in 1..PageSize /\ ~Found(sz) /\ h = CacheFor(Heap, sz)
      BY <1>3, <2>2, <3>1, <3>2
    <3> HIDE DEF sz, h
    <3> QED
      BY <1>1, <3>1, <3>3, CacheForKeeps
  <2> QED
    BY <2>1, <2>2
<1>7. \/ Refused(h)
      \/ /\ Found(sz) \/ CanCache(Heap, asz)
         /\ h.used[c].obj # <<>> /\ Take(h, c)
      \/ /\ Found(sz) \/ CanCache(Heap, asz)
         /\ CanGrow(h) /\ Take(Grow(h, c), c)
  BY DEF Malloc
<1> HIDE DEF h
<1>8. CASE Refused(h)
  <2>1. Heap' = h /\ ret' = Null
    BY <1>5, <1>8, BecomesHeap DEF Refused
  <2> QED
    BY <1>1, <1>5, <2>1, RefuseStep
<1>9. ASSUME Found(sz) \/ CanCache(Heap, asz) PROVE c \in 1..Len(h.used)
  BY <1>6, <1>9
<1> HIDE DEF c
<1>10. CASE (Found(sz) \/ CanCache(Heap, asz)) /\ h.used[c].obj # <<>> /\ Take(h, c)
  BY <1>1, <1>5, <1>9, <1>10, TakeStep
<1>11. CASE (Found(sz) \/ CanCache(Heap, asz)) /\ CanGrow(h) /\ Take(Grow(h, c), c)
  <2> DEFINE e == Grow(h, c)
  <2>1. c \in 1..Len(h.used)
    BY <1>9, <1>11
  <2>2. /\ e \in HeapType /\ HeapInv(e, given, 0) /\ Len(e.used) = Len(h.used)
        /\ e.used[c].obj # <<>> /\ LiveOf(e, given) = LiveOf(h, given)
    BY <1>5, <1>11, <2>1, GrowKeeps
  <2>3. Take(e, c)
    BY <1>11
  <2> HIDE DEF e
  <2> QED
    BY <1>1, <1>5, <2>1, <2>2, <2>3, TakeStep
<1> QED
  BY <1>7, <1>8, <1>10, <1>11

\* free of an object: taken back, or ignored when it is free already or its
\* page is no cache's.
LEMMA FreeStep ==
  ASSUME IInv, NEW p \in PoolPages, NEW off \in Nat, Free(p, off),
         owner[p] = 0 \/ IsObject(Obj(p, off), owner[p])
  PROVE  IInv' /\ Promise!ANext
<1> DEFINE o == Obj(p, off)
           c == SlabAt(p)
           h == Heap
<1>1. /\ TypeOK /\ h \in HeapType /\ HeapInv(h, given, 0) /\ given' = given /\ ret' = Null
      /\ h.used = used /\ h.owner = owner
  BY DEF IInv, TypeOK, Heap, Free
<1>2. o \in PoolPages \X Nat /\ o[1] = p /\ o[2] = off
  BY DEF Obj
<1>3. CASE used' = used
  <2>1. Heap' = Heap
    BY <1>3 DEF Heap, Free
  <2> QED
    BY <1>1, <2>1, RefuseStep
<1>4. CASE ~(used' = used)
  <2>1. owner[p] # 0 /\ used' = SlabAdd(c, o)
    BY <1>4 DEF Free
  <2>2. \E i \in 1..Len(used) : used[i].sz = owner[p]
    BY <1>1, <2>1 DEF HeapInv, OwnerInv
  <2>3. c \in 1..Len(used) /\ used[c].sz = owner[p]
    BY <2>2 DEF SlabAt
  <2>4. o \notin ToSet(used[c].obj) /\ used' = [used EXCEPT ![c] = Fill(@, <<o>>)]
    BY <1>4, <2>1 DEF SlabAdd
  <2> DEFINE x == used[c]
             y == Fill(x, <<o>>)
  <2>5. x \in CacheType /\ used \in Seq(CacheType)
    BY <1>1, <2>3, CachesType
  <2>6. y \in CacheType
    <3> DEFINE one == <<o>>
    <3>1. one \in Seq(PoolPages \X Nat) /\ y = Fill(x, one)
      BY <1>2
    <3> HIDE DEF x, y, one
    <3> QED
      BY <2>5, <3>1, CacheFields
  <2>7. used' = [used EXCEPT ![c] = y]
    BY <2>4
  <2> HIDE DEF c, y
  <2>8. /\ used' \in Seq(CacheType) /\ Len(used') = Len(used) /\ used'[c] = y
        /\ \A i \in 1..Len(used) : i # c => used'[i] = used[i]
    BY <2>3, <2>5, <2>6, <2>7
  <2> DEFINE d == Heap'
  <2>9. /\ d.free = h.free /\ d.inuse = h.inuse /\ d.avl = h.avl /\ d.owner = h.owner
        /\ d.used = used'
    BY DEF Heap, Free
  <2>10. d \in HeapType
    BY <1>1, <2>8, <2>9 DEF HeapType, Heap
  <2> HIDE DEF d, h
  <2>11. /\ c \in 1..Len(h.used) /\ h.owner[o[1]] = h.used[c].sz
         /\ IsObject(o, h.used[c].sz) /\ o \notin ToSet(h.used[c].obj)
         /\ Len(d.used) = Len(h.used) /\ d.used[c] = Fill(h.used[c], <<o>>)
         /\ \A i \in 1..Len(h.used) : i # c => d.used[i] = h.used[i]
    BY <1>1, <1>2, <2>1, <2>3, <2>4, <2>8, <2>9 DEF y
  <2> HIDE DEF o
  <2> DEFINE b == BlockAt(h, o)
  <2>12. /\ HeapInv(d, given, 0) /\ b \in LiveOf(h, given)
         /\ LiveOf(d, given) = LiveOf(h, given) \ {b}
    BY <1>1, <1>2, <2>9, <2>10, <2>11, FillKeeps
  <2> HIDE DEF b
  <2>13. TypeOK'
    BY <1>1, <2>10 DEF TypeOK, d
  <2>14. IInv'
    BY <1>1, <2>12, <2>13 DEF IInv, d
  <2>15. Live = LiveOf(h, given) /\ Live' = LiveOf(d, given)
    BY <1>1, <2>13, LiveNow, LiveNext DEF h, d
  <2>16. b \in Live /\ Live' = Live \ {b}
    BY <2>12, <2>15
  <2>17. b \in Promise!Block
    <3>1. owner[p] \in 1..PageSize /\ PageSize \in Nat
      BY <1>1, <2>1, CachesType, HeapAssumption
    <3>2. PICK m \in 1..(PageSize \div owner[p]) : off = (m - 1) * owner[p]
      BY <1>2, <2>1 DEF IsObject, o
    <3>3. off + owner[p] <= PageSize
      BY <3>1, <3>2, ObjectFits
    <3>4. off \in 0..(PageSize - 1)
      BY <3>1, <3>3
    <3>5. b = [page |-> p, off |-> off, len |-> owner[p]]
      BY <1>1, <1>2 DEF b, BlockAt
    <3> QED
      BY <3>1, <3>4, <3>5 DEF Promise!Block
  <2>18. Promise!TakeBack(b)
    BY <1>1, <2>16 DEF Promise!TakeBack
  <2> QED
    BY <2>14, <2>17, <2>18 DEF Promise!ANext
<1> QED
  BY <1>3, <1>4

\* The page tables' requests.
LEMMA PopStep ==
  ASSUME IInv, PopPage \/ PopFails
  PROVE  IInv' /\ Promise!ANext
<1> DEFINE h == Heap
           p == Head(free)
           d == Pop(h)
           b == [page |-> p, off |-> 0, len |-> PageSize]
<1>1. /\ TypeOK /\ h \in HeapType /\ HeapInv(h, given, 0) /\ h.free = free
      /\ given \in SUBSET PoolPages
  BY DEF IInv, TypeOK, Heap
<1>2. CASE PopFails
  <2>1. Heap' = Heap /\ given' = given /\ ret' = Null
    BY <1>2 DEF PopFails, Heap
  <2> QED
    BY <1>1, <2>1, RefuseStep
<1>3. CASE PopPage
  <2>0. CanGrow(h) /\ Becomes(d) /\ given' = given \cup {p} /\ ret' = b
    BY <1>1, <1>3 DEF PopPage, CanGrow
  <2>1. /\ PoolInv(h) /\ PageInv(h, given) /\ DscInv(h, given, 0) /\ SortInv(h.used)
        /\ ObjInv(h) /\ OwnerInv(h)
    BY <1>1 DEF HeapInv
  <2>2. /\ d \in HeapType /\ PoolInv(d) /\ d.inuse = h.inuse \cup {p} /\ d.used = h.used
        /\ d.avl = h.avl /\ d.owner = h.owner /\ p \in PoolPages /\ p \notin h.inuse
    BY <1>1, <2>0, <2>1, PopKeeps
  <2> HIDE DEF h, d, p
  <2> DEFINE g == given \cup {p}
  <2>3. PageInv(d, g)
    BY <2>1, <2>2 DEF PageInv
  <2>4. DscInv(d, g, 0)
    <3>1. DscPages(d, g) = DscPages(h, given)
      BY <1>1, <2>2 DEF DscPages
    <3> QED
      BY <2>1, <2>2, <3>1 DEF DscInv
  <2>5. ObjInv(d) /\ OwnerInv(d) /\ SortInv(d.used) /\ LiveOf(d, given) = LiveOf(h, given)
    BY <2>1, <2>2, SameLists
  <2>6. HeapInv(d, g, 0)
    BY <2>2, <2>3, <2>4, <2>5 DEF HeapInv
  <2>7. LiveOf(d, g) = LiveOf(d, given) \cup {b}
    BY DEF LiveOf
  <2>8. Heap' = d
    BY <2>0, <2>2, BecomesHeap
  <2>9. TypeOK'
    BY <1>1, <2>0, <2>2, <2>8 DEF TypeOK
  <2>10. IInv'
    BY <2>0, <2>6, <2>8, <2>9 DEF IInv
  <2>11. Live' = Live \cup {b} /\ Live = LiveOf(h, given)
    BY <1>1, <2>0, <2>5, <2>7, <2>8, <2>9, LiveNow, LiveNext DEF h
  <2>12. \A l \in Live : Promise!Bytes(b) \cap Promise!Bytes(l) = {}
    BY <1>1, <2>2, <2>11, FreePageApart
  <2>13. b \in Promise!Block /\ b.off + b.len <= PageSize
    <3>1. PageSize \in 1..PageSize /\ 0 \in 0..(PageSize - 1) /\ 0 + PageSize <= PageSize
      BY HeapAssumption
    <3> QED
      BY <2>2, <3>1 DEF Promise!Block
  <2> HIDE DEF b
  <2>14. Promise!Grant(b)
    BY <2>0, <2>11, <2>12, <2>13 DEF Promise!Grant
  <2> QED
    BY <2>10, <2>13, <2>14 DEF Promise!ANext
<1> QED
  BY <1>2, <1>3

\* A page comes back once; a page that is free already, and an address
\* outside the pool, are ignored.
LEMMA PushStep ==
  ASSUME IInv, NEW p \in 0..PageNr, PushPage(p)
  PROVE  IInv' /\ Promise!ANext
<1> DEFINE h == Heap
           d == Heap'
           b == [page |-> p, off |-> 0, len |-> PageSize]
<1>1. /\ TypeOK /\ h \in HeapType /\ HeapInv(h, given, 0) /\ given \in SUBSET PoolPages
      /\ h.free = free /\ h.inuse = inuse /\ h.used = used /\ h.avl = avl /\ h.owner = owner
  BY DEF IInv, TypeOK, Heap
<1>2. /\ PoolInv(h) /\ PageInv(h, given) /\ DscInv(h, given, 0) /\ SortInv(h.used)
      /\ ObjInv(h) /\ OwnerInv(h)
  BY <1>1 DEF HeapInv
<1>3. /\ p \in given \cup ToSet(free) \cup {0} /\ given' = given \ {p} /\ ret' = Null
      /\ used' = used /\ avl' = avl /\ owner' = owner
      /\ free' = Push(p).free /\ inuse' = Push(p).inuse
  BY DEF PushPage
<1>4. /\ given \subseteq inuse /\ ToSet(free) \cap inuse = {} /\ inuse \in SUBSET PoolPages
      /\ 0 \notin PoolPages /\ ToSet(free) \cup inuse = PoolPages
  <2>1. 0 \notin PoolPages
    BY DEF PoolPages
  <2> QED
    BY <1>1, <1>2, <2>1, CachesType DEF PageInv, PoolInv
<1>5. CASE p \notin inuse
  <2>1. free' = free /\ inuse' = inuse
    BY <1>3, <1>5 DEF Push
  <2>2. given' = given
    BY <1>3, <1>4, <1>5
  <2>3. Heap' = Heap
    BY <1>3, <2>1 DEF Heap
  <2> QED
    BY <1>1, <1>3, <2>2, <2>3, RefuseStep
<1>6. CASE p \in inuse
  <2>1. p \in given /\ p \in PoolPages /\ p \notin ToSet(free)
    BY <1>3, <1>4, <1>6
  <2> DEFINE one == <<p>>
  <2>2. free' = one \o free /\ inuse' = inuse \ {p}
    BY <1>3, <1>6 DEF Push
  <2>3. one \in Seq(PoolPages) /\ Len(one) = 1 /\ ToSet(one) = {p} /\ Once(one)
    BY <2>1 DEF ToSet, Once
  <2> HIDE DEF one
  <2>4. free \in Seq(PoolPages) /\ Once(free) /\ Len(free) \in Nat
    BY <1>1, <1>2, CachesType DEF PoolInv, Once
  <2>5. /\ one \o free \in Seq(PoolPages) /\ Len(one \o free) = Len(one) + Len(free)
        /\ Once(one \o free) /\ ToSet(one \o free) = ToSet(one) \cup ToSet(free)
    <3>1. ToSet(one) \cap ToSet(free) = {}
      BY <2>1, <2>3
    <3>2. one \in Seq(PoolPages) /\ free \in Seq(PoolPages) /\ Once(one) /\ Once(free)
      BY <2>3, <2>4
    <3> QED
      BY <3>1, <3>2, ConcatOnce, Zenon
  <2>6. /\ free' \in Seq(PoolPages) /\ Len(free') = Len(free) + 1
        /\ Once(free') /\ ToSet(free') = ToSet(free) \cup {p}
    BY <2>2, <2>3, <2>4, <2>5
  <2>7. /\ d.free = free' /\ d.inuse = inuse' /\ d.used = h.used /\ d.avl = h.avl
        /\ d.owner = h.owner
    BY <1>3, <1>1 DEF Heap
  <2>8. d \in HeapType
    BY <1>1, <1>3, <1>4, <2>2, <2>6 DEF HeapType, Heap
  <2>9. PoolInv(d)
    <3>1. Cardinality(ToSet(free')) = Len(free')
      <4>1. IsFiniteSet(ToSet(free)) /\ Cardinality(ToSet(free)) = Len(free)
        <5>1. IsFiniteSet(PoolPages)
          BY HeapAssumption, FS_Interval DEF PoolPages
        <5>2. ToSet(free) \subseteq PoolPages
          BY <1>4
        <5> QED
          BY <1>1, <1>2, <5>1, <5>2, FS_Subset DEF PoolInv
      <4>2. Cardinality(ToSet(free) \cup {p}) = Cardinality(ToSet(free)) + 1
        BY <2>1, <4>1, FS_AddElement
      <4> QED
        BY <2>6, <4>1, <4>2
    <3>2. /\ ToSet(free') \cap inuse' = {} /\ ToSet(free') \cup inuse' = PoolPages
      BY <1>4, <2>1, <2>2, <2>6
    <3> HIDE DEF d
    <3> QED
      BY <2>6, <2>7, <3>1, <3>2 DEF PoolInv, Once
  <2> HIDE DEF d, h
  <2> DEFINE g == given \ {p}
  <2>10. PageInv(d, g)
    <3>1. owner[p] = 0
      BY <1>1, <1>2, <2>1 DEF PageInv
    <3> QED
      BY <1>1, <1>2, <2>2, <2>7, <3>1 DEF PageInv
  <2>11. DscInv(d, g, 0)
    <3>1. DscPages(d, g) = DscPages(h, given)
      BY <1>1, <1>4, <2>1, <2>2, <2>7 DEF DscPages
    <3> QED
      BY <1>2, <2>7, <3>1 DEF DscInv
  <2>12. ObjInv(d) /\ OwnerInv(d) /\ SortInv(d.used) /\ LiveOf(d, g) = LiveOf(h, g)
    BY <1>2, <2>7, SameLists
  <2>13. HeapInv(d, g, 0)
    BY <2>9, <2>10, <2>11, <2>12 DEF HeapInv
  <2>14. b \in LiveOf(h, given) /\ LiveOf(h, g) = LiveOf(h, given) \ {b}
    <3> DEFINE B(q) == [page |-> q, off |-> 0, len |-> PageSize]
               V == {BlockAt(h, o) : o \in {w \in PoolPages \X Nat : Busy(h, w)}}
    <3>1. \A q : B(q) = b => q = p
      <4>1. \A q : B(q).page = q
        OBVIOUS
      <4>2. b.page = p
        OBVIOUS
      <4> HIDE DEF b, B
      <4> QED
        BY <4>1, <4>2
    <3>2. b \notin V
      <4>1. SUFFICES ASSUME NEW o \in PoolPages \X Nat, Busy(h, o), BlockAt(h, o) = b
                     PROVE  FALSE
        OBVIOUS
      <4>2. BlockAt(h, o).page = o[1] /\ b.page = p
        BY DEF BlockAt
      <4>3. h.owner[p] = 0
        BY <1>2, <2>1 DEF PageInv
      <4> QED
        BY <4>1, <4>2, <4>3 DEF Busy
    <3>3. \A w : LiveOf(h, w) = {B(q) : q \in w} \cup V
      BY DEF LiveOf, BlockAt
    <3>4. {B(q) : q \in g} = {B(q) : q \in given} \ {b} /\ b \in {B(q) : q \in given}
      BY <2>1, <3>1
    <3> HIDE DEF V, B, b
    <3> QED
      BY <3>2, <3>3, <3>4
  <2>15. TypeOK'
    BY <1>1, <1>3, <2>8 DEF TypeOK, d
  <2>16. IInv'
    BY <1>3, <2>13, <2>15 DEF IInv, d
  <2>17. b \in Live /\ Live' = Live \ {b}
    <3>1. Live = LiveOf(h, given) /\ Live' = LiveOf(d, g)
      BY <1>1, <1>3, <2>15, LiveNow, LiveNext DEF h, d
    <3> HIDE DEF b
    <3> QED
      BY <2>12, <2>14, <3>1
  <2>18. b \in Promise!Block
    <3>1. PageSize \in 1..PageSize /\ 0 \in 0..(PageSize - 1)
      BY HeapAssumption
    <3> QED
      BY <2>1, <3>1 DEF Promise!Block
  <2> HIDE DEF b
  <2>19. Promise!TakeBack(b)
    BY <1>3, <2>17 DEF Promise!TakeBack
  <2> QED
    BY <2>16, <2>18, <2>19 DEF Promise!ANext
<1> QED
  BY <1>5, <1>6

(***************************************************************************)
(* The theorems.                                                           *)
(***************************************************************************)
LEMMA HeapInit ==
  ASSUME Init
  PROVE  IInv /\ Live = {}
<1> DEFINE h == Heap
           n == PageNr
<1>0. n \in Nat /\ SlabNr \in Nat \ {0} /\ PageSize \in Nat \ {0}
  BY HeapAssumption
<1>1. /\ h.free = free /\ h.inuse = {} /\ h.used = <<>> /\ h.avl = 0 /\ h.owner = owner
      /\ owner = [p \in PoolPages |-> 0] /\ given = {}
      /\ free = [i \in 1..n |-> n + 1 - i]
  BY DEF Heap, Init
<1>2. /\ free \in Seq(PoolPages) /\ Len(free) = n /\ \A i \in 1..n : free[i] = n + 1 - i
  BY <1>0, <1>1 DEF PoolPages
<1>3. /\ h \in HeapType
  <2>1. /\ {} \in SUBSET PoolPages /\ <<>> \in Seq(CacheType) /\ 0 \in 0..SlabNr
        /\ owner \in [PoolPages -> 0..PageSize]
    BY <1>0, <1>1
  <2> QED
    BY <1>1, <1>2, <2>1 DEF HeapType, Heap
<1>4. TypeOK
  BY <1>1, <1>3 DEF TypeOK
<1>5. ToSet(free) = PoolPages
  <2>1. ASSUME NEW p \in PoolPages PROVE p \in ToSet(free)
    <3> DEFINE i == n + 1 - p
    <3>1. i \in 1..n /\ n + 1 - i = p
      BY <1>0 DEF PoolPages
    <3> HIDE DEF i
    <3>2. i \in 1..Len(free) /\ free[i] = p
      BY <1>2, <3>1
    <3> QED
      BY <1>2, <3>2, ToSetMember
  <2>2. ToSet(free) \subseteq PoolPages
    BY <1>2, ToSetMember
  <2> QED
    BY <2>1, <2>2
<1> HIDE DEF h
<1>6. PoolInv(h)
  <2>1. Cardinality(PoolPages) = n
    <3>1. 1 \in Int /\ n \in Int
      BY <1>0
    <3>2. Cardinality(1..n) = IF 1 > n THEN 0 ELSE n - 1 + 1
      BY <3>1, FS_Interval
    <3> QED
      BY <1>0, <3>2 DEF PoolPages
  <2>2. \A i, j \in 1..n : free[i] = free[j] => i = j
    BY <1>0, <1>2
  <2>3. /\ \A i, j \in 1..Len(h.free) : h.free[i] = h.free[j] => i = j
        /\ ToSet(h.free) = PoolPages /\ Len(h.free) = n /\ h.inuse = {}
    <3>1. h.free = free /\ h.inuse = {} /\ Len(free) = n
      BY <1>1, <1>2
    <3> QED
      BY <1>5, <2>2, <3>1
  <2> QED
    BY <2>1, <2>3 DEF PoolInv
<1>7. PageInv(h, given)
  BY <1>1 DEF PageInv
<1>8. DscInv(h, given, 0)
  <2>1. DscPages(h, given) = {}
    BY <1>1 DEF DscPages
  <2>2. Cardinality({}) = 0
    BY FS_EmptySet
  <2>3. h.avl = 0 /\ Len(h.used) = 0 /\ SlabNr * 0 = 0
    BY <1>0, <1>1
  <2> QED
    BY <2>1, <2>2, <2>3 DEF DscInv
<1>9. SortInv(h.used) /\ ObjInv(h)
  BY <1>1 DEF SortInv, ObjInv
<1>10. OwnerInv(h)
  BY <1>1 DEF OwnerInv
<1>11. IInv
  BY <1>4, <1>6, <1>7, <1>8, <1>9, <1>10 DEF IInv, HeapInv, h
<1>12. Live = {}
  <2>1. \A o \in PoolPages \X Nat : ~Busy(h, o)
    BY <1>1 DEF Busy
  <2>2. LiveOf(h, given) = {}
    BY <1>1, <2>1 DEF LiveOf
  <2> QED
    BY <1>4, <2>2, LiveNow DEF h
<1> QED
  BY <1>11, <1>12

LEMMA HeapNext ==
  ASSUME IInv, Next
  PROVE  IInv' /\ Promise!ANext
<1>0. TypeOK /\ given \in SUBSET PoolPages /\ owner \in [PoolPages -> 0..PageSize]
      /\ HeapInv(Heap, given, 0) /\ Heap.owner = owner /\ PageSize \in Nat \ {0}
  <2>1. Heap \in HeapType /\ Heap.owner = owner
    BY DEF IInv, TypeOK, Heap
  <2>2. owner \in [PoolPages -> 0..PageSize]
    BY <2>1, CachesType
  <2> QED
    BY <2>1, <2>2, HeapAssumption DEF IInv, TypeOK
<1>1. ASSUME NEW asz \in Asked, Malloc(asz) PROVE IInv' /\ Promise!ANext
  BY <1>1, MallocStep
<1>2. ASSUME NEW po \in Freeable, Free(po[1], po[2]) PROVE IInv' /\ Promise!ANext
  <2> DEFINE p == po[1]
             o == po[2]
             s == owner[p]
  <2>1. /\ p \in PoolPages /\ o \in Nat /\ s # 0 /\ o % s = 0 /\ o + s <= PageSize
    BY <1>0 DEF Freeable
  <2>2. s \in 1..PageSize /\ PageSize \in Nat
    BY <1>0, <2>1
  <2> HIDE DEF s
  <2>3. \E m \in 1..(PageSize \div s) : o = (m - 1) * s
    BY <2>1, <2>2, MultipleIsObject
  <2>4. Obj(p, o)[2] = o
    BY DEF Obj
  <2>5. IsObject(Obj(p, o), owner[p])
    BY <2>3, <2>4 DEF IsObject, s
  <2> QED
    BY <1>2, <2>1, <2>5, FreeStep
<1>3. ASSUME NEW p \in given, Free(p, 0) PROVE IInv' /\ Promise!ANext
  <2>1. p \in PoolPages /\ owner[p] = 0 /\ 0 \in Nat
    BY <1>0 DEF HeapInv, PageInv
  <2> QED
    BY <1>3, <2>1, FreeStep
<1>4. CASE PopPage \/ PopFails
  BY <1>4, PopStep
<1>5. ASSUME NEW p \in 0..PageNr, PushPage(p) PROVE IInv' /\ Promise!ANext
  BY <1>5, PushStep
<1> QED
  BY <1>1, <1>2, <1>3, <1>4, <1>5 DEF Next

\* The inductive invariant: every list of the pool and of the caches is what
\* the comments of PoolInv to OwnerInv say, through every operation.
THEOREM HeapSafe == Spec => []IInv
<1>1. Init => IInv
  BY HeapInit
<1>2. IInv /\ [Next]_vars => IInv'
  <2>1. ASSUME IInv, UNCHANGED vars PROVE IInv'
    <3>1. Heap' = Heap /\ given' = given
      BY <2>1 DEF vars, Heap
    <3> QED
      BY <2>1, <3>1 DEF IInv, TypeOK
  <2> QED
    BY <2>1, HeapNext
<1> QED
  BY <1>1, <1>2, PTL DEF Spec

\* No page and no cache descriptor of pool.c and slab.c is lost, and no page
\* is in two hands, for any pool, page size and requests.
THEOREM PagesSafe == Spec => []PagesAccounted
<1>1. IInv => PagesAccounted
  <2>1. SUFFICES ASSUME IInv PROVE PagesAccounted
    OBVIOUS
  <2>2. /\ Heap \in HeapType /\ HeapInv(Heap, given, 0) /\ given \in SUBSET PoolPages
        /\ Heap.free = free /\ Heap.inuse = inuse /\ Heap.used = used /\ Heap.avl = avl
        /\ Heap.owner = owner
    BY <2>1 DEF IInv, TypeOK, Heap
  <2>3. /\ Cardinality(ToSet(free)) = Len(free) /\ ToSet(free) \cap inuse = {}
        /\ ToSet(free) \cup inuse = PoolPages
    BY <2>2 DEF HeapInv, PoolInv
  <2>4. /\ given \cup {p \in PoolPages : owner[p] # 0} \subseteq inuse
        /\ \A p \in given : owner[p] = 0
    BY <2>2 DEF HeapInv, PageInv
  <2>5. avl + Len(used) = SlabNr * Cardinality({p \in inuse \ given : owner[p] = 0})
    <3>1. avl \in Int /\ Len(used) \in Int
      BY <2>2, CachesType, HeapAssumption
    <3>2. avl + Len(used) + 0 = SlabNr * Cardinality(DscPages(Heap, given))
      BY <2>2 DEF HeapInv, DscInv
    <3> QED
      BY <2>2, <3>1, <3>2 DEF DscPages
  <2> QED
    BY <2>3, <2>4, <2>5 DEF PagesAccounted
<1> QED
  BY <1>1, HeapSafe, PTL

\* slab_find and slab_new always see a strictly increasing list, and the
\* counts of slab_add and malloc are the lengths of the lists.
THEOREM SortedSafe == Spec => []CachesSorted
<1>1. IInv => CachesSorted
  <2>1. SUFFICES ASSUME IInv PROVE CachesSorted
    OBVIOUS
  <2>2. SortInv(used) /\ Len(used) \in Nat
    <3>1. Heap.used = used /\ Heap \in HeapType /\ HeapInv(Heap, given, 0)
      BY <2>1 DEF IInv, TypeOK, Heap
    <3> QED
      BY <3>1, CachesType DEF HeapInv
  <2>3. ASSUME NEW i \in 2..Len(used) PROVE used[i - 1].sz < used[i].sz
    <3>1. i - 1 \in 1..Len(used) /\ i \in 1..Len(used) /\ i - 1 < i
      BY <2>2
    <3> QED
      BY <2>2, <3>1 DEF SortInv
  <2> QED
    BY <2>2, <2>3 DEF SortInv, CachesSorted
<1> QED
  BY <1>1, HeapSafe, PTL

\* malloc, free and the page pool implement Allocator: what they hand out
\* never overlaps what is in use, and only what is in use comes back, for any
\* pool, page size and requests, double frees and exhausted pools included.
THEOREM HeapAllocates == Spec => Allocates
<1>1. Init => Promise!AInit
  BY HeapInit DEF Init, Promise!AInit
<1>2. IInv /\ [Next]_vars => [Promise!ANext]_<<Live, ret>>
  <2>1. ASSUME IInv, UNCHANGED vars PROVE UNCHANGED <<Live, ret>>
    <3>1. Heap' = Heap /\ given' = given /\ ret' = ret
      BY <2>1 DEF vars, Heap
    <3>2. TypeOK /\ TypeOK'
      BY <2>1, <3>1 DEF IInv, TypeOK
    <3> QED
      BY <3>1, <3>2, LiveNow, LiveNext
  <2> QED
    BY <2>1, HeapNext
<1> QED
  BY <1>1, <1>2, HeapSafe, PTL DEF Spec, Allocates, Promise!ASpec

=============================================================================
