------------------------------ MODULE VmmHeap -------------------------------
(***************************************************************************)
(* The VMM's page pool (common/libc/pool.c), physical page descriptors     *)
(* (ppg.c), slab caches (vmm/src/core/slab.c) and malloc/free.  The page   *)
(* tables take whole pages from the pool and give them back; the heap      *)
(* takes pages for its caches and never gives one back.                    *)
(*                                                                         *)
(* The circular lists of cdll.h are sequences whose first element is the   *)
(* list pointer.  An object is <<page, offset>>; sizes are counted in      *)
(* units of sizeof(slab_obj_t), PageSize units to a page.                  *)
(***************************************************************************)
EXTENDS Integers, Sequences, FiniteSets, SequencesExt

CONSTANTS PageNr,    \* pages of the pool
          PageSize,  \* units of a page
          SlabNr,    \* cache descriptors in a page (PAGE_SIZE/sizeof(slab_t))
          Asked,     \* sizes callers ask for
          MaxFree    \* bound: a caller frees while fewer objects are free

ASSUME HeapAssumption ==
  /\ PageNr \in Nat /\ PageSize \in Nat \ {0} /\ SlabNr \in Nat \ {0}
  /\ Asked \subseteq Nat

VARIABLES free,   \* info->vmm.pool.free
          inuse,  \* pages with POOL_PG_INUSE
          used,   \* info->vmm.slab.used: caches of increasing size
          avl,    \* number of descriptors on info->vmm.slab.avl
          owner,  \* ppg_dsc_t.slab, as the size of the cache, 0 for none
          given,  \* pages popped by the page tables
          ret     \* answer of the last request

vars == <<free, inuse, used, avl, owner, given, ret>>

Null == [page |-> 0, off |-> 0, len |-> 0]
PoolPages == 1..PageNr

Cache(sz) == [sz |-> sz, obj |-> <<>>, nr |-> 0]
Obj(p, o) == <<p, o>>

(* cdll_fill at the end of a cache's list, cdll_pop, and nr after either   *)
Fill(c, objs) == [c EXCEPT !.obj = @ \o objs, !.nr = @ + Len(objs)]
Drain(c) == [c EXCEPT !.obj = Tail(@), !.nr = @ - 1]

(* pool_init pushes the pages one by one, so the last is popped first.     *)
Init ==
  /\ free = [i \in 1..PageNr |-> PageNr + 1 - i] /\ inuse = {}
  /\ used = <<>> /\ avl = 0 /\ owner = [p \in PoolPages |-> 0]
  /\ given = {} /\ ret = Null

(* slab_size: at least one slab_obj_t; the rounding to a long is the unit. *)
SlabSize(asz) == IF asz < 1 THEN 1 ELSE asz

(* Where slab_find and slab_new stop in the list of caches: the first one  *)
(* that is not smaller, or the last.                                       *)
Stop(sz) ==
  LET big == {i \in 1..Len(used) : used[i].sz >= sz}
  IN IF big = {} THEN Len(used) ELSE CHOOSE i \in big : \A j \in big : i <= j
Found(sz) == used # <<>> /\ used[Stop(sz)].sz = sz

----------------------------------------------------------------------------
(* A heap operation works on a record of the variables it may change.      *)
Heap == [free |-> free, inuse |-> inuse, used |-> used, avl |-> avl, owner |-> owner]
Becomes(h) ==
  /\ free' = h.free /\ inuse' = h.inuse /\ used' = h.used /\ avl' = h.avl /\ owner' = h.owner

(* pool_pop_page, when there is a page *)
Pop(h) == [h EXCEPT !.free = Tail(@), !.inuse = @ \cup {Head(h.free)}]

(* slab_grow of cache c by one object, one page of PageSize \div sz of     *)
(* them (slab_req_page): nothing when the pool is empty.                   *)
PageObjects(p, sz) == [i \in 1..(PageSize \div sz) |-> Obj(p, (i - 1) * sz)]
CanGrow(h) == h.free # <<>>
Grow(h, c) ==
  LET p == Head(h.free)
      new == PageObjects(p, h.used[c].sz)
  IN [Pop(h) EXCEPT !.used[c] = Fill(@, new), !.owner[p] = h.used[c].sz]

(* slab_alloc and slab_list_grow: a descriptor, from a fresh page of them  *)
(* when none is left.                                                      *)
CanDescribe(h) == h.avl > 0 \/ h.free # <<>>
Describe(h) == IF h.avl > 0 THEN [h EXCEPT !.avl = @ - 1]
               ELSE [Pop(h) EXCEPT !.avl = SlabNr - 1]

(* slab_insert at the place slab_new found; slab_create first.  A cache    *)
(* that gets no page is given back to the list of descriptors.             *)
InsertLast(h, sz) == [h EXCEPT !.used = Append(@, Cache(sz))]
Insert(h, sz) ==
  LET at == IF h.used # <<>> /\ sz < h.used[Stop(sz)].sz THEN Stop(sz) ELSE Len(h.used) + 1
  IN [h EXCEPT !.used = InsertAt(@, at, Cache(sz))]

(* slab_new *)
LeaksDescriptor(h, sz) ==
  LET d == Describe(h)
  IN IF ~CanDescribe(h) THEN h
     ELSE IF ~CanGrow(d) THEN d
     ELSE LET i == Insert(d, sz)
          IN Grow(i, CHOOSE c \in 1..Len(i.used) : i.used[c].sz = sz /\ i.used[c].obj = <<>>)
CacheFor(h, sz) ==
  LET d == Describe(h)
  IN IF ~CanDescribe(h) THEN h
     ELSE IF ~CanGrow(d) THEN [d EXCEPT !.avl = @ + 1]
     ELSE LET i == Insert(d, sz)
          IN Grow(i, CHOOSE c \in 1..Len(i.used) : i.used[c].sz = sz /\ i.used[c].obj = <<>>)
CanCache(h, asz) == asz <= PageSize \div 2 /\ CanDescribe(h) /\ CanGrow(Describe(h))

(* malloc pops the first free object of the cache.                         *)
Take(h, c) ==
  /\ Becomes([h EXCEPT !.used[c] = Drain(@)])
  /\ ret' = [page |-> Head(h.used[c].obj)[1], off |-> Head(h.used[c].obj)[2], len |-> h.used[c].sz]
Refused(h) == Becomes(h) /\ ret' = Null

Malloc(asz) ==
  LET sz == SlabSize(asz)
      h == IF Found(sz) \/ asz > PageSize \div 2 THEN Heap ELSE CacheFor(Heap, sz)
      c == CHOOSE i \in 1..Len(h.used) : h.used[i].sz = sz
  IN /\ given' = given
     /\ IF ~Found(sz) /\ ~CanCache(Heap, asz) THEN Refused(h)
        ELSE IF h.used[c].obj # <<>> THEN Take(h, c)
        ELSE IF CanGrow(h) THEN Take(Grow(h, c), c)
        ELSE Refused(h)

(* free: slab_at finds the cache by the page; slab_add ignores an object   *)
(* that is already free, and one outside the heap.                         *)
AddAlways(c, o) == [used EXCEPT ![c] = Fill(@, <<o>>)]
SlabAdd(c, o) ==
  IF o \in ToSet(used[c].obj) THEN used
  ELSE [used EXCEPT ![c] = Fill(@, <<o>>)]
SlabAt(p) == CHOOSE i \in 1..Len(used) : used[i].sz = owner[p]
Free(p, o) ==
  /\ ret' = Null
  /\ IF owner[p] = 0 THEN UNCHANGED used
     ELSE used' = SlabAdd(SlabAt(p), Obj(p, o))
  /\ UNCHANGED <<free, inuse, avl, owner, given>>

----------------------------------------------------------------------------
(* The page tables' use of the pool (npt_map.c) *)
PopPage ==
  /\ free # <<>>
  /\ Becomes(Pop(Heap))
  /\ given' = given \cup {Head(free)}
  /\ ret' = [page |-> Head(free), off |-> 0, len |-> PageSize]

PopFails == free = <<>> /\ ret' = Null /\ UNCHANGED <<free, inuse, used, avl, owner, given>>

(* pool_push_page ignores a page outside the pool or not in use.           *)
Push(p) == IF p \in inuse THEN [free |-> <<p>> \o free, inuse |-> inuse \ {p}]
           ELSE [free |-> free, inuse |-> inuse]
PushPage(p) ==
  /\ p \in given \cup ToSet(free) \cup {0}
  /\ free' = Push(p).free /\ inuse' = Push(p).inuse
  /\ given' = given \ {p} /\ ret' = Null
  /\ UNCHANGED <<used, avl, owner>>

(* A caller frees what it was given, and may free it twice; it frees at    *)
(* the address it got.                                                     *)
Freeable ==
  {po \in PoolPages \X (0..(PageSize - 1)) :
     owner[po[1]] # 0 /\ po[2] % owner[po[1]] = 0 /\ po[2] + owner[po[1]] <= PageSize}

FewFree == \A i \in 1..Len(used) : Len(used[i].obj) < MaxFree

Next ==
  \/ \E asz \in Asked : Malloc(asz)
  \/ \E po \in Freeable : FewFree /\ Free(po[1], po[2])
  \/ \E p \in given : Free(p, 0)
  \/ PopPage \/ PopFails
  \/ \E p \in 0..PageNr : PushPage(p)

Spec == Init /\ [][Next]_vars

----------------------------------------------------------------------------
(* The kinds of values *)
CacheType == [sz : 1..PageSize, obj : Seq(PoolPages \X Nat), nr : Nat]
HeapType == [free : Seq(PoolPages), inuse : SUBSET PoolPages, used : Seq(CacheType),
             avl : 0..SlabNr, owner : [PoolPages -> 0..PageSize]]
TypeOK == Heap \in HeapType /\ given \in SUBSET PoolPages

(* Every page is free, with the page tables, with the heap, or holds cache *)
(* descriptors, exactly once: no page is lost by a refused request and     *)
(* none is handed out twice, also when it is given back twice; nor is a    *)
(* cache descriptor lost when its cache gets no page.                      *)
PagesAccounted ==
  /\ Cardinality(ToSet(free)) = Len(free) /\ ToSet(free) \cap inuse = {}
  /\ ToSet(free) \cup inuse = PoolPages
  /\ given \cup {p \in PoolPages : owner[p] # 0} \subseteq inuse
  /\ \A p \in given : owner[p] = 0
  /\ avl + Len(used) =
       SlabNr * Cardinality({p \in inuse \ given : owner[p] = 0})

(* The caches are strictly increasing, so slab_find meets the one it wants *)
(* and slab_new never makes a second of one size, and each counts its free *)
(* objects.                                                                *)
CachesSorted ==
  /\ \A i \in 2..Len(used) : used[i - 1].sz < used[i].sz
  /\ \A i \in 1..Len(used) : used[i].nr = Len(used[i].obj)

(* The blocks in use, read off the lists: what a cache's pages hold and    *)
(* its free list does not, and the pages of the page tables.               *)
Live ==
  {[page |-> p, off |-> 0, len |-> PageSize] : p \in given} \cup
  UNION {{[page |-> p, off |-> o[2], len |-> owner[p]] :
             o \in ToSet(PageObjects(p, owner[p])) \ UNION {ToSet(used[i].obj) : i \in 1..Len(used)}} :
          p \in {q \in PoolPages : owner[q] # 0}}

Promise == INSTANCE Allocator WITH live <- Live

(* malloc, free and the pool implement the allocator: what they hand out   *)
(* never overlaps what is in use, through cache growth, double frees and   *)
(* refused requests.                                                       *)
Allocates == Promise!ASpec

----------------------------------------------------------------------------
(***************************************************************************)
(* What holds of the lists at every step of an operation, and implies the  *)
(* properties above: h is the heap so far, g the pages given, made 1 while *)
(* slab_new holds a descriptor that is on no list.                         *)
(***************************************************************************)
(* The free list names every page not in use, once.                        *)
PoolInv(h) ==
  /\ \A i, j \in 1..Len(h.free) : h.free[i] = h.free[j] => i = j
  /\ Cardinality(ToSet(h.free)) = Len(h.free)
  /\ ToSet(h.free) \cap h.inuse = {} /\ ToSet(h.free) \cup h.inuse = PoolPages

(* A page of the page tables is no cache's, and both are in use.           *)
PageInv(h, g) ==
  /\ g \subseteq h.inuse /\ \A p \in g : h.owner[p] = 0
  /\ \A p \in PoolPages : h.owner[p] # 0 => p \in h.inuse

DscPages(h, g) == {p \in h.inuse \ g : h.owner[p] = 0}
DscInv(h, g, made) == h.avl + Len(h.used) + made = SlabNr * Cardinality(DscPages(h, g))

(* Sizes increase all along the list.                                      *)
SortInv(u) ==
  /\ \A i, j \in 1..Len(u) : i < j => u[i].sz < u[j].sz
  /\ \A i \in 1..Len(u) : u[i].nr = Len(u[i].obj)

(* A free object starts at a multiple of the size of the one cache that    *)
(* its page belongs to, and is on its list once.                           *)
IsObject(o, sz) == \E m \in 1..(PageSize \div sz) : o[2] = (m - 1) * sz
ListInv(c, own) ==
  /\ \A k \in 1..Len(c.obj) : own[c.obj[k][1]] = c.sz /\ IsObject(c.obj[k], c.sz)
  /\ \A k, l \in 1..Len(c.obj) : c.obj[k] = c.obj[l] => k = l
ObjInv(h) == \A i \in 1..Len(h.used) : ListInv(h.used[i], h.owner)

(* A page that has a cache has one that exists.                            *)
OwnerInv(h) ==
  \A p \in PoolPages : h.owner[p] # 0 => \E i \in 1..Len(h.used) : h.used[i].sz = h.owner[p]

HeapInv(h, g, made) ==
  /\ PoolInv(h) /\ PageInv(h, g) /\ DscInv(h, g, made)
  /\ SortInv(h.used) /\ ObjInv(h) /\ OwnerInv(h)

IInv == TypeOK /\ HeapInv(Heap, given, 0)
=============================================================================
