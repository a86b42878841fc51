------------------------------- MODULE NptMap -------------------------------
(***************************************************************************)
(* The nested page tables the VMM builds for its virtual machine           *)
(* (common/libc/npt_map.c) with the entry formats of Intel's EPT           *)
(* (include/vmx_ept.h); AMD's nested paging is the case without MTRR       *)
(* attributes.                                                             *)
(*                                                                         *)
(* Addresses count 4 KB pages.  A table has Fan entries instead of 512, so *)
(* the page sizes 4K, 2M, 1G, 512G are Size[1..4] = 1, Fan, Fan^2, Fan^3.  *)
(* A node <<l, i>> is the entry at level l that covers the pages from      *)
(* i * Size[l]; a map t is                                                 *)
(*   e    what each entry holds; entries below an entry that is not a      *)
(*        table do not exist in memory and are kept Absent,                *)
(*   pool the free pages of the VMM's page pool (pool_pop_page),           *)
(*   ok   FALSE once a panic() was reached,                                *)
(*   low  TRUE once physical page 0 was taken for a page table.            *)
(* Every mapping of the code is the identity, so an entry needs no address.*)
(***************************************************************************)
EXTENDS Integers, Sequences, FiniteSets, SequencesExt

CONSTANTS Fan,        \* entries of a table (512)
          Pml4Entries \* entries in use of the root table

ASSUME FanAssumption == Fan \in Nat \ {0, 1} /\ Pml4Entries \in Nat \ {0}

Levels == 1..4
Size == <<1, Fan, Fan * Fan, Fan * Fan * Fan>>
Pages == 0..(Pml4Entries * Size[4] - 1)
MaxPaddr == Pml4Entries * Size[4]
Align(a, l) == (a \div Size[l]) * Size[l]
AlignNext(a, l) == Align(a, l) + Size[l]

Nodes == UNION {{<<l, i>> : i \in 0..(MaxPaddr \div Size[l] - 1)} : l \in Levels}
Node(l, a) == <<l, a \div Size[l]>>
PagesOf(n) == (n[2] * Size[n[1]])..((n[2] + 1) * Size[n[1]] - 1)
Children(n) == {<<n[1] - 1, j>> : j \in (n[2] * Fan)..(n[2] * Fan + Fan - 1)}
Under(x, n) == x[1] < n[1] /\ x[2] * Size[x[1]] \in PagesOf(n)

(* Privileges are sets of r, w, x; memory types are the sets of bits of    *)
(* their three-bit code, so that the code's "&" is intersection.           *)
Full == {"r", "w", "x"}
UC == {}
WC == {0}
WT == {2}
WP == {0, 2}
WB == {1, 2}
MemTypes == {UC, WC, WT, WP, WB}

Attr(p, ty, m) == [pvl |-> p, ty |-> ty, m |-> m]
Entry(k, a) == [k |-> k, pvl |-> a.pvl, ty |-> a.ty, m |-> a.m]
Absent == Entry("none", Attr({}, UC, FALSE))

(* npg_zero keeps the memory type of an entry an MTRR has described.       *)
Zero(en) == Entry("none", Attr({}, IF en.m THEN en.ty ELSE UC, en.m))

(* npg_get_attr reads the low seven bits: the MTRR mark, bit 52, is lost.  *)
GetAttr(en) == Attr(en.pvl, en.ty, FALSE)

(* npg_set_entry: a table entry has full privileges and no memory type.    *)
Table(a) == Entry("table", Attr(Full, UC, a.m))

(* __ept_mtrr_resolve: two MTRRs on one page give the common type.         *)
MtrrResolve(old, new) == IF old = new THEN new ELSE old \cap new
MtrrConflict(old, new) == old # new /\ old \cap new \notin {UC, WT}
Resolved(en, a) == en.m /\ a.m

(* npg_set_page_entry and npg_set_large_page_entry *)
Page(en, a) ==
  Entry("page", [a EXCEPT !.ty = IF Resolved(en, a) THEN MtrrResolve(en.ty, a.ty) ELSE a.ty])
PageConflict(en, a) == Resolved(en, a) /\ MtrrConflict(en.ty, a.ty)

EmptyMap(pool) == [e |-> [n \in Nodes |-> Absent], pool |-> pool, ok |-> TRUE, low |-> FALSE]

Present(t, n) == t.e[n].k # "none"
Large(t, n) == t.e[n].k = "page"
Tables(t) == {n \in Nodes : t.e[n].k = "table"}
Ancestors(n) == {x \in Nodes : Under(n, x)}

----------------------------------------------------------------------------
(* Mutant: only the table of the entry itself is freed.                    *)
UnmapNodeLeak(t, n) ==
  [t EXCEPT !.e = [x \in Nodes |-> IF x = n THEN Zero(t.e[n])
                                   ELSE IF Under(x, n) THEN Absent ELSE t.e[x]],
            !.pool = @ + (IF n \in Tables(t) THEN 1 ELSE 0)]

(* __npg_unmap_2M and __npg_unmap_1G: the entry is cleared and the tables  *)
(* below it go back to the pool.  An entry that is not present is "not     *)
(* large" to __npg_unmap_2M: its table address is 0, so page 0 is cleared  *)
(* as if it were a page table (the pool refuses that page).                *)
UnmapNode(t, n) ==
  [t EXCEPT !.e = [x \in Nodes |-> IF x = n THEN Zero(t.e[n])
                                   ELSE IF Under(x, n) THEN Absent ELSE t.e[x]],
            !.pool = @ + Cardinality({x \in Tables(t) : x = n \/ Under(x, n)}),
            !.low = @ \/ ~Present(t, n)]

(* The page size __npg_map_1G and __npg_map_2M end on: the first one at or *)
(* below level l that the processor has, skillz.pg_1G and pg_2M.           *)
LeafLevel(sk, l) == IF l = 3 /\ "1G" \in sk THEN 3
                    ELSE IF l >= 2 /\ "2M" \in sk THEN 2 ELSE 1

(* __npg_map_1G_nolarge, __npg_map_2M_nolarge and the large cases: the     *)
(* entry n and everything under it, with leaves of level lf.  Tables are   *)
(* new pages of the pool, cleared; without one the code panics.            *)
Fill(t, n, a, lf) ==
  LET new == {x \in Nodes : x[1] > lf /\ (x = n \/ Under(x, n))}
  IN [t EXCEPT !.e = [x \in Nodes |->
                       IF x \in new THEN Table(a)
                       ELSE IF x = n THEN Page(t.e[n], a)
                       ELSE IF Under(x, n) /\ x[1] = lf THEN Page(Absent, a)
                       ELSE t.e[x]],
               !.pool = @ - Cardinality(new),
               !.ok = @ /\ t.pool >= Cardinality(new)
                        /\ (n[1] > lf \/ ~PageConflict(t.e[n], a))]

MapNode(t, n, a, sk) ==
  LET u == IF Present(t, n) /\ n[1] > 1 THEN UnmapNode(t, n) ELSE t
  IN Fill(u, n, a, LeafLevel(sk, n[1]))

(* __npg_remap_1G_finest and __npg_remap_2M_finest: a large page becomes a *)
(* table of the next size down that the processor has.                     *)
Split(t, n, sk) ==
  LET u == UnmapNode(t, n)
  IN Fill(u, n, GetAttr(t.e[n]), LeafLevel(sk, n[1] - 1))

(* __npg_resolve_pdpe, _pde and _pte: the missing tables above an entry.   *)
Resolve(t, n, a) ==
  LET new == {x \in Ancestors(n) : ~Present(t, x)}
  IN [t EXCEPT !.e = [x \in Nodes |-> IF x \in new THEN Table(a) ELSE t.e[x]],
               !.pool = @ - Cardinality(new),
               !.ok = @ /\ t.pool >= Cardinality(new)]

(* _npg_map_4K, _2M, _1G: nothing happens below a larger page.             *)
MapOne(t, n, a, sk) ==
  IF \E x \in Ancestors(n) : Large(t, x) THEN t
  ELSE MapNode(Resolve(t, n, a), n, a, sk)

(* _npg_map_512G: the 1G entries of one root entry *)
MapRoot(t, n, a, sk) ==
  LET first == SetToSortSeq(Children(n), LAMBDA x, y : x[2] < y[2])
  IN FoldLeft(LAMBDA u, c : MapNode(u, c, a, sk), Resolve(t, first[1], a), first)

MapOp(t, l, p, a, sk) ==
  IF l = 4 THEN MapRoot(t, Node(4, p), a, sk) ELSE MapOne(t, Node(l, p), a, sk)

(* _npg_remap_finest_4K: the table entry of a page that is mapped at all.  *)
RemapFinest(t, p, sk) ==
  IF ~Present(t, Node(4, p)) \/ ~Present(t, Node(3, p)) THEN t
  ELSE LET u == IF Large(t, Node(3, p)) THEN Split(t, Node(3, p), sk) ELSE t
       IN IF Large(u, Node(2, p)) THEN Split(u, Node(2, p), sk) ELSE u

(* _npg_get_pte answers a table entry only *)
HasPte(t, p) == \A l \in 2..4 : t.e[Node(l, p)].k = "table"

UnmapPage(t, p, sk) ==
  LET u == RemapFinest(t, p, sk)
  IN IF HasPte(u, p) THEN [u EXCEPT !.e[Node(1, p)] = Zero(@)] ELSE u

(* _npg_unmap_2M does not ask whether the 2M entry is present.             *)
UnmapMid(t, n, p, sk) ==
  IF ~Present(t, Node(4, p)) \/ ~Present(t, Node(3, p)) THEN t
  ELSE UnmapNode(IF Large(t, Node(3, p)) THEN Split(t, Node(3, p), sk) ELSE t, n)

UnmapBig(t, n) ==
  IF (\A x \in Ancestors(n) : Present(t, x)) /\ Present(t, n) THEN UnmapNode(t, n) ELSE t

(* _npg_unmap_512G: the root entry keeps its table.                        *)
UnmapRoot(t, n) ==
  FoldLeft(LAMBDA u, c : UnmapBig(u, c), t,
           SetToSortSeq(Children(n), LAMBDA x, y : x[2] < y[2]))

UnmapOp(t, l, p, sk) ==
  CASE l = 4 -> UnmapRoot(t, Node(4, p))
    [] l = 3 -> UnmapBig(t, Node(3, p))
    [] l = 2 -> UnmapMid(t, Node(2, p), p, sk)
    [] l = 1 -> UnmapPage(t, p, sk)

----------------------------------------------------------------------------
(* The decomposition of a range into operations of the four sizes, as the  *)
(* sequence of the operations <<level, page>>.                             *)
Steps(l, from, to) ==
  IF from >= to THEN <<>>
  ELSE [k \in 1..((to - from + Size[l] - 1) \div Size[l]) |-> <<l, from + (k - 1) * Size[l]>>]

After(from, ops) == IF ops = <<>> THEN from ELSE Last(ops)[2] + Size[Last(ops)[1]]

LesserOf(a, b) == IF a < b THEN a ELSE b

(* __npg_bk_op, from the smallest size up: at each level what the level    *)
(* below did, or one operation when start is aligned, then whole entries   *)
(* until the next entry of the level above.                                *)
BkUpper(s, l) == IF l = 4 THEN MaxPaddr ELSE AlignNext(s, l + 1)
BkOps(s, e) ==
  LET bk[l \in 0..4] ==
        IF l = 0 THEN <<>>
        ELSE LET direct == l > 1 /\ s % Size[l] = 0 /\ s \div Size[l] # e \div Size[l]
                 ops == IF direct THEN <<<<l, s>>>> ELSE bk[l - 1]
             IN ops \o Steps(l, After(s, ops), LesserOf(Align(e, l), BkUpper(s, l)))
  IN bk[4]

(* Mutant: the end is rounded up to the size at hand.                      *)
FwOpsWhole(s, e) ==
  LET fw[l \in 0..4] ==
        IF l = 0 THEN <<>>
        ELSE [from \in 0..(2 * MaxPaddr) |->
               IF l > 2 THEN fw[l - 1][from] ELSE Steps(l, from, e)]
  IN fw[4][s]

(* __npg_fw_op, from the largest size down *)
FwOps(s, e) ==
  LET fw[l \in 0..4] ==
        IF l = 0 THEN <<>>
        ELSE [from \in 0..(2 * MaxPaddr) |->
               LET ops == Steps(l, from, Align(e, l))
               IN IF l > 1 /\ e % Size[l] # 0 THEN ops \o fw[l - 1][After(from, ops)] ELSE ops]
  IN fw[4][s]

RangeOps(s, e) == BkOps(s, e) \o FwOps(After(s, BkOps(s, e)), e)

npg_map(t, s, e, a, sk) ==
  FoldLeft(LAMBDA u, op : MapOp(u, op[1], op[2], a, sk), t, RangeOps(s, e))
npg_unmap(t, s, e, sk) ==
  FoldLeft(LAMBDA u, op : UnmapOp(u, op[1], op[2], sk), t, RangeOps(s, e))

----------------------------------------------------------------------------
(* What the processor's walk finds at a page: the first entry that is not  *)
(* a table (__npg_walk).                                                   *)
Walk(t, p) ==
  LET lv == CHOOSE l \in Levels : /\ t.e[Node(l, p)].k # "table"
                                  /\ \A h \in Levels : h > l => t.e[Node(h, p)].k = "table"
  IN t.e[Node(lv, p)]
Mapped(t) == {p \in Pages : Walk(t, p).k = "page"}
============================================================================
