----------------------------- MODULE GuestMemory -----------------------------
(***************************************************************************)
(* How the VMM reads and writes the memory of the guest: the page walk of  *)
(* core/mmu_walk.c in its three modes and the access machinery of          *)
(* core/vm.c.  A page has PageSz bytes and a table two entries, so that a  *)
(* large page at level 2 covers two pages and one at level 3 four.  The    *)
(* contents of memory are not kept: an access yields the physical bytes it *)
(* touched, in order.                                                      *)
(***************************************************************************)
EXTENDS Integers, Sequences, SequencesExt

CONSTANTS
    Area,       \* the frames of the VMM (info->area)
    Frames      \* all frames

ASSUME MemoryAssumption == Frames \subseteq Nat /\ 0 \in Frames /\ Area \subseteq Nat

PageSz == 2

\* What one entry of level l maps, and its index for an address.
Size(l) == <<PageSz, 2 * PageSz, 4 * PageSz, 8 * PageSz>>[l]
Idx(v, l) == (v \div Size(l)) % 2
Frame(p) == p \div PageSz

\* vmm_area: one address.
vmm_area(p) == Frame(p) \in Area

\* vmm_area_range: a range is in the area when both of its ends are.
vmm_area_range(p, n) ==
    IF n < 2 THEN vmm_area(p) ELSE vmm_area(p) /\ vmm_area(p + n - 1)

\* pml4e_t, pdpe_t, pde64_t, pte64_t, pde32_t and pte32_t: present, writable,
\* user, page size, and the frame of the next table or of the page.
Entry == [p : BOOLEAN, w : BOOLEAN, u : BOOLEAN, ps : BOOLEAN, f : Frames]
PageTables == [Frames -> [0..1 -> Entry]]

\* The control bits of the guest that a walk depends on, and its privilege.
Controls == [pg : BOOLEAN, pae : BOOLEAN, pse : BOOLEAN, lma : BOOLEAN, cpl : {0, 3}]

\* pg_wlk_t while the tables are walked.
WalkStart(cr3) ==
    [rc |-> "WALKING", f |-> cr3, w |-> TRUE, u |-> TRUE, addr |-> 0, size |-> 0]

\* One level: the table must not be in the area of the VMM, the entry must be
\* present, its rights are and-ed in, and it is the last one if it is large.
Level(pt, v, l, large, rights, wlk) ==
    LET e == pt[wlk.f][Idx(v, l)]
        r == IF rights THEN [wlk EXCEPT !.w = @ /\ e.w, !.u = @ /\ e.u] ELSE wlk
    IN  IF wlk.rc # "WALKING" THEN wlk
        ELSE IF wlk.f \in Area THEN [wlk EXCEPT !.rc = "FAIL"]
        ELSE IF ~e.p THEN [wlk EXCEPT !.rc = "FAULT"]
        ELSE IF l = 1 \/ (large /\ e.ps)
        THEN [r EXCEPT !.rc = "DONE", !.size = Size(l),
                       !.addr = ((e.f * PageSz) \div Size(l)) * Size(l) + (v % Size(l))]
        ELSE [r EXCEPT !.f = e.f]

\* __pg_walk_lmode: four levels, large pages at levels 3 (when the cpu has
\* 1GB pages, which this instance lets it have) and 2, cr4.pse ignored.
__pg_walk_lmode(pt, c, cr3, v) ==
    LET pml4e == Level(pt, v, 4, FALSE, TRUE, WalkStart(cr3))
        pdpe == Level(pt, v, 3, TRUE, TRUE, pml4e)
        pde == Level(pt, v, 2, TRUE, TRUE, pdpe)
    IN  Level(pt, v, 1, FALSE, TRUE, pde)

\* __pg_walk_pmode_pae: the first level carries no rights, a large page needs
\* cr4.pse.
__pg_walk_pmode_pae(pt, c, cr3, v) ==
    LET pdpe == Level(pt, v, 3, FALSE, FALSE, WalkStart(cr3))
        pde == Level(pt, v, 2, c.pse, TRUE, pdpe)
    IN  Level(pt, v, 1, FALSE, TRUE, pde)

\* __pg_walk_pmode: two levels.
__pg_walk_pmode(pt, c, cr3, v) ==
    LET pde == Level(pt, v, 2, c.pse, TRUE, WalkStart(cr3))
    IN  Level(pt, v, 1, FALSE, TRUE, pde)

\* __pg_walk: c holds the control bits the walk depends on.
__pg_walk(pt, c, cr3, v) ==
    IF c.lma THEN __pg_walk_lmode(pt, c, cr3, v)
    ELSE IF c.pae THEN __pg_walk_pmode_pae(pt, c, cr3, v)
    ELSE __pg_walk_pmode(pt, c, cr3, v)

-----------------------------------------------------------------------------
\* __vm_access_local_operator and __vm_access_remote_operator: every byte of
\* the piece is moved, in order.
Operator(p, n) == [rc |-> "DONE", bytes |-> [i \in 1..n |-> p + i - 1]]

\* __vm_access_system_identity; no client filters system memory here, so
\* __vm_access_system always comes to it.
__vm_access_system_identity(p, n) ==
    IF vmm_area_range(p, n) THEN [rc |-> "FAIL", bytes |-> <<>>] ELSE Operator(p, n)

__vm_access_physical(p, n) ==
    IF n = 0 THEN [rc |-> "DONE", bytes |-> <<>>]
    ELSE __vm_access_system_identity(p, n)

\* __vm_access_validate: a request of the VMM sees a missing page as PARTIAL
\* and passes the rights; a request of the guest gets a page fault.
Validated(wlk, c, rq, wr) ==
    LET denied == (wr /\ ~wlk.w) \/ (c.cpl = 3 /\ ~wlk.u)
    IN  [wlk EXCEPT !.rc =
            CASE @ = "FAIL" -> "FAIL"
              [] @ = "FAULT" -> IF rq = "VMM" THEN "PARTIAL" ELSE "FAULT"
              [] @ = "DONE" -> IF denied /\ rq # "VMM" THEN "FAULT" ELSE "DONE"]

__vm_access_validate(pt, c, rq, wr, cr3, v) ==
    Validated(__pg_walk(pt, c, cr3, v), c, rq, wr)

\* Mutant: a piece is as long as a page wherever it starts.
AlignWhole(v, n) == v + n

\* __align_next of types.h.
AlignNext(v, n) == ((v + n) \div n) * n

\* One turn of the loop of __vm_access_virtual: the part in the page of va of
\* the n bytes there; rest[i] is what the last i bytes come to.
InPage(wlk, va, n, rest) ==
    LET k == Min({n, AlignNext(va, wlk.size) - va})
        ph == __vm_access_physical(wlk.addr, k)
    IN  IF n = 0 THEN [rc |-> "DONE", bytes |-> <<>>]
        ELSE IF wlk.rc # "DONE" THEN [rc |-> wlk.rc, bytes |-> <<>>]
        ELSE IF ph.rc # "DONE" THEN ph
        ELSE [rest[n - k] EXCEPT !.bytes = ph.bytes \o @]

Piece(pt, c, rq, wr, cr3, va, n, rest) ==
    InPage(__vm_access_validate(pt, c, rq, wr, cr3, va), va, n, rest)

\* __vm_access_virtual: one piece per page walked, up to the first that fails.
__vm_access_virtual(pt, c, rq, wr, cr3, v, len) ==
    LET piece[n \in 0..len] == Piece(pt, c, rq, wr, cr3, v + len - n, n, piece)
    IN  IF ~c.pg THEN __vm_access_physical(v, len) ELSE piece[len]

\* vm_read_mem_sz and vm_write_mem_sz: on behalf of the guest, in its own cr3,
\* telling how much was done; __vm_read_mem and __vm_read_vmem: for the VMM.
vm_access_sz(pt, c, wr, v, len) == __vm_access_virtual(pt, c, "VM", wr, 0, v, len)
__vm_access_mem(pt, c, wr, cr3, v, len) ==
    __vm_access_virtual(pt, c, "VMM", wr, cr3, v, len)

-----------------------------------------------------------------------------
(***************************************************************************)
(* The reference: what the memory management unit does with an address.    *)
(* The path of tables follows the entries; the leaf is the highest level   *)
(* whose entry maps a page; every entry down to it must be present.        *)
(***************************************************************************)
Top(c) == IF c.lma THEN 4 ELSE IF c.pae THEN 3 ELSE 2

TableAt(pt, c, cr3, v, l) ==
    LET below(t, k) == IF k > Top(c) THEN cr3 ELSE pt[t][Idx(v, k)].f
        t3 == below(cr3, 4)
        t2 == below(t3, 3)
    IN  <<below(t2, 2), t2, t3, cr3>>[l]

Path(pt, c, cr3, v) ==
    [l \in 1..Top(c) |-> pt[TableAt(pt, c, cr3, v, l)][Idx(v, l)]]

MapsPage(c, e, l) ==
    l = 1 \/ (e.ps /\ ((l = 2 /\ (c.lma \/ c.pae \/ c.pse)) \/ (l = 3 /\ c.lma)))

Leaf(pt, c, cr3, v) ==
    Max({l \in 1..Top(c) : MapsPage(c, Path(pt, c, cr3, v)[l], l)})

Mapped(pt, c, cr3, v) ==
    \A l \in Leaf(pt, c, cr3, v)..Top(c) : Path(pt, c, cr3, v)[l].p

\* The physical byte of a mapped address.
Translate(pt, c, cr3, v) ==
    LET l == Leaf(pt, c, cr3, v)
        base == (Path(pt, c, cr3, v)[l].f * PageSz) \div Size(l)
    IN  base * Size(l) + (v % Size(l))

\* A table that leads to the byte, or the byte itself, belongs to the VMM.
ThroughVmm(pt, c, cr3, v) ==
    \E l \in Leaf(pt, c, cr3, v)..Top(c) : TableAt(pt, c, cr3, v, l) \in Area
OfVmm(pt, c, cr3, v) ==
    IF ~c.pg THEN vmm_area(v)
    ELSE ThroughVmm(pt, c, cr3, v) \/ vmm_area(Translate(pt, c, cr3, v))

\* Two addresses in one page; without paging memory is in one piece.
OnePage(pt, c, cr3, v, w) ==
    c.pg => v \div Size(Leaf(pt, c, cr3, v)) = w \div Size(Leaf(pt, c, cr3, v))

\* What the guest itself may do at its privilege (write protection on).
Allowed(pt, c, wr, cr3, v) ==
    \A l \in Leaf(pt, c, cr3, v)..Top(c) :
        LET e == Path(pt, c, cr3, v)[l] IN
        (l = 3 /\ ~c.lma) \/ ((wr => e.w) /\ (c.cpl = 3 => e.u))
=============================================================================
