---------------------------- MODULE ClientProofs ----------------------------
(***************************************************************************)
(* Theorems about Client: for any registers' values, breakpoints, names    *)
(* and events, and any number of stops under way.                          *)
(***************************************************************************)
EXTENDS Client, FiniteSetTheorems, WellFoundedInduction, TLAPS

(***************************************************************************)
(* Constants                                                               *)
(***************************************************************************)
LEMMA ContentIs ==
  /\ Content("pc") = Addr /\ Content("cr3") = Value /\ Content("dr6") = Raised
  /\ \A r \in Regs : r \in {"pc", "cr3", "dr6"}
BY DEF Content, Regs

LEMMA DefaultIn == \A r \in Regs : Default(r) \in Content(r)
<1>1. Addr # {} /\ Value # {} /\ {} \in Raised
  BY ClientAssumption DEF Raised
<1>2. \A r \in Regs : Content(r) # {}
  BY <1>1, ContentIs
<1> QED
  BY <1>2 DEF Default

LEMMA RegisterIn ==
  ASSUME NEW r \in Regs, NEW v \in Content(r)
  PROVE  {Unknown(r), Known(v), Pending(v)} \subseteq Register(r)
BY DefaultIn DEF Unknown, Known, Pending, Register

\* The lowest of some slots, as the loops over the debug registers find it.
LEMMA LowestIn ==
  ASSUME NEW S \in SUBSET Slot, S # {}
  PROVE  Lowest(S) \in S
<1>1. S \subseteq {0, 1, 2, 3}
  BY ClientAssumption
<1>2. \E n \in S : \A k \in S : n <= k
  <2>1. CASE 0 \in S
    BY <1>1, <2>1
  <2>2. CASE 0 \notin S /\ 1 \in S
    BY <1>1, <2>2
  <2>3. CASE 0 \notin S /\ 1 \notin S /\ 2 \in S
    BY <1>1, <2>3
  <2>4. CASE S = {3}
    BY <2>4
  <2> QED
    BY <1>1, <2>1, <2>2, <2>3, <2>4
<1> QED
  BY <1>2 DEF Lowest

LEMMA LowestOne == ASSUME NEW n \in Slot PROVE Lowest({n}) = n
BY LowestIn

LEMMA BreakKinds ==
  /\ \A b \in Breaks : b.type \in {0, 1, 2, 4}
  /\ \A b \in Breaks : b.type = 0 => b.addr \in Code /\ b = SoftAt(b.addr)
  /\ \A b \in Breaks : b.type # 0 => b \in Hard
  /\ NoBreak \notin Breaks /\ Stepped \notin Breaks /\ Called \notin Breaks
  /\ \A b \in Breaks : b.type = 0 <=> b \in Soft
  /\ \A a \in Code : SoftAt(a) \in Soft
  /\ Hard \subseteq Breaks /\ Soft \subseteq Breaks
  /\ \A b \in Hard : b.type # 0
  /\ Code \subseteq Addr
  /\ \A a \in Addr : SoftAt(a) # NoBreak
<1>1. \A b \in Hard : b.type \in {1, 2, 4}
  BY ClientAssumption
<1>2. \A a \in Addr : SoftAt(a).type = 0 /\ SoftAt(a).addr = a
  BY DEF SoftAt
<1>3. NoBreak.type = 9 /\ Stepped.type = 8 /\ Called.type = 7
  BY DEF NoBreak, Stepped, Called
<1>4. Code \subseteq Addr
  BY ClientAssumption
<1>5. \A b \in Breaks : b \in Hard \/ \E a \in Code : b = SoftAt(a)
  BY DEF Breaks, Soft
<1>6. Hard \subseteq Breaks /\ Soft \subseteq Breaks /\ \A a \in Code : SoftAt(a) \in Soft
  BY DEF Breaks, Soft
<1>7. \A b \in Breaks : b.type \in {0, 1, 2, 4}
  BY <1>1, <1>2, <1>4, <1>5
<1>8. \A b \in Breaks : b.type = 0 => b.addr \in Code /\ b = SoftAt(b.addr)
  BY <1>1, <1>2, <1>4, <1>5
<1>9. \A b \in Breaks : b.type # 0 => b \in Hard
  BY <1>2, <1>4, <1>5
<1>10. NoBreak \notin Breaks /\ Stepped \notin Breaks /\ Called \notin Breaks
  BY <1>3, <1>7
<1>11. \A a \in Addr : SoftAt(a) # NoBreak
  BY <1>2, <1>3
<1>12. \A b \in Hard : b.type # 0
  BY <1>1
<1>13. \A b \in Breaks : b.type = 0 <=> b \in Soft
  BY <1>2, <1>4, <1>6, <1>8 DEF Soft
<1> QED
  BY <1>4, <1>6, <1>7, <1>8, <1>9, <1>10, <1>11, <1>12, <1>13

LEMMA RaisedIn ==
  ASSUME NEW n \in Slot
  PROVE  {{}, {n}, {BS}, {n, BS}} \subseteq Raised
BY DEF Raised

\* The names of the list and the slots of the table can be counted.
LEMMA NamesFinite ==
  /\ IsFiniteSet(Names) /\ IsFiniteSet(SoftSlot) /\ SoftSlot \subseteq Nat
  /\ DBG_SOFT_NR \in Nat \ {0}
<1>1. DBG_SOFT_NR \in Nat \ {0} /\ IsFiniteSet(Names)
  BY ClientAssumption DEF Names
<1>2. IsFiniteSet(SoftSlot) /\ SoftSlot \subseteq Nat
  BY <1>1, FS_Interval DEF SoftSlot
<1> QED
  BY <1>1, <1>2

\* A set of slots that is not empty has a first one.
LEMMA FirstSlot ==
  ASSUME NEW S \in SUBSET SoftSlot, S # {}
  PROVE  \E x \in S : \A y \in S : x <= y
<1> DEFINE R == OpToRel(<, Nat)
<1>1. IsWellFoundedOn(R, Nat)
  BY NatLessThanWellFounded
<1>2. S \subseteq Nat
  BY NamesFinite
<1>3. \A x, y \in Nat : y < x => <<y, x>> \in R
  BY DEF OpToRel
<1> HIDE DEF R
<1>4. PICK x \in S : \A y \in S : ~(<<y, x>> \in R)
  BY <1>1, <1>2, WFMin
<1>5. \A y \in S : ~(y < x)
  BY <1>2, <1>3, <1>4, Zenon
<1> QED
  BY <1>2, <1>5

LEMMA NamesAre ==
  /\ Len(Autos) \in Nat /\ DOMAIN Autos = 1 .. Len(Autos)
  /\ \A i \in DOMAIN Autos : Autos[i] \in Names
  /\ \A i, j \in DOMAIN Autos : Autos[i] = Autos[j] => i = j
  /\ \A i \in DOMAIN Autos : Autos[i] \notin Explicit
  /\ Explicit \subseteq Names
BY ClientAssumption DEF Names, Range

(***************************************************************************)
(* Types                                                                   *)
(***************************************************************************)
LEMMA SeesIn ==
  ASSUME TypeOK, NEW r \in Regs
  PROVE  Sees(r) \subseteq Content(r)
BY DEF Sees, TypeOK, RegsType

LEMMA TrappedIn ==
  ASSUME TypeOK, NEW d, NEW p
  PROVE  Trapped(d, p) \in Breaks \cup {NoBreak, Stepped}
<1>1. \A n \in Names : list[n].break \in Breaks \cup {NoBreak}
  BY DEF TypeOK, ListType, Entry
<1> QED
  BY <1>1 DEF Trapped

LEMMA Queued ==
  ASSUME TypeOK
  PROVE  /\ pool \o stops \in Seq(Stops)
         /\ Len(pool \o stops) = Len(pool) + Len(stops)
         /\ Len(pool) \in Nat /\ Len(stops) \in Nat
         /\ MaxStops \in Nat \ {0}
BY ClientAssumption DEF TypeOK, LinkType

LEMMA CommandLink ==
  ASSUME TypeOK, Bounded, Command
  PROVE  LinkType' /\ Bounded' /\ ~intr /\ ~intr'
<1>1. stops' = <<>> /\ stops' \in Seq(Stops) /\ Len(stops') = 0
  BY DEF Command
<1>2. pool' \in Seq(Stops) /\ Len(pool') = Len(pool) + Len(stops)
  BY Queued DEF Command
<1> QED
  BY <1>1, <1>2, Queued DEF TypeOK, LinkType, Command, Bounded

LEMMA LinkUntouched ==
  ASSUME TypeOK, Bounded, UNCHANGED link
  PROVE  LinkType' /\ Bounded'
BY DEF TypeOK, LinkType, link, Bounded

LEMMA PreemptLink ==
  ASSUME TypeOK, NEW s \in Stops, NEW p \in Addr, NEW c \in Value, NEW d \in Raised,
         Preempt(s, p, c, d)
  PROVE  /\ RegsType' /\ stops' \in Seq(Stops) /\ Len(stops') = Len(stops) + 1
         /\ stops' = Append(stops, s) /\ lock'
         /\ regs'["pc"] = p /\ regs'["cr3"] = c /\ regs'["dr6"] = d
<1>1. stops \in Seq(Stops)
  BY DEF TypeOK, LinkType
<1>2. regs' = [pc |-> p, cr3 |-> c, dr6 |-> d]
  BY DEF Preempt
<1>3. DOMAIN regs' = Regs /\ regs'["pc"] = p /\ regs'["cr3"] = c /\ regs'["dr6"] = d
  BY <1>2 DEF Regs
<1>4. RegsType'
  BY <1>3, ContentIs DEF RegsType
<1> QED
  BY <1>1, <1>3, <1>4 DEF Preempt

LEMMA StopIn ==
  ASSUME TypeOK, NEW why \in Reasons \ {"none"}, NEW p \in Addr,
         NEW on \in Breaks \cup {NoBreak, Stepped}
  PROVE  Stop(why, p, on) \in Stops
BY DEF Stop, Stops, TypeOK, StubType

\* What a stop that the guest runs into, or a ^C, changes.
LEMMA PreemptType ==
  ASSUME TypeOK, Bounded,
         NEW s \in Stops, NEW p \in Addr, NEW c \in Value, NEW d \in Raised,
         Preempt(s, p, c, d), step' \in BOOLEAN,
         \/ intr /\ ~intr'
         \/ intr' = intr /\ Len(stops) + Len(pool) + (IF intr THEN 1 ELSE 0) < MaxStops,
         intr' \in BOOLEAN,
         UNCHANGED <<asked, pool, loop, last, chosen, cache, handlers, breaks, astray>>
  PROVE  TypeOK' /\ Bounded'
<1>1. RegsType' /\ stops' \in Seq(Stops) /\ Len(stops') = Len(stops) + 1 /\ lock'
  BY PreemptLink
<1>2. LinkType' /\ Bounded'
  BY <1>1, Queued DEF TypeOK, LinkType, Bounded
<1>3. StubType' /\ TableType' /\ LoopType' /\ CacheType' /\ ListType' /\ HandleType'
  BY <1>1 DEF TypeOK, StubType, TableType, LoopType, CacheType, ListType, HandleType, asked,
              table, loop, breaks
<1> QED
  BY <1>1, <1>2, <1>3 DEF TypeOK

LEMMA FiresType ==
  ASSUME TypeOK, Bounded, NEW why \in Reasons \ {"none"},
         NEW on \in Breaks \cup {NoBreak, Stepped}, NEW p \in Addr, NEW d \in Raised,
         Fires(why, on, p, d), step' \in BOOLEAN
  PROVE  TypeOK' /\ Bounded'
<1>1. PICK c \in Value, e \in Dr6At(d) : Preempt(Stop(why, p, on), p, c, e)
  BY DEF Fires
<1>2. e \in Raised
  BY DEF Dr6At, Raised
<1>3. Stop(why, p, on) \in Stops
  BY StopIn
<1>4. /\ intr' = intr /\ Len(stops) + Len(pool) + (IF intr THEN 1 ELSE 0) < MaxStops
      /\ UNCHANGED <<asked, pool, loop, last, chosen, cache, handlers, breaks, astray>>
  BY DEF Fires, Outstanding
<1>5. intr' \in BOOLEAN
  BY <1>4 DEF TypeOK, LinkType
<1> QED
  BY <1>1, <1>2, <1>3, <1>4, <1>5, PreemptType

\* What the stub stops on is a breakpoint that can be asked for.
LEMMA SoftIn ==
  ASSUME TypeOK, NEW p \in Addr, Backed(SoftAt(p))
  PROVE  SoftAt(p) \in Soft /\ SoftAt(p) \in Breaks /\ At(SoftAt(p)) # {}
<1>1. SoftAt(p).type = 0 /\ SoftAt(p) # NoBreak
  BY BreakKinds DEF SoftAt
<1>2. At(SoftAt(p)) # {}
  BY <1>1 DEF Backed
<1> QED
  BY <1>1, <1>2, BreakKinds DEF At, TypeOK, TableType

LEMMA VmmType == ASSUME TypeOK, Bounded, Vmm PROVE TypeOK' /\ Bounded'
<1>1. regs["dr6"] \in Raised /\ step \in BOOLEAN
  BY ContentIs DEF TypeOK, RegsType, StubType, Regs
<1>2. "trap" \in Reasons \ {"none"} /\ Events \subseteq Reasons \ {"none"}
  BY ClientAssumption DEF Reasons
<1>3. {{}, {BS}} \subseteq Raised
  BY DEF Raised
<1>4. PICK p \in Addr : \/ \E e \in Events : FilteredEvent(e, p)
                        \/ SoftBreak(p) \/ SingleStepped(p)
                        \/ \E n \in Slot : HardBreak(n, p)
  BY DEF Vmm
<1>5. ASSUME NEW e \in Events, FilteredEvent(e, p) PROVE TypeOK' /\ Bounded'
  <2>1. Fires(e, NoBreak, p, regs["dr6"]) /\ step' = step
    BY <1>5 DEF FilteredEvent
  <2> QED
    BY <1>1, <1>2, <2>1, FiresType
<1>6. CASE SoftBreak(p)
  <2>1. Fires("trap", SoftAt(p), p, regs["dr6"]) /\ step' = step /\ SoftAt(p) \in Breaks
    BY <1>6, SoftIn DEF SoftBreak
  <2> QED
    BY <1>1, <1>2, <2>1, FiresType, BreakKinds
<1>7. CASE SingleStepped(p)
  <2>1. Fires("trap", Stepped, p, {BS}) /\ step' = FALSE
    BY <1>7 DEF SingleStepped
  <2> QED
    BY <1>2, <1>3, <2>1, FiresType
<1>8. ASSUME NEW n \in Slot, HardBreak(n, p) PROVE TypeOK' /\ Bounded'
  <2>1. \/ Fires("trap", hard[n], p, {n}) /\ step' = step
        \/ Fires("trap", Stepped, p, {n, BS}) /\ step' = FALSE
    BY <1>8 DEF HardBreak
  <2>2. hard[n] \in Breaks \cup {NoBreak, Stepped}
    BY BreakKinds DEF TypeOK, StubType
  <2> QED
    BY <1>1, <1>2, <2>1, <2>2, RaisedIn, FiresType
<1> QED
  BY <1>4, <1>5, <1>6, <1>7, <1>8

LEMMA StubIntType == ASSUME TypeOK, Bounded, StubInt PROVE TypeOK' /\ Bounded'
<1>1. PICK p \in Sees("pc"), c \in Sees("cr3") :
        Preempt(Stop("int", p, NoBreak), p, c, regs["dr6"])
  BY DEF StubInt
<1>2. p \in Addr /\ c \in Value /\ regs["dr6"] \in Raised
  BY SeesIn, ContentIs DEF TypeOK, RegsType, Regs
<1>3. Stop("int", p, NoBreak) \in Stops
  BY <1>2, StopIn DEF Reasons
<1>4. /\ intr /\ intr' = FALSE /\ step' = step
      /\ UNCHANGED <<asked, pool, loop, last, chosen, cache, handlers, breaks, astray>>
  BY DEF StubInt
<1>5. step \in BOOLEAN
  BY DEF TypeOK, StubType
<1> QED
  BY <1>1, <1>2, <1>3, <1>4, <1>5, PreemptType

\* Flushing and forgetting registers.
LEMMA Flushed ==
  ASSUME TypeOK, NEW rs
  PROVE  /\ DOMAIN Written(rs) = Regs /\ \A r \in Regs : Written(rs)[r] \in Content(r)
         /\ DOMAIN Dirtied(rs) = Regs /\ \A r \in Regs : Dirtied(rs)[r] \in Register(r)
<1>1. \A r \in Regs : cache[r] \in Register(r) /\ regs[r] \in Content(r)
  BY DEF TypeOK, RegsType, CacheType
<1>2. \A r \in Regs : cache[r].val \in Content(r)
  BY <1>1 DEF Register
<1>3. \A r \in Regs : Unknown(r) \in Register(r)
  BY DefaultIn DEF Unknown, Register
<1> QED
  BY <1>1, <1>2, <1>3 DEF Written, Dirtied

LEMMA Cleaned ==
  ASSUME NEW r, DOMAIN r = Regs, \A x \in Regs : r[x] \in Content(x)
  PROVE  /\ DOMAIN CleanDr6(r) = Regs /\ \A x \in Regs : CleanDr6(r)[x] \in Content(x)
         /\ CleanDr6(r)["dr6"] = {}
<1>1. {} \in Content("dr6") /\ "dr6" \in Regs
  BY ContentIs DEF Raised, Regs
<1> QED
  BY <1>1 DEF CleanDr6

LEMMA EmptyType == EmptyTable => TableType'
BY NamesFinite DEF EmptyTable, TableType

LEMMA CommandsType ==
  ASSUME TypeOK, Bounded,
         \/ \E r \in Regs : ReadReg(r)
         \/ \E r \in Regs \ {"dr6"} : \E v \in Content(r) : WriteReg(r, v)
         \/ MemAccess
         \/ \E e \in Events : FilterEvent(e) \/ ReleaseEvent(e)
         \/ \E on \in BOOLEAN : ActiveCr3(on)
  PROVE  TypeOK' /\ Bounded'
<1>1. ASSUME NEW r \in Regs, ReadReg(r) PROVE TypeOK' /\ Bounded'
  <2>1. LinkType' /\ Bounded'
    BY <1>1, CommandLink DEF ReadReg
  <2>2. PICK v \in Sees(r) : cache' = [cache EXCEPT ![r] = Known(v)]
    BY <1>1 DEF ReadReg
  <2>3. CacheType'
    BY <2>2, SeesIn, RegisterIn DEF TypeOK, CacheType
  <2> QED
    BY <1>1, <2>1, <2>3
       DEF ReadReg, TypeOK, RegsType, StubType, TableType, LoopType, ListType, HandleType, vmm, table,
           loop, breaks
<1>2. ASSUME NEW r \in Regs, NEW v \in Content(r), WriteReg(r, v) PROVE TypeOK' /\ Bounded'
  <2>1. LinkType' /\ Bounded'
    BY <1>2, LinkUntouched DEF WriteReg
  <2>2. CacheType'
    BY <1>2, RegisterIn DEF WriteReg, TypeOK, CacheType
  <2> QED
    BY <1>2, <2>1, <2>2
       DEF WriteReg, TypeOK, RegsType, StubType, TableType, LoopType, ListType, HandleType, vmm, table,
           loop, breaks
<1>3. CASE MemAccess
  <2>1. LinkType' /\ Bounded'
    BY <1>3, CommandLink DEF MemAccess
  <2>2. RegsType' /\ CacheType'
    BY <1>3, Flushed DEF MemAccess, RegsType, CacheType
  <2> QED
    BY <1>3, <2>1, <2>2
       DEF MemAccess, TypeOK, StubType, TableType, LoopType, ListType, HandleType, asked, table, loop,
           breaks
<1>4. ASSUME NEW e \in Events, FilterEvent(e) \/ ReleaseEvent(e) PROVE TypeOK' /\ Bounded'
  <2>1. LinkType' /\ Bounded'
    BY <1>4, CommandLink DEF FilterEvent, ReleaseEvent
  <2>2. mask' \subseteq Events /\ handlers' \subseteq Events
    BY <1>4 DEF FilterEvent, ReleaseEvent, TypeOK, StubType, HandleType
  <2>3. UNCHANGED <<lock, regs, step, table, hard, filter, loop, last, chosen, cache, breaks, astray>>
    BY <1>4 DEF FilterEvent, ReleaseEvent
  <2> QED
    BY <2>1, <2>2, <2>3
       DEF TypeOK, RegsType, StubType, TableType, LoopType, CacheType, ListType, HandleType, table,
           loop, breaks
<1>5. ASSUME NEW on \in BOOLEAN, ActiveCr3(on) PROVE TypeOK' /\ Bounded'
  <2>1. LinkType' /\ Bounded'
    BY <1>5, CommandLink DEF ActiveCr3
  <2>2. filter' \in BOOLEAN /\ TableType' /\ unbacked' \subseteq Names
    BY <1>5, EmptyType DEF ActiveCr3, Forgotten, TypeOK, TableType, ListType, table
  <2>3. UNCHANGED <<lock, regs, step, mask, hard, loop, last, chosen, cache, handlers, list,
                    auto_name, astray>>
    BY <1>5 DEF ActiveCr3
  <2> QED
    BY <2>1, <2>2, <2>3
       DEF TypeOK, RegsType, StubType, LoopType, CacheType, ListType, HandleType, loop
<1> QED
  BY <1>1, <1>2, <1>3, <1>4, <1>5

(***************************************************************************)
(* The list of breakpoints                                                 *)
(***************************************************************************)
\* What is true of the list and of the stub's breakpoints, in every state.
SlotsOf(s, b) == {k \in SoftSlot : s[k] = b}
NamesOf(l, b) == {n \in Names : l[n].break = b}
BackedBy(s, c, h, b) ==
  IF b.type = 0 THEN c > 0 /\ SlotsOf(s, b) # {} ELSE \E n \in Slot : h[n] = b
AgreeIn(s, c, u, h, l, ub) ==
  /\ \A b \in Soft \ u : Cardinality(SlotsOf(s, b)) <= Cardinality(NamesOf(l, b))
  /\ \A k \in Slot : h[k] # NoBreak => NamesOf(l, h[k]) # {}
  /\ \A n \in Names \ ub : l[n] # Free => BackedBy(s, c, h, l[n].break)

LEMMA AgreeNow ==
  /\ \A b : Backed(b) <=> BackedBy(soft, cnt, hard, b)
  /\ \A b : At(b) = SlotsOf(soft, b) /\ Of(Names, b) = NamesOf(list, b)
  /\ BreaksAgree <=> AgreeIn(soft, cnt, unread, hard, list, unbacked)
BY DEF Backed, BackedBy, BreaksAgree, AgreeIn, At, Of, SlotsOf, NamesOf, Listed

LEMMA AgreeNext == BreaksAgree' <=> AgreeIn(soft', cnt', unread', hard', list', unbacked')
BY DEF Backed, BackedBy, BreaksAgree, AgreeIn, At, Of, SlotsOf, NamesOf, Listed

HardType == hard \in [Slot -> Hard \cup {NoBreak}]
BreaksInv == ListType /\ TableType /\ HardType /\ ListInv /\ BreaksAgree

\* Every count the stub and the list agree on is one of a finite set.
LEMMA Counts ==
  /\ \A s, b : IsFiniteSet(SlotsOf(s, b)) /\ Cardinality(SlotsOf(s, b)) \in Nat
  /\ \A l, b : IsFiniteSet(NamesOf(l, b)) /\ Cardinality(NamesOf(l, b)) \in Nat
  /\ \A ns \in SUBSET Names : \A b : IsFiniteSet(Of(ns, b)) /\ Cardinality(Of(ns, b)) \in Nat
  /\ \A ns \in SUBSET Names : IsFiniteSet(SoftOf(ns)) /\ Cardinality(SoftOf(ns)) \in Nat
<1>1. \A S \in SUBSET SoftSlot : IsFiniteSet(S) /\ Cardinality(S) \in Nat
  BY NamesFinite, FS_Subset, FS_CardinalityType
<1>2. \A S \in SUBSET Names : IsFiniteSet(S) /\ Cardinality(S) \in Nat
  BY NamesFinite, FS_Subset, FS_CardinalityType
<1>3. \A s, b : SlotsOf(s, b) \in SUBSET SoftSlot
  BY DEF SlotsOf
<1>4. \A l, b : NamesOf(l, b) \in SUBSET Names
  BY DEF NamesOf
<1>5. \A ns \in SUBSET Names : SoftOf(ns) \in SUBSET Names /\ \A b : Of(ns, b) \in SUBSET Names
  BY DEF Of, SoftOf
<1> QED
  BY <1>1, <1>2, <1>3, <1>4, <1>5

LEMMA ListedIs ==
  ASSUME ListType, ListInv, NEW n \in Names
  PROVE  /\ Listed(n) <=> list[n].break \in Breaks
         /\ ~Listed(n) <=> list[n].break = NoBreak
         /\ list[n].count \in Nat
<1>1. list[n] \in Entry
  BY DEF ListType
<1>2. list[n].break \in Breaks \cup {NoBreak} /\ list[n].count \in Nat
  BY <1>1 DEF Entry
<1>3. Free.break = NoBreak
  BY DEF Free
<1> QED
  BY <1>2, <1>3, BreakKinds DEF Listed, ListInv

LEMMA BreaksUntouched ==
  ASSUME BreaksInv, UNCHANGED <<table, hard, list, auto_name, unbacked>>
  PROVE  BreaksInv'
<1>1. ListType' /\ TableType' /\ HardType' /\ ListInv'
  BY DEF BreaksInv, ListType, TableType, HardType, ListInv, table
<1>2. BreaksAgree'
  BY AgreeNow, AgreeNext DEF BreaksInv, table
<1> QED
  BY <1>1, <1>2 DEF BreaksInv

\* A software breakpoint is asked for: what the stub had it keeps, and it has
\* one slot more, at the most, unless the byte could not be read.
LEMMA SoftKeeps ==
  ASSUME TableType, NEW b \in Soft, NEW rc \in AccessCode, SetSoft(b, rc)
  PROVE  /\ TableType' /\ cnt' >= cnt /\ unread \subseteq unread'
         /\ \A c \in Soft : SlotsOf(soft, c) \subseteq SlotsOf(soft', c)
         /\ \A c \in Soft : c # b => SlotsOf(soft', c) = SlotsOf(soft, c)
         /\ Found(b, rc) => cnt' > 0 /\ SlotsOf(soft', b) # {}
         /\ b \notin unread' =>
              \/ SlotsOf(soft', b) = SlotsOf(soft, b)
              \/ Found(b, rc) /\ \E k : SlotsOf(soft', b) = SlotsOf(soft, b) \cup {k}
<1>1. /\ soft \in [SoftSlot -> Soft \cup {NoBreak}] /\ cnt \in 0 .. DBG_SOFT_NR
      /\ unread \subseteq Soft /\ SoftSlot \subseteq Nat /\ NoBreak \notin Soft
      /\ DBG_SOFT_NR \in Nat
  BY NamesFinite, BreakKinds DEF TableType
<1>2. /\ soft' = [k \in SoftSlot |-> IF k \in Claimed(b, rc) THEN b ELSE soft[k]]
      /\ cnt' = IF Found(b, rc) THEN cnt + 1 ELSE cnt
      /\ unread' = IF rc # "DONE" /\ Claimed(b, rc) # {} THEN unread \cup {b} ELSE unread
  BY DEF SetSoft
<1>3. Claimed(b, rc) \subseteq {k \in SoftSlot : soft[k] = NoBreak}
  BY DEF Claimed
<1>4. Found(b, rc) => cnt < DBG_SOFT_NR
  BY DEF Found
<1>5. TableType' /\ cnt' >= cnt /\ unread \subseteq unread'
  BY <1>1, <1>2, <1>4 DEF TableType
<1>6. /\ \A c \in Soft : SlotsOf(soft, c) \subseteq SlotsOf(soft', c)
      /\ \A c \in Soft : c # b => SlotsOf(soft', c) = SlotsOf(soft, c)
      /\ SlotsOf(soft', b) = SlotsOf(soft, b) \cup Claimed(b, rc)
  BY <1>1, <1>2, <1>3 DEF SlotsOf
<1>7. ASSUME Found(b, rc) PROVE cnt' > 0 /\ SlotsOf(soft', b) # {}
  <2>1. PICK k \in Ends(b, rc) : /\ soft[k] = b \/ rc = "DONE"
                                 /\ \A j \in Ends(b, rc) : k <= j
    BY <1>7 DEF Found
  <2>2. k \in SoftSlot /\ (soft[k] = b \/ soft[k] = NoBreak)
    BY <2>1 DEF Ends
  <2>3. k \in SlotsOf(soft, b) \cup Claimed(b, rc)
    BY <1>4, <1>7, <2>1, <2>2 DEF SlotsOf, Claimed
  <2> QED
    BY <1>1, <1>2, <1>6, <1>7, <2>3
<1>8. ASSUME b \notin unread', Claimed(b, rc) # {}
      PROVE  Found(b, rc) /\ \E k : Claimed(b, rc) = {k}
  <2>1. rc = "DONE"
    BY <1>2, <1>8
  <2>2. \A k \in Claimed(b, rc) : k \in Ends(b, rc) /\ \A j \in Ends(b, rc) : k <= j
    BY <2>1 DEF Claimed, Ends
  <2>3. PICK k : k \in Claimed(b, rc)
    BY <1>8
  <2>4. \A j \in Claimed(b, rc) : j = k
    <3>1. \A j \in Claimed(b, rc) : j \in Nat
      BY <1>1, <1>3
    <3>2. \A j \in Claimed(b, rc) : j <= k /\ k <= j
      BY <2>2, <2>3
    <3> QED
      BY <2>3, <3>1, <3>2
  <2>5. cnt < DBG_SOFT_NR
    BY <2>3 DEF Claimed
  <2> QED
    BY <2>1, <2>2, <2>3, <2>4, <2>5 DEF Found
<1> QED
  BY <1>5, <1>6, <1>7, <1>8

\* A breakpoint is asked for: nothing the stub had is lost.
LEMMA SetKeeps ==
  ASSUME BreaksInv, NEW b \in Breaks, NEW rc \in AccessCode, SetBreak(b, rc)
  PROVE  /\ TableType' /\ HardType' /\ unread \subseteq unread'
         /\ \A c \in Soft :
              \/ SlotsOf(soft', c) = SlotsOf(soft, c)
              \/ c = b /\ c \in unread'
              \/ c = b /\ CanSet(b, rc) /\ \E k : SlotsOf(soft', c) = SlotsOf(soft, c) \cup {k}
         /\ \A k \in Slot : hard'[k] # NoBreak =>
                               hard'[k] = hard[k] \/ (CanSet(b, rc) /\ hard'[k] = b)
         /\ CanSet(b, rc) => BackedBy(soft', cnt', hard', b)
         /\ \A c \in Breaks : BackedBy(soft, cnt, hard, c) => BackedBy(soft', cnt', hard', c)
<1>0. TableType /\ HardType
  BY DEF BreaksInv
<1>1. CASE b.type = 0
  <2>1. SetSoft(b, rc) /\ hard' = hard /\ b \in Soft
    BY <1>1, BreakKinds DEF SetBreak
  <2>2. CanSet(b, rc) <=> Found(b, rc)
    BY <1>1 DEF CanSet
  <2>3. /\ TableType' /\ cnt' >= cnt /\ unread \subseteq unread'
        /\ \A c \in Soft : SlotsOf(soft, c) \subseteq SlotsOf(soft', c)
        /\ \A c \in Soft : c # b => SlotsOf(soft', c) = SlotsOf(soft, c)
        /\ Found(b, rc) => cnt' > 0 /\ SlotsOf(soft', b) # {}
        /\ b \notin unread' =>
             \/ SlotsOf(soft', b) = SlotsOf(soft, b)
             \/ Found(b, rc) /\ \E k : SlotsOf(soft', b) = SlotsOf(soft, b) \cup {k}
    BY <1>0, <2>1, SoftKeeps
  <2>4. cnt \in Nat /\ cnt' \in Nat
    BY <1>0, <2>3, NamesFinite DEF TableType
  <2>5. \A c \in Breaks : BackedBy(soft, cnt, hard, c) => BackedBy(soft', cnt', hard', c)
    <3>1. ASSUME NEW c \in Breaks, c.type = 0, BackedBy(soft, cnt, hard, c)
          PROVE  BackedBy(soft', cnt', hard', c)
      <4>1. c \in Soft /\ cnt > 0 /\ SlotsOf(soft, c) # {}
        BY <3>1, BreakKinds DEF BackedBy
      <4>2. cnt' > 0 /\ SlotsOf(soft', c) # {}
        BY <2>3, <2>4, <4>1
      <4> QED
        BY <3>1, <4>2 DEF BackedBy
    <3>2. ASSUME NEW c \in Breaks, c.type # 0, BackedBy(soft, cnt, hard, c)
          PROVE  BackedBy(soft', cnt', hard', c)
      BY <2>1, <3>2 DEF BackedBy
    <3> QED
      BY <3>1, <3>2
  <2>6. CanSet(b, rc) => BackedBy(soft', cnt', hard', b)
    BY <1>1, <2>2, <2>3 DEF BackedBy
  <2>7. HardType'
    BY <1>0, <2>1 DEF HardType
  <2> QED
    BY <2>1, <2>2, <2>3, <2>5, <2>6, <2>7
<1>2. CASE b.type # 0
  <2> DEFINE n == Lowest(FreeSlots)
  <2>1. UNCHANGED <<soft, cnt, unread>>
        /\ hard' = IF FreeSlots = {} THEN hard ELSE [hard EXCEPT ![n] = b]
    BY <1>2 DEF SetBreak, table
  <2>2. CanSet(b, rc) <=> FreeSlots # {}
    BY <1>2 DEF CanSet
  <2>3. FreeSlots # {} => n \in Slot /\ hard[n] = NoBreak
    BY LowestIn DEF FreeSlots
  <2>4. b \in Hard
    BY <1>2, BreakKinds
  <2> HIDE DEF n
  <2>5. FreeSlots # {} => hard'[n] = b /\ \A k \in Slot : k # n => hard'[k] = hard[k]
    BY <1>0, <2>1, <2>3 DEF HardType
  <2>6. FreeSlots = {} => hard' = hard
    BY <2>1
  <2>7. \A c \in Breaks : BackedBy(soft, cnt, hard, c) => BackedBy(soft', cnt', hard', c)
    BY <2>1, <2>3, <2>5, <2>6, BreakKinds DEF BackedBy
  <2>8. TableType' /\ HardType'
    BY <1>0, <2>1, <2>4 DEF TableType, HardType
  <2>9. \A k \in Slot : hard'[k] # NoBreak =>
                          hard'[k] = hard[k] \/ (CanSet(b, rc) /\ hard'[k] = b)
    BY <2>2, <2>5, <2>6
  <2>10. CanSet(b, rc) => BackedBy(soft', cnt', hard', b)
    BY <1>2, <2>2, <2>3, <2>5 DEF BackedBy
  <2>11. \A c \in Soft : SlotsOf(soft', c) = SlotsOf(soft, c)
    BY <2>1 DEF SlotsOf
  <2> QED
    BY <2>1, <2>7, <2>8, <2>9, <2>10, <2>11
<1> QED
  BY <1>1, <1>2

\* Entries are deleted: the stub keeps what they are not for.
LEMMA DelKeeps ==
  ASSUME BreaksInv, NEW ns \in SUBSET Names, \A n \in ns : list[n].break \in Breaks,
         Removable(ns), DelBreaks(ns)
  PROVE  /\ TableType' /\ HardType'
         /\ \A c \in Soft : SlotsOf(soft', c) =
              {k \in SlotsOf(soft, c) :
                 ~(Cardinality({j \in SlotsOf(soft, c) : j < k}) < Cardinality(Of(ns, c)))}
         /\ \A c \in Soft \ BreaksOf(ns) : SlotsOf(soft', c) = SlotsOf(soft, c)
         /\ \A c \in (Soft \cap unread) \ unread' : SlotsOf(soft', c) = {}
         /\ \A k \in Slot : hard'[k] # NoBreak => hard'[k] = hard[k] /\ hard[k] \notin BreaksOf(ns)
         /\ \A c \in Breaks \ BreaksOf(ns) :
              BackedBy(soft, cnt, hard, c) /\ (cnt' # 0 \/ c \notin Soft)
                => BackedBy(soft', cnt', hard', c)
<1>0. /\ soft \in [SoftSlot -> Soft \cup {NoBreak}] /\ cnt \in 0 .. DBG_SOFT_NR
      /\ unread \subseteq Soft /\ HardType /\ NoBreak \notin Soft /\ DBG_SOFT_NR \in Nat
  BY NamesFinite, BreakKinds DEF BreaksInv, TableType
<1>1. /\ soft' = [k \in SoftSlot |->
                    IF Cardinality({j \in At(soft[k]) : j < k}) < Cardinality(Of(ns, soft[k]))
                    THEN NoBreak ELSE soft[k]]
      /\ cnt' = cnt - Cardinality(SoftOf(ns))
      /\ unread' = {b \in unread : \E k \in SoftSlot : soft'[k] = b}
      /\ hard' = [n \in Slot |-> IF hard[n] \in BreaksOf(ns) THEN NoBreak ELSE hard[n]]
  BY DEF DelBreaks
<1>2. cnt' \in 0 .. DBG_SOFT_NR
  BY <1>0, <1>1, Counts DEF Removable
<1>3. TableType' /\ HardType'
  BY <1>0, <1>1, <1>2 DEF TableType, HardType
<1>4. \A c \in Soft : SlotsOf(soft', c) =
        {k \in SlotsOf(soft, c) :
           ~(Cardinality({j \in SlotsOf(soft, c) : j < k}) < Cardinality(Of(ns, c)))}
  BY <1>0, <1>1 DEF SlotsOf, At
<1>5. ASSUME NEW c \in Soft \ BreaksOf(ns) PROVE SlotsOf(soft', c) = SlotsOf(soft, c)
  <2>1. Of(ns, c) = {} /\ Cardinality(Of(ns, c)) = 0
    BY FS_EmptySet DEF Of, BreaksOf
  <2>2. \A k : {j \in SlotsOf(soft, c) : j < k} \in SUBSET SoftSlot
    BY DEF SlotsOf
  <2>3. \A k : ~(Cardinality({j \in SlotsOf(soft, c) : j < k}) < 0)
    BY <2>2, NamesFinite, FS_Subset, FS_CardinalityType
  <2> QED
    BY <1>4, <2>1, <2>3
<1>6. \A c \in (Soft \cap unread) \ unread' : SlotsOf(soft', c) = {}
  BY <1>1 DEF SlotsOf
<1>7. \A k \in Slot : hard'[k] # NoBreak => hard'[k] = hard[k] /\ hard[k] \notin BreaksOf(ns)
  BY <1>1
<1>8. ASSUME NEW c \in Breaks \ BreaksOf(ns), BackedBy(soft, cnt, hard, c), cnt' # 0 \/ c \notin Soft
      PROVE  BackedBy(soft', cnt', hard', c)
  <2>1. CASE c.type = 0
    <3>1. c \in Soft /\ cnt' # 0 /\ SlotsOf(soft, c) # {}
      BY <1>8, <2>1, BreakKinds DEF BackedBy
    <3>2. SlotsOf(soft', c) # {} /\ cnt' > 0
      BY <1>2, <1>5, <1>8, <3>1
    <3> QED
      BY <2>1, <3>2 DEF BackedBy
  <2>2. CASE c.type # 0
    BY <1>1, <1>8, <2>2 DEF BackedBy
  <2> QED
    BY <2>1, <2>2
<1> QED
  BY <1>3, <1>4, <1>5, <1>6, <1>7, <1>8

\* Only counts change.
LEMMA CountsOnly ==
  ASSUME BreaksInv, list' \in [Names -> Entry],
         \A m \in Names : list'[m].break = list[m].break,
         \A m \in Names : ~Listed(m) => list'[m] = list[m],
         unbacked \subseteq unbacked', unbacked' \subseteq Names,
         UNCHANGED <<table, hard, auto_name>>
  PROVE  BreaksInv'
<1>1. ListType /\ ListInv /\ TableType /\ HardType /\ BreaksAgree
  BY DEF BreaksInv
<1>2. UNCHANGED <<soft, cnt, unread>>
  BY DEF table
<1>3. ListType' /\ ListInv'
  <2>1. ListType'
    BY <1>1 DEF ListType
  <2>2. \A m \in Names : list'[m].break = NoBreak => list'[m] = Free
    BY <1>1, ListedIs DEF Listed
  <2>3. \A i \in DOMAIN Autos : i > auto_name' => list'[Autos[i]] = Free
    BY <1>1, NamesAre DEF ListInv, Listed
  <2> QED
    BY <2>1, <2>2, <2>3 DEF ListInv
<1>4. TableType' /\ HardType'
  BY <1>1, <1>2 DEF TableType, HardType
<1>5. BreaksAgree'
  <2>1. \A n \in Names : list'[n] # Free => Listed(n)
    BY DEF Listed
  <2>2. \A b : NamesOf(list', b) = NamesOf(list, b)
    BY DEF NamesOf
  <2>3. AgreeIn(soft, cnt, unread, hard, list, unbacked)
    BY <1>1, AgreeNow
  <2>4. AgreeIn(soft', cnt', unread', hard', list', unbacked')
    BY <1>2, <2>1, <2>2, <2>3 DEF AgreeIn, Listed
  <2> QED
    BY <2>4, AgreeNext
<1> QED
  BY <1>1, <1>3, <1>4, <1>5 DEF BreaksInv

LEMMA AddKeeps ==
  ASSUME BreaksInv, NEW n \in Names, list[n] = Free, NEW b \in Breaks, AddBreak(n, b),
         auto_name' \in 0 .. Len(Autos),
         \A i \in DOMAIN Autos : i > auto_name' => i > auto_name /\ Autos[i] # n
  PROVE  BreaksInv'
<1>1. ListType /\ ListInv /\ TableType /\ HardType
      /\ AgreeIn(soft, cnt, unread, hard, list, unbacked)
  BY AgreeNow DEF BreaksInv
<1>2. PICK rc \in AccessCode :
        /\ SetBreak(b, rc)
        /\ IF CanSet(b, rc)
           THEN /\ list' = [list EXCEPT ![n] = [break |-> b, count |-> 1]]
                /\ unbacked' = unbacked \ ({n} \cup Forgotten({b}))
           ELSE UNCHANGED <<list, unbacked>>
  BY DEF AddBreak
<1>3. /\ TableType' /\ HardType' /\ unread \subseteq unread'
      /\ \A c \in Soft :
           \/ SlotsOf(soft', c) = SlotsOf(soft, c)
           \/ c = b /\ c \in unread'
           \/ c = b /\ CanSet(b, rc) /\ \E k : SlotsOf(soft', c) = SlotsOf(soft, c) \cup {k}
      /\ \A k \in Slot : hard'[k] # NoBreak =>
                            hard'[k] = hard[k] \/ (CanSet(b, rc) /\ hard'[k] = b)
      /\ CanSet(b, rc) => BackedBy(soft', cnt', hard', b)
      /\ \A c \in Breaks : BackedBy(soft, cnt, hard, c) => BackedBy(soft', cnt', hard', c)
  BY <1>2, SetKeeps
<1>4. CASE ~CanSet(b, rc)
  <2>1. UNCHANGED <<list, unbacked>>
    BY <1>2, <1>4
  <2>2. ListType' /\ ListInv'
    <3>1. \A i \in DOMAIN Autos : i > auto_name' => list'[Autos[i]] = Free
      BY <1>1, <2>1 DEF ListInv
    <3> QED
      BY <1>1, <2>1, <3>1 DEF ListType, ListInv
  <2>3. \A c \in Soft \ unread' : SlotsOf(soft', c) = SlotsOf(soft, c)
    BY <1>3, <1>4
  <2>4. \A k \in Slot : hard'[k] # NoBreak => hard'[k] = hard[k]
    BY <1>3, <1>4
  <2>5. \A m \in Names : list[m] # Free => list[m].break \in Breaks
    BY <1>1, ListedIs DEF Listed
  <2>6. AgreeIn(soft', cnt', unread', hard', list', unbacked')
    BY <1>1, <1>3, <2>1, <2>3, <2>4, <2>5 DEF AgreeIn
  <2> QED
    BY <1>3, <2>2, <2>6, AgreeNext DEF BreaksInv
<1>5. CASE CanSet(b, rc)
  <2> DEFINE e == [break |-> b, count |-> 1]
  <2>1. list' = [list EXCEPT ![n] = e] /\ unbacked' = unbacked \ ({n} \cup Forgotten({b}))
    BY <1>2, <1>5
  <2>2. e \in Entry /\ e.break = b
    BY DEF Entry
  <2>3. e # Free
    BY <2>2, BreakKinds DEF Free
  <2> HIDE DEF e
  <2>4. list' \in [Names -> Entry] /\ list'[n] = e
        /\ \A m \in Names : m # n => list'[m] = list[m]
    BY <1>1, <2>1, <2>2 DEF ListType
  <2>5. ListType'
    BY <1>1, <2>1, <2>4 DEF ListType
  <2>6. ListInv'
    <3>1. \A m \in Names : list'[m].break = NoBreak => list'[m] = Free
      BY <1>1, <2>2, <2>4, BreakKinds DEF ListInv
    <3>2. \A i \in DOMAIN Autos : i > auto_name' => list'[Autos[i]] = Free
      BY <1>1, <2>4, NamesAre DEF ListInv
    <3> QED
      BY <3>1, <3>2 DEF ListInv
  <2>7. list[n].break = NoBreak /\ NoBreak \notin Breaks
    BY BreakKinds DEF Free
  <2>8. /\ NamesOf(list', b) = NamesOf(list, b) \cup {n} /\ n \notin NamesOf(list, b)
        /\ \A c \in Breaks : c # b => NamesOf(list', c) = NamesOf(list, c)
    BY <2>2, <2>4, <2>7 DEF NamesOf
  <2>9. ASSUME NEW c \in Soft \ unread'
        PROVE  Cardinality(SlotsOf(soft', c)) <= Cardinality(NamesOf(list', c))
    <3>1. c \in Breaks /\ Cardinality(SlotsOf(soft, c)) <= Cardinality(NamesOf(list, c))
      BY <1>1, <1>3, BreakKinds DEF AgreeIn
    <3>2. CASE c # b
      BY <1>3, <2>8, <3>1, <3>2
    <3>3. CASE c = b
      <4>1. Cardinality(NamesOf(list', c)) = Cardinality(NamesOf(list, c)) + 1
        BY <2>8, <3>3, Counts, FS_AddElement
      <4>2. Cardinality(SlotsOf(soft', c)) <= Cardinality(SlotsOf(soft, c)) + 1
        <5>1. CASE SlotsOf(soft', c) = SlotsOf(soft, c)
          BY <5>1, Counts
        <5>2. ASSUME NEW k, SlotsOf(soft', c) = SlotsOf(soft, c) \cup {k}
              PROVE  Cardinality(SlotsOf(soft', c)) <= Cardinality(SlotsOf(soft, c)) + 1
          <6>1. Cardinality(SlotsOf(soft, c) \cup {k}) =
                  IF k \in SlotsOf(soft, c) THEN Cardinality(SlotsOf(soft, c))
                  ELSE Cardinality(SlotsOf(soft, c)) + 1
            BY Counts, FS_AddElement
          <6> QED
            BY <5>2, <6>1, Counts
        <5> QED
          BY <1>3, <5>1, <5>2
      <4> QED
        BY <3>1, <4>1, <4>2, Counts
    <3> QED
      BY <3>2, <3>3
  <2>10. \A k \in Slot : hard'[k] # NoBreak => NamesOf(list', hard'[k]) # {}
    <3>1. \A k \in Slot : hard[k] # NoBreak => hard[k] \in Breaks
      BY <1>1, BreakKinds DEF HardType
    <3> QED
      BY <1>1, <1>3, <2>8, <3>1 DEF AgreeIn
  <2>11. ASSUME NEW m \in Names \ unbacked', list'[m] # Free
         PROVE  BackedBy(soft', cnt', hard', list'[m].break)
    <3>1. CASE m = n
      BY <1>3, <1>5, <2>2, <2>4, <3>1
    <3>2. CASE m # n /\ list[m].break = b
      BY <1>3, <1>5, <2>4, <3>2
    <3>3. CASE m # n /\ list[m].break # b
      <4>1. m \notin unbacked
        BY <2>1, <3>3 DEF Forgotten
      <4>2. list'[m] = list[m] /\ Listed(m)
        BY <2>4, <2>11, <3>3 DEF Listed
      <4>3. BackedBy(soft, cnt, hard, list[m].break) /\ list[m].break \in Breaks
        BY <1>1, <4>1, <4>2, ListedIs DEF AgreeIn, Listed
      <4> QED
        BY <1>3, <4>2, <4>3
    <3> QED
      BY <3>1, <3>2, <3>3
  <2>12. BreaksAgree'
    BY <2>9, <2>10, <2>11, AgreeNext DEF AgreeIn
  <2> QED
    BY <1>3, <2>5, <2>6, <2>12 DEF BreaksInv
<1> QED
  BY <1>4, <1>5

LEMMA AddStep ==
  ASSUME BreaksInv, NEW b \in Breaks, AddUnnamed(b) \/ \E n \in Explicit : AddNamed(n, b)
  PROVE  BreaksInv'
<1>0. ListType /\ ListInv
  BY DEF BreaksInv
<1>1. CASE AddUnnamed(b)
  <2> DEFINE n == Autos[auto_name + 1]
  <2>1. auto_name \in 0 .. Len(Autos) /\ auto_name < Len(Autos) /\ auto_name' = auto_name + 1
        /\ AddBreak(n, b)
    BY <1>0, <1>1 DEF AddUnnamed, ListType
  <2>2. auto_name + 1 \in DOMAIN Autos /\ auto_name + 1 > auto_name
        /\ auto_name' \in 0 .. Len(Autos)
    BY <2>1, NamesAre
  <2>3. n \in Names /\ list[n] = Free
    BY <1>0, <2>2, NamesAre DEF ListInv
  <2>4. \A i \in DOMAIN Autos : i > auto_name' => i > auto_name /\ Autos[i] # n
    BY <2>1, <2>2, NamesAre
  <2> HIDE DEF n
  <2> QED
    BY <2>1, <2>2, <2>3, <2>4, AddKeeps
<1>2. ASSUME NEW n \in Explicit, AddNamed(n, b) PROVE BreaksInv'
  <2>1. n \in Names /\ UNCHANGED auto_name
    BY <1>2, NamesAre DEF AddNamed
  <2>2. CASE Listed(n)
    <3>1. list' = [list EXCEPT ![n] = [list[n] EXCEPT !.count = list[n].count + 1]]
          /\ UNCHANGED <<table, hard, unbacked>>
      BY <1>2, <2>2 DEF AddNamed, Another
    <3>2. list[n] \in Entry /\ list[n].count + 1 \in Nat
      BY <1>0, <2>1, ListedIs DEF ListType
    <3> DEFINE e == [list[n] EXCEPT !.count = list[n].count + 1]
    <3>3. e \in Entry /\ e.break = list[n].break
      BY <3>2 DEF Entry
    <3>4. list' = [list EXCEPT ![n] = e]
      BY <3>1
    <3> HIDE DEF e
    <3>5. list' \in [Names -> Entry] /\ \A m \in Names : list'[m].break = list[m].break
          /\ (~Listed(m) => list'[m] = list[m])
      BY <1>0, <2>1, <2>2, <3>3, <3>4 DEF ListType
    <3> QED
      BY <1>0, <2>1, <3>1, <3>5, CountsOnly DEF ListType
  <2>3. CASE ~Listed(n)
    <3>1. AddBreak(n, b) /\ list[n] = Free
      BY <1>2, <2>3 DEF AddNamed, Listed
    <3>2. auto_name' \in 0 .. Len(Autos)
      BY <1>0, <2>1 DEF ListType
    <3>3. \A i \in DOMAIN Autos : i > auto_name' => i > auto_name /\ Autos[i] # n
      BY <1>0, <2>1, NamesAre
    <3> QED
      BY <2>1, <3>1, <3>2, <3>3, AddKeeps
  <2> QED
    BY <2>2, <2>3
<1> QED
  BY <1>1, <1>2

\* What is deleted loses its names, or these are counted out.
LEMMA DelAgrees ==
  ASSUME BreaksInv, NEW ns \in SUBSET Names, \A n \in ns : list[n].break \in Breaks,
         Removable(ns), DelBreaks(ns),
         list' \in [Names -> Entry], unbacked' \subseteq Names, auto_name' = auto_name,
         \A m \in Names : list'[m] = Free \/ (Listed(m) /\ list'[m].break = list[m].break),
         \A m \in Names : ~Listed(m) => list'[m] = list[m],
         \A m \in Names : Listed(m) /\ list'[m] = Free => list[m].break \in BreaksOf(ns),
         \A c \in Soft \ unread' : Cardinality(SlotsOf(soft', c)) <= Cardinality(NamesOf(list', c)),
         \A m \in Names : m \notin unbacked' /\ list'[m] # Free =>
                            m \notin unbacked /\ m \notin Dropped(ns)
  PROVE  BreaksInv'
<1>1. ListType /\ ListInv /\ TableType /\ HardType
      /\ AgreeIn(soft, cnt, unread, hard, list, unbacked)
  BY AgreeNow DEF BreaksInv
<1>2. /\ TableType' /\ HardType'
      /\ \A k \in Slot : hard'[k] # NoBreak => hard'[k] = hard[k] /\ hard[k] \notin BreaksOf(ns)
      /\ \A c \in Breaks \ BreaksOf(ns) :
           BackedBy(soft, cnt, hard, c) /\ (cnt' # 0 \/ c \notin Soft)
             => BackedBy(soft', cnt', hard', c)
  BY DelKeeps
<1>3. ListType'
  BY <1>1 DEF ListType
<1>4. ListInv'
  <2>1. \A m \in Names : list'[m].break = NoBreak => list'[m] = Free
    BY <1>1, ListedIs
  <2>2. \A i \in DOMAIN Autos : i > auto_name' => list'[Autos[i]] = Free
    BY <1>1, NamesAre DEF ListInv, Listed
  <2> QED
    BY <2>1, <2>2 DEF ListInv
<1>5. \A k \in Slot : hard'[k] # NoBreak => NamesOf(list', hard'[k]) # {}
  <2> SUFFICES ASSUME NEW k \in Slot, hard'[k] # NoBreak PROVE NamesOf(list', hard'[k]) # {}
    OBVIOUS
  <2>1. hard'[k] = hard[k] /\ hard[k] \notin BreaksOf(ns) /\ hard[k] # NoBreak
    BY <1>2
  <2>2. PICK m \in Names : list[m].break = hard[k]
    BY <1>1, <2>1 DEF AgreeIn, NamesOf
  <2>3. list'[m].break = list[m].break
    BY <1>1, <2>1, <2>2, ListedIs
  <2> QED
    BY <2>1, <2>2, <2>3 DEF NamesOf
<1>6. ASSUME NEW m \in Names \ unbacked', list'[m] # Free
      PROVE  BackedBy(soft', cnt', hard', list'[m].break)
  <2>1. m \notin unbacked /\ m \notin Dropped(ns) /\ Listed(m) /\ list'[m].break = list[m].break
    BY <1>6
  <2>2. list[m].break \in Breaks /\ list[m].break \notin BreaksOf(ns)
        /\ (cnt' # 0 \/ list[m].break \notin Soft)
    BY <1>1, <2>1, ListedIs DEF Dropped, Forgotten
  <2>3. BackedBy(soft, cnt, hard, list[m].break)
    BY <1>1, <2>1 DEF AgreeIn, Listed
  <2> QED
    BY <1>2, <2>1, <2>2, <2>3
<1>7. BreaksAgree'
  BY <1>5, <1>6, AgreeNext DEF AgreeIn
<1> QED
  BY <1>2, <1>3, <1>4, <1>7 DEF BreaksInv

LEMMA EmptyAgrees ==
  ASSUME list' = [n \in Names |-> Free], auto_name' = 0, unbacked' = {}, TableType',
         \A c \in Soft \ unread' : SlotsOf(soft', c) = {}, hard' = [n \in Slot |-> NoBreak]
  PROVE  BreaksInv'
<1>1. Free \in Entry /\ Free.break = NoBreak
  BY DEF Free, Entry
<1>2. ListType'
  BY <1>1, NamesAre DEF ListType
<1>3. ListInv' /\ HardType'
  BY NamesAre DEF ListInv, HardType
<1>4. \A c \in Soft \ unread' : Cardinality(SlotsOf(soft', c)) <= Cardinality(NamesOf(list', c))
  BY Counts, FS_EmptySet
<1>5. BreaksAgree'
  BY <1>4, AgreeNext DEF AgreeIn
<1> QED
  BY <1>2, <1>3, <1>5 DEF BreaksInv

LEMMA EmptyTableAgrees == ASSUME EmptyTable PROVE \A c \in Soft : SlotsOf(soft', c) = {}
BY BreakKinds DEF EmptyTable, SlotsOf

\* A count taken down.
LEMMA CountDown ==
  ASSUME ListType, ListInv, NEW n \in Names, NEW c \in Nat, NEW e,
         e = [list[n] EXCEPT !.count = c]
  PROVE  e \in Entry /\ e.break = list[n].break /\ (Listed(n) => e # Free)
<1>1. list[n] \in Entry
  BY DEF ListType
<1>2. e \in Entry /\ e.break = list[n].break
  BY <1>1 DEF Entry
<1> QED
  BY <1>2, ListedIs, BreakKinds DEF Free

LEMMA CountedIn ==
  ASSUME ListType, ListInv, NEW n \in Names PROVE Counted(n) \in Nat
BY ListedIs DEF Counted

\* One entry deleted takes a slot with it.
LEMMA OneSlotLess ==
  ASSUME BreaksInv, NEW n \in Names, list[n].break \in Soft, Removable({n}), DelBreaks({n})
  PROVE  Cardinality(SlotsOf(soft', list[n].break)) <= Cardinality(SlotsOf(soft, list[n].break)) - 1
<1> DEFINE b == list[n].break
<1>0. b \in Soft /\ b \in Breaks /\ b.type = 0
  BY BreakKinds
<1>1. Of({n}, b) = {n} /\ BreaksOf({n}) = {b}
  BY DEF Of, BreaksOf
<1>2. Cardinality(Of({n}, b)) = 1
  BY <1>1, FS_Singleton
<1>3. Deletions(b) = Cardinality(SlotsOf(soft, b))
  BY <1>0, AgreeNow DEF Deletions
<1>4. 1 <= Cardinality(SlotsOf(soft, b))
  BY <1>1, <1>2, <1>3 DEF Removable
<1>5. SlotsOf(soft, b) # {} /\ SlotsOf(soft, b) \in SUBSET SoftSlot
  BY <1>4, FS_EmptySet DEF SlotsOf
<1>6. PICK k \in SlotsOf(soft, b) : \A j \in SlotsOf(soft, b) : k <= j
  BY <1>5, FirstSlot
<1>7. {j \in SlotsOf(soft, b) : j < k} = {}
  <2>1. \A j \in SlotsOf(soft, b) : j \in Nat
    BY <1>5, NamesFinite
  <2> QED
    BY <1>6, <2>1
<1>8. Cardinality({j \in SlotsOf(soft, b) : j < k}) < Cardinality(Of({n}, b))
  BY <1>2, <1>7, FS_EmptySet
<1>9. SlotsOf(soft', b) \in SUBSET (SlotsOf(soft, b) \ {k})
  <2>1. \A m \in {n} : list[m].break \in Breaks
    BY <1>0
  <2>2. SlotsOf(soft', b) =
          {i \in SlotsOf(soft, b) :
             ~(Cardinality({j \in SlotsOf(soft, b) : j < i}) < Cardinality(Of({n}, b)))}
    BY <1>0, <2>1, DelKeeps
  <2> QED
    BY <1>8, <2>2
<1> HIDE DEF b
<1>10. IsFiniteSet(SlotsOf(soft, b) \ {k})
       /\ Cardinality(SlotsOf(soft, b) \ {k}) = Cardinality(SlotsOf(soft, b)) - 1
  BY <1>6, Counts, FS_RemoveElement
<1>11. Cardinality(SlotsOf(soft', b)) <= Cardinality(SlotsOf(soft, b) \ {k})
  BY <1>9, <1>10, FS_Subset
<1> QED
  BY <1>10, <1>11, Counts DEF b

LEMMA RemoveNamedStep ==
  ASSUME BreaksInv, NEW n \in Names, RemoveNamed(n)
  PROVE  BreaksInv'
<1>1. ListType /\ ListInv /\ AgreeIn(soft, cnt, unread, hard, list, unbacked)
  BY AgreeNow DEF BreaksInv
<1>2. Listed(n) /\ list[n].count > 0 /\ auto_name' = auto_name
      /\ list[n].break \in Breaks /\ list[n].count \in Nat
  BY <1>1, ListedIs DEF RemoveNamed
<1>3. ASSUME NEW c \in Nat, list' = [list EXCEPT ![n] = [list[n] EXCEPT !.count = c]],
             UNCHANGED <<table, hard, unbacked>>
      PROVE  BreaksInv'
  <2> DEFINE e == [list[n] EXCEPT !.count = c]
  <2>1. e \in Entry /\ e.break = list[n].break
    BY <1>1, CountDown
  <2>2. list' = [list EXCEPT ![n] = e]
    BY <1>3
  <2> HIDE DEF e
  <2>3. list' \in [Names -> Entry] /\ \A m \in Names : list'[m].break = list[m].break
        /\ (~Listed(m) => list'[m] = list[m])
    BY <1>1, <1>2, <2>1, <2>2 DEF ListType
  <2> QED
    BY <1>1, <1>2, <1>3, <2>3, CountsOnly DEF ListType
<1>4. CASE ~Removes(n)
  <2>1. list' = [list EXCEPT ![n] = [list[n] EXCEPT !.count = list[n].count - 1]]
        /\ UNCHANGED <<table, hard, unbacked>>
    BY <1>4 DEF RemoveNamed
  <2>2. list[n].count - 1 \in Nat
    BY <1>2
  <2> QED
    BY <1>3, <2>1, <2>2
<1>5. CASE Removes(n) /\ ~Removable({n})
  <2>1. list' = [list EXCEPT ![n] = [list[n] EXCEPT !.count = Counted(n)]]
        /\ UNCHANGED <<table, hard, unbacked>>
    BY <1>5 DEF RemoveNamed
  <2> QED
    BY <1>1, <1>3, <2>1, CountedIn
<1>6. CASE Removes(n) /\ Removable({n})
  <2> DEFINE b == list[n].break
  <2>1. DelBreaks({n}) /\ list' = [list EXCEPT ![n] = Free]
        /\ unbacked' = (unbacked \cup Dropped({n})) \ {n}
    BY <1>6 DEF RemoveNamed
  <2>2. {n} \in SUBSET Names /\ BreaksOf({n}) = {b} /\ \A m \in {n} : list[m].break \in Breaks
    BY <1>2 DEF BreaksOf
  <2>3. list' \in [Names -> Entry] /\ unbacked' \subseteq Names
    <3>1. Free \in Entry
      BY DEF Free, Entry
    <3> QED
      BY <1>1, <2>1, <3>1 DEF ListType, Dropped, Forgotten
  <2>4. list'[n] = Free /\ \A m \in Names : m # n => list'[m] = list[m]
    BY <1>1, <2>1 DEF ListType
  <2>5. /\ \A m \in Names : list'[m] = Free \/ (Listed(m) /\ list'[m].break = list[m].break)
        /\ \A m \in Names : ~Listed(m) => list'[m] = list[m]
        /\ \A m \in Names : Listed(m) /\ list'[m] = Free => list[m].break \in BreaksOf({n})
    BY <1>2, <2>2, <2>4 DEF Listed
  <2>6. \A m \in Names : m \notin unbacked' /\ list'[m] # Free =>
                            m \notin unbacked /\ m \notin Dropped({n})
    BY <2>1, <2>4
  <2>7. \A c \in Soft : c # b => NamesOf(list', c) = NamesOf(list, c)
    <3>1. Free.break \notin Soft
      BY BreakKinds DEF Free
    <3> QED
      BY <2>4, <3>1 DEF NamesOf
  <2>8. b \in Soft => Cardinality(NamesOf(list', b)) = Cardinality(NamesOf(list, b)) - 1
    <3>1. n \in NamesOf(list, b)
      BY DEF NamesOf
    <3>2. b \in Soft => NamesOf(list', b) = NamesOf(list, b) \ {n}
      BY <2>4, BreakKinds DEF NamesOf, Free
    <3> QED
      BY <3>1, <3>2, Counts, FS_RemoveElement
  <2>9. ASSUME NEW c \in Soft \ unread'
        PROVE  Cardinality(SlotsOf(soft', c)) <= Cardinality(NamesOf(list', c))
    <3>1. /\ c \notin BreaksOf({n}) => SlotsOf(soft', c) = SlotsOf(soft, c)
          /\ c \in unread => SlotsOf(soft', c) = {}
      BY <1>6, <2>1, <2>2, DelKeeps
    <3>2. CASE c \in unread
      BY <3>1, <3>2, Counts, FS_EmptySet
    <3>3. CASE c \notin unread /\ c # b
      BY <1>1, <2>2, <2>7, <3>1, <3>3 DEF AgreeIn
    <3>4. CASE c \notin unread /\ c = b
      <4>1. Cardinality(SlotsOf(soft', b)) <= Cardinality(SlotsOf(soft, b)) - 1
        BY <1>6, <2>1, <3>4, OneSlotLess
      <4>2. Cardinality(SlotsOf(soft, b)) <= Cardinality(NamesOf(list, b))
        BY <1>1, <3>4 DEF AgreeIn
      <4> QED
        BY <2>8, <3>4, <4>1, <4>2, Counts
    <3> QED
      BY <3>2, <3>3, <3>4
  <2> QED
    BY <1>2, <1>6, <2>1, <2>2, <2>3, <2>5, <2>6, <2>9, DelAgrees
<1> QED
  BY <1>4, <1>5, <1>6

LEMMA RemoveAllStep ==
  ASSUME BreaksInv, RemoveAll
  PROVE  BreaksInv'
<1>1. ListType /\ ListInv /\ HardType /\ AgreeIn(soft, cnt, unread, hard, list, unbacked)
  BY AgreeNow DEF BreaksInv
<1> DEFINE names == {n \in Names : Listed(n)}
<1>2. PICK done \in SUBSET names : Removable(done) /\ Clear(names, done)
  BY DEF RemoveAll
<1>3. done \in SUBSET Names /\ DelBreaks(done) /\ \A n \in done : list[n].break \in Breaks
  BY <1>1, <1>2, ListedIs DEF Clear
<1>4. /\ TableType' /\ HardType'
      /\ \A c \in Soft : SlotsOf(soft', c) =
           {k \in SlotsOf(soft, c) :
              ~(Cardinality({j \in SlotsOf(soft, c) : j < k}) < Cardinality(Of(done, c)))}
      /\ \A c \in (Soft \cap unread) \ unread' : SlotsOf(soft', c) = {}
      /\ \A k \in Slot : hard'[k] # NoBreak => hard'[k] = hard[k] /\ hard[k] \notin BreaksOf(done)
  BY <1>2, <1>3, DelKeeps
<1>5. CASE done = names /\ ClearedAll
  <2>1. list' = [n \in Names |-> Free] /\ auto_name' = 0 /\ unbacked' = {}
    BY <1>5 DEF ClearedAll
  <2>2. \A m \in Names : list[m].break \in Breaks => m \in done
    BY <1>1, <1>5, ListedIs
  <2>3. ASSUME NEW c \in Soft \ unread' PROVE SlotsOf(soft', c) = {}
    <3>1. CASE c \in unread
      BY <1>4, <3>1
    <3>2. CASE c \notin unread
      <4>1. NamesOf(list, c) = Of(done, c)
        BY <1>3, <2>2, BreakKinds DEF NamesOf, Of
      <4>2. Cardinality(SlotsOf(soft, c)) <= Cardinality(Of(done, c))
        BY <1>1, <3>2, <4>1 DEF AgreeIn
      <4>3. ASSUME NEW k \in SlotsOf(soft, c)
            PROVE  Cardinality({j \in SlotsOf(soft, c) : j < k}) < Cardinality(Of(done, c))
        <5>1. IsFiniteSet(SlotsOf(soft, c) \ {k})
              /\ Cardinality(SlotsOf(soft, c) \ {k}) = Cardinality(SlotsOf(soft, c)) - 1
          BY Counts, FS_RemoveElement
        <5>2. {j \in SlotsOf(soft, c) : j < k} \in SUBSET (SlotsOf(soft, c) \ {k})
          BY NamesFinite DEF SlotsOf
        <5>3. Cardinality({j \in SlotsOf(soft, c) : j < k}) <= Cardinality(SlotsOf(soft, c) \ {k})
              /\ Cardinality({j \in SlotsOf(soft, c) : j < k}) \in Nat
          BY <5>1, <5>2, FS_Subset, FS_CardinalityType
        <5>4. Cardinality(SlotsOf(soft, c)) \in Nat /\ Cardinality(Of(done, c)) \in Nat
          BY <1>3, Counts
        <5> QED
          BY <4>2, <5>1, <5>3, <5>4
      <4> QED
        BY <1>4, <4>3
    <3> QED
      BY <3>1, <3>2
  <2>4. \A k \in Slot : hard'[k] = NoBreak
    <3>1. \A k \in Slot : hard[k] # NoBreak => hard[k] \in Breaks /\ NamesOf(list, hard[k]) # {}
      BY <1>1, BreakKinds DEF AgreeIn, HardType
    <3>2. \A k \in Slot : hard[k] # NoBreak => hard[k] \in BreaksOf(done)
      BY <2>2, <3>1 DEF NamesOf, BreaksOf
    <3> QED
      BY <1>4, <3>2
  <2>5. hard' = [n \in Slot |-> NoBreak]
    BY <1>4, <2>4 DEF HardType
  <2> QED
    BY <1>4, <2>1, <2>3, <2>5, EmptyAgrees
<1>6. ASSUME NEW f \in names \ done,
             list' = [n \in Names |-> IF n \in done \cup {f}
                        THEN [list[n] EXCEPT !.count = Counted(n)] ELSE list[n]],
             unbacked' = unbacked \cup Dropped(done), auto_name' = auto_name
      PROVE  BreaksInv'
  <2>1. \A n \in Names : list'[n] \in Entry /\ list'[n].break = list[n].break
                         /\ (Listed(n) => list'[n] # Free)
    <3> SUFFICES ASSUME NEW n \in Names
                 PROVE  list'[n] \in Entry /\ list'[n].break = list[n].break
                        /\ (Listed(n) => list'[n] # Free)
      OBVIOUS
    <3>1. CASE n \in done \cup {f}
      <4>1. list'[n] = [list[n] EXCEPT !.count = Counted(n)]
        BY <1>6, <3>1
      <4> QED
        BY <1>1, <4>1, CountDown, CountedIn
    <3>2. CASE n \notin done \cup {f}
      <4>1. list'[n] = list[n]
        BY <1>6, <3>2
      <4> QED
        BY <1>1, <4>1 DEF ListType, Listed
    <3> QED
      BY <3>1, <3>2
  <2>2. list' \in [Names -> Entry]
    BY <1>6, <2>1
  <2>3. \A m \in Names : ~Listed(m) => list'[m] = list[m]
    BY <1>3, <1>6
  <2>4. \A m \in Names : list'[m] = Free \/ (Listed(m) /\ list'[m].break = list[m].break)
    BY <2>1, <2>3 DEF Listed
  <2>5. unbacked' \subseteq Names
    BY <1>1, <1>6 DEF ListType, Dropped, Forgotten
  <2>6. \A m \in Names : m \notin unbacked' => m \notin unbacked /\ m \notin Dropped(done)
    BY <1>6
  <2>7. ASSUME NEW c \in Soft \ unread'
        PROVE  Cardinality(SlotsOf(soft', c)) <= Cardinality(NamesOf(list', c))
    <3>1. NamesOf(list', c) = NamesOf(list, c)
      BY <2>1 DEF NamesOf
    <3>2. CASE c \in unread
      BY <1>4, <3>2, Counts, FS_EmptySet
    <3>3. CASE c \notin unread
      <4>1. SlotsOf(soft', c) \in SUBSET SlotsOf(soft, c)
        BY <1>4
      <4>2. Cardinality(SlotsOf(soft', c)) <= Cardinality(SlotsOf(soft, c))
        BY <4>1, Counts, FS_Subset
      <4>3. Cardinality(SlotsOf(soft, c)) <= Cardinality(NamesOf(list, c))
        BY <1>1, <3>3 DEF AgreeIn
      <4> QED
        BY <3>1, <4>2, <4>3, Counts
    <3> QED
      BY <3>2, <3>3
  <2>8. \A m \in Names : Listed(m) /\ list'[m] = Free => list[m].break \in BreaksOf(done)
    BY <2>1
  <2> QED
    BY <1>2, <1>3, <1>6, <2>2, <2>3, <2>4, <2>5, <2>6, <2>7, <2>8, DelAgrees
<1> QED
  BY <1>2, <1>5, <1>6 DEF Clear

LEMMA ActiveCr3Step ==
  ASSUME BreaksInv, NEW on, ActiveCr3(on)
  PROVE  BreaksInv'
<1>1. ListType /\ ListInv /\ HardType /\ AgreeIn(soft, cnt, unread, hard, list, unbacked)
  BY AgreeNow DEF BreaksInv
<1>2. CASE ~filter
  BY <1>2, BreaksUntouched DEF ActiveCr3
<1>3. CASE filter
  <2>1. EmptyTable /\ UNCHANGED <<hard, list, auto_name>>
        /\ unbacked' = unbacked \cup Forgotten(Soft)
    BY <1>3 DEF ActiveCr3
  <2>2. ListType' /\ ListInv' /\ HardType' /\ TableType'
    BY <1>1, <2>1, EmptyType DEF ListType, ListInv, Forgotten, HardType
  <2>3. ASSUME NEW m \in Names \ unbacked', list[m] # Free
        PROVE  BackedBy(soft', cnt', hard', list'[m].break)
    <3>1. list[m].break \in Breaks /\ m \notin unbacked /\ list[m].break \notin Soft
      BY <1>1, <2>1, <2>3, ListedIs DEF Listed, Forgotten
    <3>2. list[m].break.type # 0
      BY <3>1, BreakKinds
    <3>3. BackedBy(soft, cnt, hard, list[m].break)
      BY <1>1, <2>3, <3>1 DEF AgreeIn
    <3> QED
      BY <2>1, <3>2, <3>3 DEF BackedBy
  <2>4. \A c \in Soft : Cardinality(SlotsOf(soft', c)) <= Cardinality(NamesOf(list', c))
    BY <2>1, EmptyTableAgrees, Counts, FS_EmptySet
  <2>5. BreaksAgree'
    BY <1>1, <2>1, <2>3, <2>4, AgreeNext DEF AgreeIn
  <2> QED
    BY <2>2, <2>5 DEF BreaksInv
<1> QED
  BY <1>2, <1>3

\* The actions on breakpoints, and every other one.
BreakAction ==
  \/ \E on \in BOOLEAN : ActiveCr3(on)
  \/ \E b \in Breaks : AddUnnamed(b) \/ \E n \in Explicit : AddNamed(n, b)
  \/ \E n \in Names : RemoveNamed(n)
  \/ RemoveAll
  \/ Leave

LEMMA VmmKeeps ==
  ASSUME Vmm \/ StubInt
  PROVE  UNCHANGED <<asked, pool, loop, last, chosen, cache, handlers, breaks, astray>>
BY DEF Vmm, FilteredEvent, SoftBreak, SingleStepped, HardBreak, Fires, StubInt

LEMMA OthersKeepBreaks ==
  ASSUME [Next]_vars, ~BreakAction
  PROVE  UNCHANGED <<table, hard, list, auto_name, unbacked>>
<1>1. CASE Vmm \/ StubInt
  BY <1>1, VmmKeeps DEF asked, breaks
<1>2. CASE Operation
  BY <1>2 DEF Operation, BreakAction, ReadReg, WriteReg, MemAccess, FilterEvent, ReleaseEvent,
              vmm, asked, breaks
<1>3. CASE Run \/ Call \/ Eof \/ Again
  BY <1>3 DEF Run, Call, Eof, Again, VmStop, VmResume, VmSinglestep, Continue, vmm, asked, breaks
<1>4. CASE Interact \/ InteractNoResume
  BY <1>4 DEF Interact, InteractNoResume, Opens, vmm, asked, breaks
<1>5. CASE RecvStop \/ Returns
  BY <1>5 DEF RecvStop, Returns, Return, vmm, asked, breaks
<1>6. CASE Detach \/ Interrupt
  BY <1>6 DEF Detach, Interrupt, BreakAction, vmm, asked, breaks
<1>7. CASE UNCHANGED vars
  BY <1>7 DEF vars, vmm, asked, breaks
<1> QED
  BY <1>1, <1>2, <1>3, <1>4, <1>5, <1>6, <1>7 DEF Next

LEMMA BreaksStep == ASSUME BreaksInv, [Next]_vars PROVE BreaksInv'
<1>1. CASE \E on \in BOOLEAN : ActiveCr3(on)
  BY <1>1, ActiveCr3Step
<1>2. CASE \E b \in Breaks : AddUnnamed(b) \/ \E n \in Explicit : AddNamed(n, b)
  BY <1>2, AddStep
<1>3. CASE \E n \in Names : RemoveNamed(n)
  BY <1>3, RemoveNamedStep
<1>4. CASE RemoveAll
  BY <1>4, RemoveAllStep
<1>5. CASE Leave
  BY <1>5, EmptyAgrees, EmptyType, EmptyTableAgrees DEF Leave
<1>6. CASE ~BreakAction
  BY <1>6, OthersKeepBreaks, BreaksUntouched
<1> QED
  BY <1>1, <1>2, <1>3, <1>4, <1>5, <1>6 DEF BreakAction

LEMMA BreaksInit == Init => BreaksInv
<1> SUFFICES ASSUME Init PROVE BreaksInv
  OBVIOUS
<1>1. Free \in Entry /\ Free.break = NoBreak
  BY DEF Free, Entry
<1>2. ListType
  BY <1>1, NamesAre DEF Init, ListType
<1>3. ListInv
  BY NamesAre DEF Init, ListInv
<1>4. BreaksAgree
  <2>1. \A c \in Soft : SlotsOf(soft, c) = {}
    BY BreakKinds DEF Init, SlotsOf
  <2>2. \A c \in Soft : Cardinality(SlotsOf(soft, c)) <= Cardinality(NamesOf(list, c))
    BY <2>1, Counts, FS_EmptySet
  <2> QED
    BY <2>2, AgreeNow DEF Init, AgreeIn
<1>5. TableType /\ HardType
  BY NamesFinite DEF Init, TableType, HardType
<1> QED
  BY <1>2, <1>3, <1>4, <1>5 DEF Init, BreaksInv

\* The stub has no more breakpoints than the client lists, but for those it
\* kept of a set it answered with an error or of an absent page, and a listed
\* one is the stub's unless another name, a cr3 filter or a count run out took
\* it away: for any breakpoints, tables and names, whatever the stub refuses
\* and however far a clear gets (gdb_cmd_st_brk, BreakPoints.__add, remove,
\* __clear).
THEOREM BreaksSafe == Spec => []BreaksAgree
<1>1. Init => BreaksInv
  BY BreaksInit
<1>2. BreaksInv /\ [Next]_vars => BreaksInv'
  BY BreaksStep
<1>3. BreaksInv => BreaksAgree
  BY DEF BreaksInv
<1> QED
  BY <1>1, <1>2, <1>3, PTL DEF Spec

(***************************************************************************)
(* Types, the rest                                                         *)
(***************************************************************************)
LEMMA ListOpsType ==
  ASSUME TypeOK, Bounded, ListType', TableType', HardType',
         \/ \E b \in Breaks : AddUnnamed(b) \/ \E n \in Explicit : AddNamed(n, b)
         \/ \E n \in Names : RemoveNamed(n)
         \/ RemoveAll
  PROVE  TypeOK' /\ Bounded'
<1>1. /\ Command \/ UNCHANGED link
      /\ UNCHANGED <<lock, regs, step, mask, filter, loop, last, chosen, cache, handlers, astray>>
  BY DEF AddUnnamed, AddNamed, RemoveNamed, RemoveAll
<1>2. LinkType' /\ Bounded'
  BY <1>1, CommandLink, LinkUntouched
<1> QED
  BY <1>1, <1>2
     DEF TypeOK, RegsType, StubType, HardType, LoopType, CacheType, HandleType, loop

LEMMA LeaveType == ASSUME TypeOK, Bounded, Leave, ListType' PROVE TypeOK' /\ Bounded'
<1>1. RegsType'
  <2>1. DOMAIN regs = Regs /\ \A r \in Regs : regs[r] \in Content(r)
    BY DEF TypeOK, RegsType
  <2>2. regs' = CleanDr6(regs)
    BY DEF Leave
  <2> QED
    BY <2>1, <2>2, Cleaned DEF RegsType
<1>2. StubType' /\ TableType'
  BY EmptyType DEF Leave, TypeOK, StubType
<1>3. LinkType' /\ Bounded'
  <2>1. stops' = <<>> /\ pool' = <<>> /\ ~intr' /\ intr' \in BOOLEAN
    BY DEF Leave, TypeOK, LinkType
  <2> QED
    BY <2>1, Queued DEF LinkType, Bounded
<1>4. LoopType'
  BY DEF Leave, LoopType
<1>5. CacheType'
  BY DefaultIn DEF Leave, CacheType, Unknown, Register
<1>6. HandleType'
  BY DEF Leave, HandleType
<1> QED
  BY <1>1, <1>2, <1>3, <1>4, <1>5, <1>6 DEF TypeOK

LEMMA StopsType ==
  ASSUME TypeOK, Bounded, NEW f \in {"script", "console", "loop", "run"}, VmStop(f)
  PROVE  TypeOK' /\ Bounded'
<1>1. LinkType' /\ Bounded'
  BY Queued DEF VmStop, SendsIntr, Outstanding, TypeOK, LinkType, Bounded
<1>2. UNCHANGED vmm /\ LoopType'
  BY DEF VmStop, SendsIntr, ToWait, TypeOK, LoopType
<1> QED
  BY <1>1, <1>2
     DEF VmStop, TypeOK, RegsType, StubType, TableType, CacheType, ListType, HandleType, vmm, table,
         breaks

LEMMA ContinueType ==
  ASSUME TypeOK, Bounded, NEW f \in {"script", "console", "loop", "run"},
         NEW w \in {"every", "int", "trap"}, NEW s \in BOOLEAN, Continue(f, w, s)
  PROVE  TypeOK' /\ Bounded'
<1>1. LinkType' /\ Bounded'
  BY CommandLink DEF Continue
<1>2. RegsType'
  <2>1. regs' = CleanDr6(Written(Regs))
    BY DEF Continue
  <2> QED
    BY <2>1, Flushed, Cleaned DEF RegsType
<1>3. CacheType'
  BY Flushed DEF Continue, CacheType
<1>4. StubType' /\ TableType' /\ LoopType' /\ ListType' /\ HandleType'
  BY DEF Continue, ToWait, TypeOK, StubType, TableType, LoopType, ListType, HandleType, asked,
         table, breaks
<1> QED
  BY <1>1, <1>2, <1>3, <1>4 DEF TypeOK

LEMMA RunsType ==
  ASSUME TypeOK, Bounded, (Run /\ GoneInv) \/ Call \/ Eof \/ Again
  PROVE  TypeOK' /\ Bounded'
<1>1. CASE Run /\ GoneInv
  <2>1. stops = <<>> /\ pool = <<>> /\ stops' = stops /\ pool' = pool /\ intr' = TRUE
    BY <1>1 DEF Run, GoneInv
  <2>2. LinkType' /\ Bounded'
    BY <2>1, Queued DEF TypeOK, LinkType, Bounded
  <2> QED
    BY <1>1, <2>2
       DEF Run, ToWait, TypeOK, RegsType, StubType, TableType, LoopType, CacheType, ListType,
           HandleType, asked, table, breaks
<1>2. ASSUME NEW f \in {"script", "console", "loop"}, VmStop(f) \/ VmResume(f) \/ VmSinglestep(f)
      PROVE  TypeOK' /\ Bounded'
  BY <1>2, StopsType, ContinueType DEF VmResume, VmSinglestep
<1>3. CASE Call
  BY <1>2, <1>3 DEF Call
<1>4. CASE Eof \/ Again
  BY <1>2, <1>4 DEF Eof, Again
<1> QED
  BY <1>1, <1>3, <1>4

LEMMA ReadsIn ==
  ASSUME TypeOK PROVE Reads("dr6") \in Register("dr6")
<1>1. "dr6" \in Regs
  BY DEF Regs
<1>2. cache["dr6"] \in Register("dr6") /\ regs["dr6"] \in Content("dr6")
  BY <1>1 DEF TypeOK, CacheType, RegsType
<1> QED
  BY <1>1, <1>2, RegisterIn DEF Reads

LEMMA RecvType == ASSUME TypeOK, Bounded, RecvStop PROVE TypeOK' /\ Bounded'
<1> DEFINE q == pool \o stops
<1>1. q \in Seq(Stops) /\ q # <<>> /\ Len(q) = Len(pool) + Len(stops)
  BY Queued DEF RecvStop
<1>2. Head(q) \in Stops /\ Tail(q) \in Seq(Stops) /\ Len(Tail(q)) = Len(q) - 1 /\ Len(q) \in Nat
  BY <1>1
<1>3. pool' = Tail(q) /\ stops' = <<>> /\ intr' = intr /\ ~intr
  BY DEF RecvStop
<1>4. LinkType' /\ Bounded'
  <2>1. stops' \in Seq(Stops) /\ Len(stops') = 0
    BY <1>3
  <2> HIDE DEF q
  <2> QED
    BY <1>1, <1>2, <1>3, <2>1, Queued DEF TypeOK, LinkType, Bounded
<1>5. HandleType'
  <2>1. chosen' \in {Trapped(Reads("dr6").val, Head(q).pc), Called, NoBreak}
    BY DEF RecvStop
  <2>2. chosen' \in Breaks \cup {NoBreak, Stepped, Called}
    BY <2>1, TrappedIn
  <2>3. last' = Head(q) /\ handlers' = handlers
    BY DEF RecvStop
  <2> QED
    BY <1>2, <2>2, <2>3 DEF TypeOK, HandleType
<1>6. CacheType'
  <2> DEFINE k == Known(Head(q).pc)
  <2>1. Head(q).pc \in Content("pc")
    BY <1>2, ContentIs DEF Stops
  <2>2. k \in Register("pc") /\ Reads("dr6") \in Register("dr6") /\ "pc" \in Regs /\ "dr6" \in Regs
    BY <2>1, ReadsIn, RegisterIn DEF Regs
  <2>3. PICK d \in {Reads("dr6"), cache["dr6"]} :
          cache' = [cache EXCEPT !["pc"] = k, !["dr6"] = d]
    BY <2>2 DEF RecvStop, TypeOK, CacheType
  <2>4. d \in Register("dr6")
    BY <2>2 DEF TypeOK, CacheType
  <2> HIDE DEF k
  <2> QED
    BY <2>2, <2>3, <2>4 DEF TypeOK, CacheType
<1>7. LoopType'
  BY DEF RecvStop, TypeOK, LoopType
<1> QED
  BY <1>4, <1>5, <1>6, <1>7
     DEF RecvStop, TypeOK, RegsType, StubType, TableType, ListType, vmm, table, breaks

LEMMA ReturnType ==
  ASSUME TypeOK, Bounded, NEW b \in BOOLEAN, Return(b)
  PROVE  TypeOK' /\ Bounded'
<1>1. LinkType' /\ Bounded'
  BY LinkUntouched DEF Return
<1>2. LoopType'
  <2>1. CASE ~Answered
    BY <2>1 DEF Return, TypeOK, LoopType
  <2>2. CASE Answered
    <3>1. at' \in {"console", "again", "script"}
      <4>1. at' = CASE from = "run" -> "console"
                    [] from \in {"script", "console"} -> from
                    [] from = "loop" /\ (inter \/ b) -> "console"
                    [] from = "loop" /\ ~(inter \/ b) ->
                         IF session = "dispatch2" THEN "again" ELSE "script"
        BY <2>2 DEF Return
      <4>2. CASE from = "run"
        BY <4>1, <4>2
      <4>3. CASE from = "loop"
        BY <4>1, <4>3
      <4>4. CASE from \in {"script", "console"}
        BY <4>1, <4>4
      <4> QED
        BY <4>2, <4>3, <4>4 DEF TypeOK, LoopType
    <3>2. session' \in {"dispatch", "none", session}
      BY <2>2 DEF Return
    <3>3. inter' = FALSE /\ from' = "script" /\ want' = "every" /\ UNCHANGED <<request, astray>>
      BY <2>2 DEF Return
    <3> QED
      BY <3>1, <3>2, <3>3 DEF TypeOK, LoopType
  <2> QED
    BY <2>1, <2>2
<1> QED
  BY <1>1, <1>2
     DEF Return, TypeOK, RegsType, StubType, TableType, CacheType, ListType, HandleType, vmm, table,
         breaks

LEMMA ConsoleType ==
  ASSUME TypeOK, Bounded, Interact \/ InteractNoResume
  PROVE  TypeOK' /\ Bounded'
<1>1. /\ UNCHANGED <<vmm, link, from, want, inter, request, last, chosen, cache, handlers, breaks,
                     astray>>
      /\ at' \in {"script", "console", "again"} /\ session' \in {"none", "dispatch", "dispatch2"}
  BY DEF Interact, InteractNoResume, Opens
<1> QED
  BY <1>1, LinkUntouched
     DEF TypeOK, RegsType, StubType, TableType, LoopType, CacheType, ListType, HandleType, vmm,
         table, breaks

LEMMA InterruptType ==
  ASSUME TypeOK, Bounded, Interrupt, ~Leave
  PROVE  TypeOK' /\ Bounded'
<1>1. UNCHANGED <<vmm, stops, pool, at, from, session, want, inter, last, chosen, cache,
                  handlers, breaks, astray>>
  BY DEF Interrupt, link
<1>2. request' \in BOOLEAN
  BY DEF Interrupt, SendsIntr
<1>3. LinkType' /\ Bounded'
  <2>1. CASE intr' = intr
    BY <1>1, <2>1, LinkUntouched DEF link
  <2>2. CASE SendsIntr
    BY <1>1, <2>2, Queued DEF SendsIntr, TypeOK, LinkType, Bounded, Outstanding
  <2> QED
    BY <2>1, <2>2 DEF Interrupt, link
<1> QED
  BY <1>1, <1>2, <1>3
     DEF TypeOK, RegsType, StubType, TableType, LoopType, CacheType, ListType, HandleType, vmm,
         table, breaks

LEMMA TypeStep ==
  ASSUME TypeOK, Bounded, BreaksInv, GoneInv, [Next]_vars
  PROVE  TypeOK' /\ Bounded'
<1>0. ListType' /\ TableType' /\ HardType'
  BY BreaksStep DEF BreaksInv
<1>1. CASE Vmm \/ StubInt
  BY <1>1, VmmType, StubIntType
<1>2. CASE Operation
  BY <1>0, <1>2, CommandsType, ListOpsType DEF Operation
<1>3. CASE Run \/ Call \/ Eof \/ Again
  BY <1>3, RunsType
<1>4. CASE Interact \/ InteractNoResume
  BY <1>4, ConsoleType
<1>5. CASE RecvStop \/ Returns
  BY <1>5, RecvType, ReturnType DEF Returns
<1>6. CASE Detach \/ Interrupt
  BY <1>0, <1>6, LeaveType, InterruptType DEF Detach
<1>7. CASE UNCHANGED vars
  BY <1>7, LinkUntouched
     DEF vars, TypeOK, RegsType, StubType, TableType, LoopType, CacheType, ListType, HandleType,
         vmm, table, loop, breaks
<1> QED
  BY <1>1, <1>2, <1>3, <1>4, <1>5, <1>6, <1>7 DEF Next

(***************************************************************************)
(* The session                                                             *)
(***************************************************************************)
\* Trapped and Owed, of a given state.
TrapOf(h, l, d, p) ==
  LET hit == {n \in d \cap Slot : h[n] # NoBreak}
      b == IF hit = {} THEN SoftAt(p) ELSE h[Lowest(hit)]
  IN IF BS \in d THEN Stepped
     ELSE IF \E n \in Names : l[n].break = b THEN b ELSE NoBreak
OwedTo(s, r, h, l, hs) ==
  /\ s.pc = r["pc"]
  /\ s.why = "trap" /\ s.sure => TrapOf(h, l, r["dr6"], s.pc) = s.on
  /\ s.why \in Events => s.why \in hs

LEMMA OwedNow ==
  /\ Owed((pool \o stops)[1]) <=> OwedTo((pool \o stops)[1], regs, hard, list, handlers)
  /\ \A d, p : Trapped(d, p) = TrapOf(hard, list, d, p)
BY DEF Owed, OwedTo, Trapped, TrapOf

LEMMA OwedNext ==
  Owed((pool \o stops)[1])' <=> OwedTo((pool' \o stops')[1], regs', hard', list', handlers')
BY DEF Owed, OwedTo, Trapped, TrapOf

SessInv == /\ GoneInv /\ Dr6Inv /\ SessionInv /\ StopHandled
           /\ mask \subseteq handlers

\* What holds wherever the client is but waiting.
LEMMA Held ==
  ASSUME SessInv, ~astray, at \notin {"wait", "gone"}
  PROVE  lock /\ ~intr /\ stops = <<>> /\ pool = <<>>
         /\ \A r \in Regs : cache[r].rd /\ ~cache[r].wr => cache[r].val = regs[r]
BY DEF SessInv, SessionInv

\* Operations: they neither stop nor run the VM.
LEMMA OperationSess ==
  ASSUME TypeOK, SessInv, Operation
  PROVE  SessInv'
<1>1. Busy /\ UNCHANGED <<lock, at, last, chosen, astray>>
  BY DEF Operation, ReadReg, WriteReg, MemAccess, FilterEvent, ReleaseEvent, ActiveCr3,
         AddUnnamed, AddNamed, RemoveNamed, RemoveAll, vmm, loop
<1>2. Command \/ UNCHANGED link
  BY DEF Operation, ReadReg, WriteReg, MemAccess, FilterEvent, ReleaseEvent, ActiveCr3,
         AddUnnamed, AddNamed, RemoveNamed, RemoveAll
<1>3. mask' \subseteq handlers'
  <2>1. CASE \E e \in Events : FilterEvent(e) \/ ReleaseEvent(e)
    BY <2>1 DEF FilterEvent, ReleaseEvent, SessInv
  <2>2. CASE ~\E e \in Events : FilterEvent(e) \/ ReleaseEvent(e)
    <3>1. UNCHANGED <<mask, handlers>>
      BY <2>2 DEF Operation, ReadReg, WriteReg, MemAccess, ActiveCr3,
                  AddUnnamed, AddNamed, RemoveNamed, RemoveAll, vmm, asked
    <3> QED
      BY <3>1 DEF SessInv
  <2> QED
    BY <2>1, <2>2
<1>4. /\ DOMAIN cache = Regs /\ DOMAIN regs = Regs
      /\ "dr6" \in Regs /\ "cr3" \in Regs /\ "dr6" # "cr3"
  BY DEF TypeOK, RegsType, CacheType, Regs
<1>5. /\ ~astray => \A r \in Regs : cache'[r].rd /\ ~cache'[r].wr => cache'[r].val = regs'[r]
      /\ Dr6Inv'
  <2>1. /\ ~lock => regs["dr6"] = {}
        /\ ~cache["dr6"].wr /\ \A r \in Regs : cache[r].wr => cache[r].rd
        /\ ~astray => lock /\ \A r \in Regs : cache[r].rd /\ ~cache[r].wr => cache[r].val = regs[r]
    BY <1>1, Held DEF SessInv, Dr6Inv, Busy
  <2>2. ASSUME NEW r \in Regs, ReadReg(r)
        PROVE  /\ ~astray => \A x \in Regs : cache'[x].rd /\ ~cache'[x].wr
                                               => cache'[x].val = regs'[x]
               /\ Dr6Inv'
    <3>1. PICK v \in Sees(r) : cache' = [cache EXCEPT ![r] = Known(v)]
      BY <2>2 DEF ReadReg
    <3>2. regs' = regs /\ lock' = lock
      BY <2>2 DEF ReadReg, vmm
    <3>3. lock => v = regs[r]
      BY <3>1 DEF Sees
    <3>4. Known(v).rd /\ ~Known(v).wr /\ Known(v).val = v
      BY DEF Known
    <3>5. cache'[r] = Known(v) /\ \A x \in Regs : x # r => cache'[x] = cache[x]
      BY <1>4, <3>1
    <3> QED
      BY <1>4, <2>1, <3>2, <3>3, <3>4, <3>5 DEF Dr6Inv
  <2>3. ASSUME NEW r \in Regs \ {"dr6"}, NEW v \in Content(r), WriteReg(r, v)
        PROVE  /\ ~astray => \A x \in Regs : cache'[x].rd /\ ~cache'[x].wr
                                               => cache'[x].val = regs'[x]
               /\ Dr6Inv'
    <3>1. cache' = [cache EXCEPT ![r] = Pending(v)] /\ regs' = regs /\ lock' = lock
      BY <2>3 DEF WriteReg, vmm
    <3>2. Pending(v).rd /\ Pending(v).wr
      BY DEF Pending
    <3>3. cache'[r] = Pending(v) /\ \A x \in Regs : x # r => cache'[x] = cache[x]
      BY <1>4, <3>1
    <3> QED
      BY <1>4, <2>1, <3>1, <3>2, <3>3 DEF Dr6Inv
  <2>4. CASE MemAccess
    <3>1. regs' = Written({"cr3"}) /\ cache' = Dirtied({"cr3"}) /\ lock' = lock
      BY <2>4 DEF MemAccess
    <3>2. /\ cache'["cr3"] = Unknown("cr3")
          /\ \A x \in Regs : x # "cr3" => cache'[x] = cache[x] /\ regs'[x] = regs[x]
      BY <1>4, <3>1 DEF Written, Dirtied
    <3>3. ~Unknown("cr3").rd /\ ~Unknown("cr3").wr
      BY DEF Unknown
    <3> QED
      BY <1>4, <2>1, <3>1, <3>2, <3>3 DEF Dr6Inv
  <2>5. CASE UNCHANGED <<regs, cache>>
    BY <1>1, <2>1, <2>5 DEF Dr6Inv
  <2>6. \/ \E r \in Regs : ReadReg(r)
        \/ \E r \in Regs \ {"dr6"} : \E v \in Content(r) : WriteReg(r, v)
        \/ MemAccess
        \/ UNCHANGED <<regs, cache>>
    BY DEF Operation, FilterEvent, ReleaseEvent, ActiveCr3, AddUnnamed, AddNamed, RemoveNamed,
           RemoveAll
  <2> QED
    BY <2>2, <2>3, <2>4, <2>5, <2>6
<1>6. at' \notin {"wait", "gone"}
  BY <1>1 DEF Busy
<1>7. SessionInv'
  <2> SUFFICES ASSUME ~astray PROVE SessionInv'
    BY <1>1 DEF SessionInv
  <2>1. lock /\ ~intr /\ stops = <<>> /\ pool = <<>>
    BY <1>1, Held DEF Busy
  <2>2. lock' /\ ~intr' /\ stops' = <<>> /\ pool' = <<>>
    BY <1>1, <1>2, <2>1 DEF Command, link
  <2>3. Len(pool' \o stops') # 1
    BY <2>2
  <2> QED
    BY <1>5, <1>6, <2>2, <2>3 DEF SessionInv
<1>8. GoneInv' /\ StopHandled'
  BY <1>1, <1>6 DEF GoneInv, SessInv, StopHandled
<1> QED
  BY <1>3, <1>5, <1>7, <1>8 DEF SessInv

LEMMA ContinueSess ==
  ASSUME TypeOK, SessInv, at \notin {"wait", "gone"}, NEW f, NEW w, NEW s, Continue(f, w, s)
  PROVE  SessInv'
<1>1. at' = "wait" /\ ~lock' /\ stops' = <<>> /\ pool' = pool \o stops
      /\ UNCHANGED <<mask, handlers>>
  BY DEF Continue, ToWait, Command, asked
<1>2. regs'["dr6"] = {}
  <2>1. regs' = CleanDr6(Written(Regs))
    BY DEF Continue
  <2> QED
    BY <2>1, Flushed, Cleaned
<1>3. \A r \in Regs : ~cache'[r].rd /\ ~cache'[r].wr
  BY DEF Continue, Dirtied, Unknown
<1>4. SessionInv'
  <2> SUFFICES ASSUME ~astray' PROVE SessionInv'
    BY DEF SessionInv
  <2>1. ~astray \/ ~(Outstanding > 0)
    BY DEF Continue
  <2>2. stops = <<>> /\ pool = <<>>
    <3>1. CASE ~astray
      BY <3>1, Held
    <3>2. CASE ~(Outstanding > 0)
      BY <3>2, Queued DEF Outstanding, TypeOK, LinkType
    <3> QED
      BY <2>1, <3>1, <3>2
  <2>3. pool' = <<>> /\ Len(pool' \o stops') # 1
    BY <1>1, <2>2
  <2> QED
    BY <1>1, <1>3, <2>3 DEF SessionInv
<1> QED
  BY <1>1, <1>2, <1>3, <1>4 DEF SessInv, GoneInv, Dr6Inv, StopHandled, Regs

LEMMA VmStopSess ==
  ASSUME SessInv, at \notin {"wait", "gone"}, NEW f, VmStop(f)
  PROVE  SessInv'
<1>1. /\ at' = "wait" /\ UNCHANGED <<lock, regs, mask, hard, list, stops, pool, cache, handlers, astray>>
  BY DEF VmStop, ToWait, vmm, breaks
<1>2. SessionInv'
  <2> SUFFICES ASSUME ~astray PROVE SessionInv'
    BY <1>1 DEF SessionInv
  <2>1. lock /\ stops = <<>> /\ pool = <<>>
        /\ \A r \in Regs : cache[r].rd /\ ~cache[r].wr => cache[r].val = regs[r]
    BY Held
  <2>2. Len(pool' \o stops') # 1
    BY <1>1, <2>1
  <2> QED
    BY <1>1, <2>1, <2>2 DEF SessionInv
<1> QED
  BY <1>1, <1>2 DEF SessInv, GoneInv, Dr6Inv, StopHandled

LEMMA RunSess ==
  ASSUME SessInv, Run
  PROVE  SessInv'
<1>1. /\ at' = "wait" /\ lock' /\ UNCHANGED <<regs, mask, stops, pool, cache, handlers, astray>>
  BY DEF Run, ToWait, asked
<1>2. stops = <<>> /\ pool = <<>> /\ \A r \in Regs : ~cache[r].rd
  BY DEF Run, SessInv, GoneInv
<1>3. Len(pool' \o stops') # 1
  BY <1>1, <1>2
<1>4. SessionInv'
  BY <1>1, <1>2, <1>3 DEF SessionInv
<1> QED
  BY <1>1, <1>4 DEF SessInv, GoneInv, Dr6Inv, StopHandled

LEMMA LeaveSess == ASSUME TypeOK, Leave PROVE SessInv'
<1>1. /\ at' = "gone" /\ stops' = <<>> /\ pool' = <<>> /\ ~lock' /\ ~astray' /\ mask' = {}
      /\ cnt' = 0 /\ hard' = [n \in Slot |-> NoBreak] /\ ~step'
      /\ ~intr' /\ regs' = CleanDr6(regs)
  BY DEF Leave, EmptyTable
<1>2. \A r \in Regs : ~cache'[r].rd /\ ~cache'[r].wr
  BY DEF Leave, Unknown
<1>3. regs'["dr6"] = {}
  BY <1>1, Cleaned DEF TypeOK, RegsType
<1>4. Len(pool' \o stops') # 1
  BY <1>1
<1>5. GoneInv'
  BY <1>1, <1>2 DEF GoneInv
<1>6. Dr6Inv'
  BY <1>2, <1>3 DEF Dr6Inv, Regs
<1>7. SessionInv'
  BY <1>1, <1>2, <1>4 DEF SessionInv
<1> QED
  BY <1>1, <1>5, <1>6, <1>7 DEF SessInv, StopHandled

\* What the console and a ^C change outside the VM.
LEMMA ConsoleSess ==
  ASSUME SessInv, UNCHANGED <<vmm, pool, stops, cache, handlers, breaks, astray>>,
         \/ at \notin {"wait", "gone"} /\ at' \notin {"handler", "gone"} /\ intr' = intr
            /\ UNCHANGED <<last, chosen>>
         \/ at' = at /\ intr' = intr /\ UNCHANGED <<last, chosen>>
         \/ at' = at /\ at = "wait" /\ UNCHANGED <<last, chosen>>
         \/ at = "handler" /\ at' \notin {"handler", "gone"} /\ intr' = intr
  PROVE  SessInv'
<1>1. UNCHANGED <<lock, regs, step, mask, cnt, hard, list>>
  BY DEF vmm, table, breaks
<1>2. GoneInv' /\ Dr6Inv' /\ mask' \subseteq handlers' /\ StopHandled'
  BY <1>1 DEF SessInv, GoneInv, Dr6Inv, StopHandled
<1>3. SessionInv'
  <2> SUFFICES ASSUME ~astray PROVE SessionInv'
    BY DEF SessionInv
  <2>1. SessionInv
    BY DEF SessInv
  <2>2. Len(pool \o stops) = 1 => Owed((pool \o stops)[1])'
    BY <1>1, <2>1, OwedNow, OwedNext DEF SessionInv
  <2> QED
    BY <1>1, <2>1, <2>2 DEF SessionInv
<1> QED
  BY <1>2, <1>3 DEF SessInv

LEMMA InterruptSess ==
  ASSUME SessInv, Interrupt, ~Leave
  PROVE  SessInv'
<1>1. UNCHANGED <<vmm, pool, stops, cache, handlers, breaks, astray, last, chosen, at>>
  BY DEF Interrupt, link
<1>2. at = "wait" \/ intr' = intr
  BY DEF Interrupt, link
<1> QED
  BY <1>1, <1>2, ConsoleSess

LEMMA InteractSess ==
  ASSUME SessInv, Interact \/ InteractNoResume
  PROVE  SessInv'
<1>1. /\ UNCHANGED <<vmm, pool, stops, intr, cache, handlers, breaks, astray, last, chosen>>
      /\ at \in {"script", "console"} /\ at' \in {"script", "console", "again"}
  BY DEF Interact, InteractNoResume, Opens, link
<1> QED
  BY <1>1, ConsoleSess

LEMMA ReturnSess ==
  ASSUME TypeOK, SessInv, NEW b \in BOOLEAN, Return(b)
  PROVE  SessInv'
<1>1. UNCHANGED <<vmm, pool, stops, intr, cache, handlers, breaks, astray>> /\ at = "handler"
  BY DEF Return, link
<1>2. at' \notin {"handler", "gone"}
  <2>1. CASE ~Answered
    BY <2>1 DEF Return
  <2>2. CASE Answered
    <3>1. at' = CASE from = "run" -> "console"
                  [] from \in {"script", "console"} -> from
                  [] from = "loop" /\ (inter \/ b) -> "console"
                  [] from = "loop" /\ ~(inter \/ b) ->
                       IF session = "dispatch2" THEN "again" ELSE "script"
      BY <2>2 DEF Return
    <3>2. CASE from = "run"
      BY <3>1, <3>2
    <3>3. CASE from = "loop"
      BY <3>1, <3>3
    <3>4. CASE from \in {"script", "console"}
      BY <3>1, <3>4
    <3> QED
      BY <3>2, <3>3, <3>4 DEF TypeOK, LoopType
  <2> QED
    BY <2>1, <2>2
<1> QED
  BY <1>1, <1>2, ConsoleSess

\* A stop is announced: the only one under way of a loop no ^C crossed.
LEMMA PreemptSess ==
  ASSUME TypeOK, SessInv, at # "gone",
         NEW s \in Stops, NEW p \in Addr, NEW c \in Value, NEW d \in Raised,
         Preempt(s, p, c, d), s.pc = p,
         lock => p = regs["pc"] /\ c = regs["cr3"] /\ d = regs["dr6"],
         s.why = "trap" /\ s.sure => TrapOf(hard, list, d, p) = s.on,
         s.why \in Events => s.why \in handlers,
         ~astray => at = "wait",
         UNCHANGED <<asked, pool, loop, last, chosen, cache, handlers, breaks, astray>>
  PROVE  SessInv'
<1>1. /\ RegsType' /\ Len(stops') = Len(stops) + 1 /\ stops' = Append(stops, s) /\ lock'
      /\ regs'["pc"] = p /\ regs'["cr3"] = c /\ regs'["dr6"] = d /\ stops' \in Seq(Stops)
  BY PreemptLink
<1>2. UNCHANGED <<mask, hard, list, at, cache, handlers, astray, pool, last, chosen>>
  BY DEF asked, loop, breaks
<1>3. GoneInv' /\ Dr6Inv' /\ mask' \subseteq handlers' /\ StopHandled'
  BY <1>1, <1>2 DEF SessInv, GoneInv, Dr6Inv, StopHandled
<1>4. SessionInv'
  <2> SUFFICES ASSUME ~astray PROVE SessionInv'
    BY <1>2 DEF SessionInv
  <2>1. /\ at = "wait"
        /\ lock => \A r \in Regs : cache[r].rd /\ ~cache[r].wr => cache[r].val = regs[r]
        /\ ~lock => \A r \in Regs : ~cache[r].rd
    BY DEF SessInv, SessionInv
  <2>2. lock => \A r \in Regs : regs'[r] = regs[r]
    BY <1>1 DEF Regs
  <2>3. \A r \in Regs : cache'[r].rd /\ ~cache'[r].wr => cache'[r].val = regs'[r]
    BY <1>2, <2>1, <2>2
  <2>4. ASSUME Len(pool' \o stops') = 1 PROVE Owed((pool \o stops)[1])'
    <3>1. pool \in Seq(Stops) /\ stops \in Seq(Stops)
      BY DEF TypeOK, LinkType
    <3>2. Len(pool) = 0 /\ Len(stops) = 0
      BY <1>1, <1>2, <2>4, <3>1
    <3>3. pool' = <<>> /\ stops' = <<s>>
      BY <1>1, <1>2, <3>1, <3>2
    <3>4. (pool' \o stops')[1] = s
      BY <3>3
    <3>5. OwedTo(s, regs', hard', list', handlers')
      BY <1>1, <1>2 DEF OwedTo
    <3> QED
      BY <3>4, <3>5, OwedNext
  <2> QED
    BY <1>1, <1>2, <2>1, <2>3, <2>4 DEF SessionInv
<1> QED
  BY <1>3, <1>4 DEF SessInv

LEMMA StubIntSess ==
  ASSUME TypeOK, SessInv, StubInt
  PROVE  SessInv'
<1>1. PICK p \in Sees("pc"), c \in Sees("cr3") :
        Preempt(Stop("int", p, NoBreak), p, c, regs["dr6"])
  BY DEF StubInt
<1>2. p \in Addr /\ c \in Value /\ regs["dr6"] \in Raised
  BY SeesIn, ContentIs DEF TypeOK, RegsType, Regs
<1> DEFINE s == Stop("int", p, NoBreak)
<1>3. s \in Stops
  BY <1>2, StopIn DEF Reasons
<1>4. s.pc = p /\ s.why = "int"
  BY DEF Stop
<1>5. s.why # "trap" /\ s.why \notin Events
  BY <1>4, ClientAssumption
<1>6. lock => p = regs["pc"] /\ c = regs["cr3"]
  BY <1>1 DEF Sees
<1>7. at # "gone" /\ (~astray => at = "wait")
  BY DEF StubInt, SessInv, GoneInv, SessionInv
<1>8. UNCHANGED <<asked, pool, loop, last, chosen, cache, handlers, breaks, astray>>
  BY DEF StubInt
<1> HIDE DEF s
<1> QED
  BY <1>1, <1>2, <1>3, <1>4, <1>5, <1>6, <1>7, <1>8, PreemptSess DEF s

\* The guest runs into a stop, and what it stops on is what the trap filter
\* will find.
LEMMA FiresSess ==
  ASSUME TypeOK, SessInv, at # "gone", NEW why \in Reasons \ {"none"},
         NEW on \in Breaks \cup {NoBreak, Stepped}, NEW p \in Addr, NEW d \in Raised,
         Fires(why, on, p, d),
         why = "trap" /\ on \notin unread => TrapOf(hard, list, d, p) = on,
         why \in Events => why \in handlers
  PROVE  SessInv'
<1>1. PICK c \in Value, e \in Dr6At(d) : Preempt(Stop(why, p, on), p, c, e)
  BY DEF Fires
<1>2. e \in Raised /\ (~filter => e = d)
  BY DEF Dr6At, Raised
<1> DEFINE s == Stop(why, p, on)
<1>3. s \in Stops
  BY StopIn
<1>4. s.pc = p /\ s.why = why /\ s.sure = (~filter /\ on \notin unread) /\ s.on = on
  BY DEF Stop
<1>5. s.why = "trap" /\ s.sure => TrapOf(hard, list, e, p) = s.on
  BY <1>2, <1>4
<1>6. ~lock /\ UNCHANGED <<asked, pool, loop, last, chosen, cache, handlers, breaks, astray>>
  BY DEF Fires
<1>7. ~astray => at = "wait"
  BY <1>6 DEF SessInv, SessionInv
<1> HIDE DEF s
<1> QED
  BY <1>1, <1>2, <1>3, <1>4, <1>5, <1>6, <1>7, PreemptSess DEF s

LEMMA VmmSess ==
  ASSUME TypeOK, SessInv, BreaksAgree, Vmm
  PROVE  SessInv'
<1>1. PICK p \in Addr : \/ \E e \in Events : FilteredEvent(e, p)
                        \/ SoftBreak(p) \/ SingleStepped(p)
                        \/ \E n \in Slot : HardBreak(n, p)
  BY DEF Vmm
<1>2. "trap" \in Reasons \ {"none"} /\ Events \subseteq Reasons \ {"none"} /\ "trap" \notin Events
  BY ClientAssumption DEF Reasons
<1>3. mask \subseteq handlers /\ (~lock => regs["dr6"] = {})
  BY DEF SessInv, Dr6Inv
<1>4. {} \in Raised /\ {BS} \in Raised /\ regs["dr6"] \in Raised
  BY ContentIs DEF Raised, TypeOK, RegsType, Regs
<1>5. \A d \in Raised : BS \in d => TrapOf(hard, list, d, p) = Stepped
  BY DEF TrapOf
<1>6. BS \notin Slot
  BY ClientAssumption DEF BS
<1>7. ASSUME NEW e \in Events, FilteredEvent(e, p) PROVE SessInv'
  <2>1. Fires(e, NoBreak, p, regs["dr6"]) /\ e \in mask
    BY <1>7 DEF FilteredEvent
  <2>2. at # "gone"
    BY <2>1 DEF SessInv, GoneInv
  <2> QED
    BY <1>2, <1>3, <1>4, <2>1, <2>2, FiresSess
<1>8. CASE SoftBreak(p)
  <2>1. Fires("trap", SoftAt(p), p, regs["dr6"]) /\ Backed(SoftAt(p)) /\ ~lock
    BY <1>8 DEF SoftBreak, Fires
  <2>2. SoftAt(p) \in Soft /\ SoftAt(p) \in Breaks /\ SlotsOf(soft, SoftAt(p)) # {}
    BY <2>1, SoftIn, AgreeNow
  <2>3. SoftAt(p) \notin unread => \E n \in Names : list[n].break = SoftAt(p)
    <3> SUFFICES ASSUME SoftAt(p) \notin unread PROVE NamesOf(list, SoftAt(p)) # {}
      BY DEF NamesOf
    <3>1. Cardinality(SlotsOf(soft, SoftAt(p))) <= Cardinality(NamesOf(list, SoftAt(p)))
      BY <2>2, AgreeNow DEF AgreeIn
    <3>2. Cardinality(SlotsOf(soft, SoftAt(p))) # 0
      BY <2>2, Counts, FS_EmptySet
    <3> QED
      BY <3>1, <3>2, Counts, FS_EmptySet
  <2>4. regs["dr6"] = {}
    BY <1>3, <2>1
  <2>5. SoftAt(p) \notin unread => TrapOf(hard, list, {}, p) = SoftAt(p)
    BY <2>3 DEF TrapOf
  <2>6. at # "gone"
    <3>1. SoftAt(p).type = 0
      BY DEF SoftAt
    <3>2. cnt > 0 /\ cnt # 0
      BY <2>1, <3>1 DEF Backed
    <3> QED
      BY <3>2 DEF SessInv, GoneInv
  <2> QED
    BY <1>2, <1>4, <2>1, <2>2, <2>4, <2>5, <2>6, FiresSess
<1>9. CASE SingleStepped(p)
  <2>1. Fires("trap", Stepped, p, {BS}) /\ step
    BY <1>9 DEF SingleStepped
  <2>2. at # "gone"
    BY <2>1 DEF SessInv, GoneInv
  <2> QED
    BY <1>2, <1>4, <1>5, <2>1, <2>2, FiresSess
<1>10. ASSUME NEW n \in Slot, HardBreak(n, p) PROVE SessInv'
  <2>1. hard[n] # NoBreak
        /\ \/ Fires("trap", hard[n], p, {n})
           \/ Fires("trap", Stepped, p, {n, BS})
    BY <1>10 DEF HardBreak
  <2>2. at # "gone"
    BY <2>1 DEF SessInv, GoneInv
  <2>3. hard[n] \in Breaks
    BY <2>1, BreakKinds DEF TypeOK, StubType
  <2>4. TrapOf(hard, list, {n}, p) = hard[n]
    <3>1. {m \in {n} \cap Slot : hard[m] # NoBreak} = {n}
      BY <2>1
    <3>2. Lowest({n}) = n /\ {n} # {} /\ BS \notin {n}
      BY <1>6, LowestOne
    <3>3. \E m \in Names : list[m].break = hard[n]
      BY <2>1, AgreeNow DEF AgreeIn, NamesOf
    <3> QED
      BY <3>1, <3>2, <3>3 DEF TrapOf
  <2>5. {n} \in Raised /\ {n, BS} \in Raised
    BY RaisedIn
  <2>6. CASE Fires("trap", hard[n], p, {n})
    BY <1>2, <2>2, <2>3, <2>4, <2>5, <2>6, FiresSess
  <2>7. CASE Fires("trap", Stepped, p, {n, BS})
    <3>1. TrapOf(hard, list, {n, BS}, p) = Stepped
      BY <1>5, <2>5
    <3> QED
      BY <1>2, <2>2, <2>5, <2>7, <3>1, FiresSess
  <2> QED
    BY <2>1, <2>6, <2>7
<1> QED
  BY <1>1, <1>7, <1>8, <1>9, <1>10

LEMMA RecvSess ==
  ASSUME TypeOK, SessInv, RecvStop
  PROVE  SessInv'
<1> DEFINE q == pool \o stops
<1>1. q \in Seq(Stops) /\ q # <<>>
  BY Queued DEF RecvStop
<1> DEFINE s == Head(q)
<1> DEFINE d == Reads("dr6")
<1>2. s = q[1] /\ s \in Stops
  BY <1>1
<1>3. /\ at' = "handler" /\ ~intr /\ intr' = intr
      /\ pool' = Tail(q) /\ stops' = <<>> /\ last' = s
      /\ UNCHANGED <<lock, regs, mask, handlers>>
      /\ astray \/ ~lock \/ Len(q) > 1 => astray'
      /\ cache' = [cache EXCEPT !["pc"] = Known(s.pc),
                                !["dr6"] = IF s.why = "trap" THEN d ELSE cache["dr6"]]
  BY DEF RecvStop, vmm
<1>4. chosen' = CASE s.why = "trap" -> Trapped(d.val, s.pc)
                  [] s.why \in handlers -> Called
                  [] OTHER -> NoBreak
  BY DEF RecvStop
<1>5. "trap" \notin Events /\ handlers \subseteq Events
  BY ClientAssumption DEF TypeOK, HandleType
<1>6. /\ DOMAIN cache = Regs
      /\ \A r \in Regs : r \in {"pc", "cr3", "dr6"}
      /\ "pc" \in Regs /\ "dr6" \in Regs /\ "pc" # "dr6"
  BY ContentIs DEF TypeOK, CacheType, Regs
<1>7. ~cache["dr6"].wr /\ \A r \in Regs : cache[r].wr => cache[r].rd
  BY DEF SessInv, Dr6Inv
<1>8. d.rd /\ ~d.wr
  BY <1>7 DEF Reads, Known
<1>9. Known(s.pc).rd /\ ~Known(s.pc).wr /\ Known(s.pc).val = s.pc
  BY DEF Known
<1>10. /\ cache'["pc"] = Known(s.pc)
       /\ cache'["dr6"] = IF s.why = "trap" THEN d ELSE cache["dr6"]
       /\ \A r \in Regs : r \notin {"pc", "dr6"} => cache'[r] = cache[r]
  BY <1>3, <1>6
<1>11. Dr6Inv'
  <2>1. ~lock' => regs'["dr6"] = {}
    BY <1>3 DEF SessInv, Dr6Inv
  <2>2. ~cache'["dr6"].wr
    BY <1>7, <1>8, <1>10
  <2>3. \A r \in Regs : cache'[r].wr => cache'[r].rd
    BY <1>6, <1>7, <1>8, <1>9, <1>10
  <2> QED
    BY <2>1, <2>2, <2>3 DEF Dr6Inv
<1>12. GoneInv' /\ mask' \subseteq handlers'
  BY <1>3 DEF GoneInv, SessInv
<1>13. ASSUME ~astray'
       PROVE  /\ lock /\ ~astray /\ pool' = <<>>
              /\ \A r \in Regs : cache[r].rd /\ ~cache[r].wr => cache[r].val = regs[r]
              /\ OwedTo(s, regs, hard, list, handlers)
  <2>1. ~astray /\ lock /\ ~(Len(q) > 1)
    BY <1>3, <1>13
  <2>2. Len(q) = 1 /\ Tail(q) = <<>>
    BY <1>1, <2>1
  <2>3. OwedTo(s, regs, hard, list, handlers)
    <3>1. Owed((pool \o stops)[1])
      BY <2>1, <2>2 DEF SessInv, SessionInv
    <3> QED
      BY <1>2, <3>1, OwedNow
  <2> QED
    BY <1>3, <2>1, <2>2, <2>3 DEF SessInv, SessionInv
<1>14. d.val = IF cache["dr6"].rd THEN cache["dr6"].val ELSE regs["dr6"]
  BY DEF Reads, Known
<1> HIDE DEF q, s, d
<1>15. ~astray' => d.val = regs["dr6"]
  BY <1>6, <1>7, <1>13, <1>14
<1>16. SessionInv'
  <2> SUFFICES ASSUME ~astray' PROVE SessionInv'
    BY DEF SessionInv
  <2>1. s.pc = regs["pc"]
    BY <1>13 DEF OwedTo
  <2>2. \A r \in Regs : cache'[r].rd /\ ~cache'[r].wr => cache'[r].val = regs'[r]
    BY <1>3, <1>6, <1>9, <1>10, <1>13, <1>15, <2>1
  <2>3. Len(pool' \o stops') # 1
    <3>1. pool' = <<>> /\ stops' = <<>>
      BY <1>3, <1>13
    <3> QED
      BY <3>1
  <2> QED
    BY <1>3, <1>13, <2>2, <2>3 DEF SessionInv
<1>17. StopHandled'
  <2> SUFFICES ASSUME ~astray', s.sure
               PROVE  CASE s.why = "trap" -> chosen' = s.on
                        [] s.why \in Events -> chosen' = Called
                        [] OTHER -> TRUE
    BY <1>3 DEF StopHandled
  <2>1. CASE s.why = "trap"
    <3>1. chosen' = Trapped(d.val, s.pc)
      BY <1>4, <1>5, <2>1
    <3>2. TrapOf(hard, list, regs["dr6"], s.pc) = s.on
      BY <1>13, <2>1 DEF OwedTo
    <3>3. chosen' = s.on
      BY <1>15, <3>1, <3>2, OwedNow
    <3> QED
      BY <1>5, <2>1, <3>3
  <2>2. CASE s.why \in Events
    <3>1. s.why \in handlers /\ s.why # "trap"
      BY <1>5, <1>13, <2>2 DEF OwedTo
    <3>2. chosen' = Called
      BY <1>4, <3>1
    <3> QED
      BY <2>2, <3>1, <3>2
  <2>3. CASE s.why # "trap" /\ s.why \notin Events
    BY <2>3
  <2> QED
    BY <2>1, <2>2, <2>3
<1> QED
  BY <1>11, <1>12, <1>16, <1>17 DEF SessInv

LEMMA SessStep ==
  ASSUME TypeOK, SessInv, BreaksAgree, [Next]_vars
  PROVE  SessInv'
<1>1. CASE Vmm \/ StubInt
  BY <1>1, VmmSess, StubIntSess
<1>2. CASE Operation
  BY <1>2, OperationSess
<1>3. CASE Run
  BY <1>3, RunSess
<1>4. ASSUME at \notin {"wait", "gone"},
             NEW f, VmStop(f) \/ VmResume(f) \/ VmSinglestep(f)
      PROVE  SessInv'
  BY <1>4, VmStopSess, ContinueSess DEF VmResume, VmSinglestep
<1>5. CASE Call \/ Eof \/ Again
  <2>1. at \notin {"wait", "gone"}
    BY <1>5 DEF Call, Eof, Again
  <2>2. CASE Call
    BY <1>4, <2>1, <2>2 DEF Call
  <2>3. CASE Eof \/ Again
    BY <1>4, <2>1, <2>3 DEF Eof, Again
  <2> QED
    BY <1>5, <2>2, <2>3
<1>6. CASE Interact \/ InteractNoResume
  BY <1>6, InteractSess
<1>7. CASE RecvStop \/ Returns
  BY <1>7, RecvSess, ReturnSess DEF Returns
<1>8. CASE Detach \/ Interrupt
  BY <1>8, LeaveSess, InterruptSess DEF Detach
<1>9. CASE UNCHANGED vars
  BY <1>9, ConsoleSess DEF vars, link, loop
<1> QED
  BY <1>1, <1>2, <1>3, <1>5, <1>6, <1>7, <1>8, <1>9 DEF Next

(***************************************************************************)
(* The theorems                                                            *)
(***************************************************************************)
LEMMA InvIs == IInv <=> TypeOK /\ Bounded /\ BreaksInv /\ SessInv /\ RegsCoherent
BY DEF IInv, BreaksInv, SessInv, TypeOK, StubType, HardType

LEMMA CoherentInv == SessInv => RegsCoherent
BY DEF SessInv, SessionInv, RegsCoherent, Busy

LEMMA SessInit == Init => TypeOK /\ Bounded /\ SessInv
<1> SUFFICES ASSUME Init PROVE TypeOK /\ Bounded /\ SessInv
  OBVIOUS
<1>1. \A r \in Regs : Unknown(r) \in Register(r) /\ ~Unknown(r).rd /\ ~Unknown(r).wr
  BY DefaultIn DEF Unknown, Register
<1>2. cache = [r \in Regs |-> Unknown(r)] /\ regs = [r \in Regs |-> IF r = "dr6" THEN {} ELSE Default(r)]
  BY DEF Init
<1>3. RegsType
  <2>1. {} \in Content("dr6")
    BY ContentIs DEF Raised
  <2> QED
    BY <1>2, <2>1, DefaultIn DEF RegsType
<1>4. CacheType
  BY <1>1, <1>2 DEF CacheType
<1>5. ListType /\ TableType
  BY BreaksInit DEF BreaksInv
<1>6. LinkType /\ StubType /\ LoopType /\ HandleType /\ Bounded
  <2>1. MaxStops \in Nat /\ stops = <<>> /\ pool = <<>> /\ intr = FALSE
    BY ClientAssumption DEF Init
  <2>2. LinkType /\ Bounded
    <3>1. <<>> \in Seq(Stops) /\ Len(<<>>) = 0
      OBVIOUS
    <3>2. LinkType
      BY <2>1, <3>1 DEF LinkType
    <3>3. Len(stops) + Len(pool) + (IF intr THEN 1 ELSE 0) = 0
      BY <2>1, <3>1
    <3> QED
      BY <2>1, <3>2, <3>3 DEF Bounded
  <2>3. StubType
    BY DEF Init, StubType
  <2>4. LoopType
    BY DEF Init, LoopType
  <2>5. HandleType
    BY DEF Init, HandleType
  <2> QED
    BY <2>2, <2>3, <2>4, <2>5
<1>7. \A r \in Regs : ~cache[r].rd /\ ~cache[r].wr
  BY <1>1, <1>2
<1>8. "dr6" \in Regs /\ regs["dr6"] = {}
  BY <1>2 DEF Regs
<1>9. SessInv
  <2>1. Len(pool \o stops) # 1
    BY DEF Init
  <2> QED
    BY <1>7, <1>8, <2>1 DEF Init, SessInv, GoneInv, Dr6Inv, SessionInv, StopHandled
<1> QED
  BY <1>3, <1>4, <1>5, <1>6, <1>9 DEF TypeOK

\* The inductive invariant of the client: what the list, the cache and the
\* channel are in every place a session can be.
THEOREM ClientSafe == Spec => []IInv
<1>1. Init => IInv
  BY SessInit, BreaksInit, CoherentInv, InvIs
<1>2. IInv /\ [Next]_vars => IInv'
  <2> SUFFICES ASSUME IInv, [Next]_vars PROVE IInv'
    OBVIOUS
  <2>1. TypeOK /\ Bounded /\ BreaksInv /\ SessInv /\ BreaksAgree /\ GoneInv
    BY InvIs DEF IInv
  <2>2. TypeOK' /\ Bounded' /\ BreaksInv' /\ SessInv'
    BY <2>1, TypeStep, BreaksStep, SessStep
  <2>3. RegsCoherent'
    BY <2>2 DEF SessInv, SessionInv, RegsCoherent, Busy
  <2> QED
    BY <2>2, <2>3 DEF IInv, BreaksInv, SessInv
<1> QED
  BY <1>1, <1>2, PTL DEF Spec

\* While the client works on a stop that no ^C crossed, the VM is held and
\* no register it has read is stale, for any values and any number of stops
\* under way (Register._flush, cr_sync, VM.__process).
THEOREM RegsSafe == Spec => []RegsCoherent
<1>1. IInv => RegsCoherent
  BY DEF IInv
<1> QED
  BY <1>1, ClientSafe, PTL

\* A stop that no ^C crossed reaches the breakpoint, the step or the handler
\* it is for, for any breakpoints and debug registers, but at a slot that the
\* stub claimed unread (BreakPoints.__trap_filter, CPU's handlers).
THEOREM HandledSafe == Spec => []StopHandled
<1>1. IInv => StopHandled
  BY DEF IInv
<1> QED
  BY <1>1, ClientSafe, PTL
=============================================================================
