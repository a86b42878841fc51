---------------------------- MODULE DebuggerProofs ----------------------------
(***************************************************************************)
(* Theorems about Debugger, for every number of slots, address spaces and  *)
(* addresses.                                                              *)
(***************************************************************************)
EXTENDS Debugger, FiniteSetTheorems, WellFoundedInduction, TLAPS

(***************************************************************************)
(* Lemmas about the visits of the table.                                   *)
(***************************************************************************)

\* A non-empty set of naturals has a least element.
LEMMA LeastExists ==
  ASSUME NEW S \in SUBSET Nat, S # {}
  PROVE  \E x \in S : \A y \in S : x <= y
<1> DEFINE R == OpToRel(<, Nat)
<1>1. IsWellFoundedOn(R, Nat)
  BY NatLessThanWellFounded
<1>2. \A x, y \in Nat : y < x => <<y, x>> \in R
  BY DEF OpToRel
<1> HIDE DEF R
<1>3. PICK x \in S : \A y \in S : ~(<<y, x>> \in R)
  BY <1>1, WFMin
<1>4. \A y \in S : ~(y < x)
  BY <1>2, <1>3, Zenon
<1>5. \A y \in S : x <= y
  BY <1>4
<1> QED
  BY <1>5

\* A non-empty set of slots has a last one: the slot whose byte a cell gets
\* when several slots stand for it (SavedBytes).
LEMMA LastSlotExists ==
  ASSUME NEW S \in SUBSET Slot, S # {}
  PROVE  \E x \in S : \A y \in S : y <= x
<1>1. DBG_SOFT_NR \in Nat
  BY SoftBreakAssumption
<1> DEFINE T == {k \in Nat : \E i \in S : k + i = DBG_SOFT_NR}
<1>2. PICK i0 \in S : TRUE
  OBVIOUS
<1>3. i0 \in 0 .. DBG_SOFT_NR - 1
  BY DEF Slot
<1>4. DBG_SOFT_NR - i0 \in T
  BY <1>1, <1>3
<1>5. T \in SUBSET Nat /\ T # {}
  BY <1>4
<1> HIDE DEF T
<1>6. PICK k \in T : \A m \in T : k <= m
  BY <1>5, LeastExists
<1>7. PICK x \in S : k + x = DBG_SOFT_NR /\ k \in Nat
  BY <1>6 DEF T
<1>8. \A y \in S : DBG_SOFT_NR - y \in T
  BY <1>1 DEF T, Slot
<1>9. \A y \in S : k <= DBG_SOFT_NR - y
  BY <1>6, <1>8
<1>10. \A y \in S : y <= x
  BY <1>1, <1>7, <1>9 DEF Slot
<1> QED
  BY <1>10

\* What SavedBytes writes to a cell is the byte of one of its slots.
LEMMA SavedBytesOfSlot ==
  ASSUME NEW b \in [Slot -> Bp], NEW m \in [Cell -> Byte],
         NEW W \in SUBSET Slot, NEW c \in Cell
  PROVE  \/ /\ \A i \in W : CellOf(b[i]) # c
            /\ SavedBytes(b, m, W)[c] = m[c]
         \/ \E i \in W : /\ CellOf(b[i]) = c
                         /\ SavedBytes(b, m, W)[c] = b[i].byte
<1> DEFINE Of == {i \in W : CellOf(b[i]) = c}
<1>1. SavedBytes(b, m, W)[c] =
        IF Of = {} THEN m[c]
        ELSE b[CHOOSE i \in Of : \A j \in Of : j <= i].byte
  BY DEF SavedBytes
<1>2. CASE Of = {}
  BY <1>1, <1>2
<1>3. CASE Of # {}
  <2>1. Of \in SUBSET Slot
    OBVIOUS
  <2>2. \E i \in Of : \A j \in Of : j <= i
    BY <1>3, <2>1, LastSlotExists
  <2> DEFINE x == CHOOSE i \in Of : \A j \in Of : j <= i
  <2>3. x \in Of
    BY <2>2
  <2>4. SavedBytes(b, m, W)[c] = b[x].byte
    BY <1>1, <1>3
  <2> QED
    BY <2>3, <2>4
<1> QED
  BY <1>2, <1>3

LEMMA SavedBytesType ==
  ASSUME NEW b \in [Slot -> Bp], NEW m \in [Cell -> Byte], NEW W \in SUBSET Slot
  PROVE  SavedBytes(b, m, W) \in [Cell -> Byte]
<1>1. ASSUME NEW c \in Cell
      PROVE  SavedBytes(b, m, W)[c] \in Byte
  <2>1. \A i \in W : b[i].byte \in Byte
    BY DEF Bp
  <2> QED
    BY <2>1, SavedBytesOfSlot
<1>2. SavedBytes(b, m, W) = [c \in Cell |-> SavedBytes(b, m, W)[c]]
  BY DEF SavedBytes
<1> QED
  BY <1>1, <1>2

\* The remaining operators of the table keep its type, and memory's.
LEMMA SetStType ==
  ASSUME NEW b \in [Slot -> Bp], NEW W, NEW st \in BOOLEAN
  PROVE  SetSt(b, W, st) \in [Slot -> Bp]
BY DEF SetSt, Bp

LEMMA ReleaseType ==
  ASSUME NEW b \in [Slot -> Bp], NEW ac, NEW W
  PROVE  Release(b, ac, W) \in [Slot -> Bp]
BY DEF Release, Bp

LEMMA ClaimType ==
  ASSUME NEW b \in [Slot -> Bp], NEW m \in [Cell -> Byte],
         NEW a \in Addr, NEW s \in Space, NEW rc
  PROVE  Claim(b, m, a, s, rc) \in [Slot -> Bp]
BY DEF Claim, Bp, Cell

LEMMA TrapBytesType ==
  ASSUME NEW b, NEW m \in [Cell -> Byte], NEW W
  PROVE  TrapBytes(b, m, W) \in [Cell -> Byte]
BY SoftBreakAssumption DEF TrapBytes

LEMMA FreeBpType == FreeBp \in Bp
BY SoftBreakAssumption DEF FreeBp, Bp

(***************************************************************************)
(* Type correctness.                                                       *)
(***************************************************************************)
LEMMA InitType == Init => TypeOK
<1> SUFFICES ASSUME Init PROVE TypeOK
  OBVIOUS
<1>1. FreeBp.addr \in Addr /\ FreeBp.cr3 \in Space
  BY SoftBreakAssumption DEF FreeBp
<1>2. 0 \in Slot /\ 0 \in 0 .. DBG_SOFT_NR
  BY SoftBreakAssumption DEF Slot
<1> QED
  BY <1>1, <1>2, FreeBpType, SoftBreakAssumption, DebuggerAssumption
     DEF Init, TypeOK, NoEvent, AccessCode, Requestor

\* Asking for new control traps leaves the request record well typed.
LEMMA TrapsUpType ==
  ASSUME traps \in [on : BOOLEAN, up : BOOLEAN]
  PROVE  [traps EXCEPT !.up = TRUE] \in [on : BOOLEAN, up : BOOLEAN]
OBVIOUS

\* So does any change of the resume status of the breakpoint controller.
LEMMA SoftRsType ==
  ASSUME soft \in [on : BOOLEAN, rs : BOOLEAN, dis : BOOLEAN], NEW b \in BOOLEAN
  PROVE  [soft EXCEPT !.rs = b] \in [on : BOOLEAN, rs : BOOLEAN, dis : BOOLEAN]
OBVIOUS

LEMMA SoftResetType ==
  TypeOK /\ SoftReset =>
    /\ bp' \in [Slot -> Bp]
    /\ mem' \in [Cell -> Byte]
    /\ cnt' \in 0 .. DBG_SOFT_NR
    /\ soft' \in [on : BOOLEAN, rs : BOOLEAN, dis : BOOLEAN]
<1> SUFFICES ASSUME TypeOK, SoftReset
             PROVE  /\ bp' \in [Slot -> Bp]
                    /\ mem' \in [Cell -> Byte]
                    /\ cnt' \in 0 .. DBG_SOFT_NR
                    /\ soft' \in [on : BOOLEAN, rs : BOOLEAN, dis : BOOLEAN]
  OBVIOUS
<1>1. ActiveSet(bp) \in SUBSET Slot
  BY DEF ActiveSet
<1>2. Restorable(bp, acc, ActiveSet(bp)) \in SUBSET Slot
  BY DEF ActiveSet, Restorable
<1>3. bp' \in [Slot -> Bp]
  BY ReleaseType DEF TypeOK, SoftReset
<1>4. mem' \in [Cell -> Byte]
  BY <1>2, SavedBytesType DEF TypeOK, SoftReset
<1> QED
  BY <1>3, <1>4, SoftBreakAssumption DEF SoftReset

LEMMA TypeStep == TypeOK /\ [Next]_vars => TypeOK'
<1> SUFFICES ASSUME TypeOK, [Next]_vars PROVE TypeOK'
  OBVIOUS
<1> USE SoftBreakAssumption DEF Requestor
<1>0. ActiveCr3 \in Space /\ Here \in Cell
  BY DEF TypeOK, ActiveCr3, Here, Cell
<1>1. ASSUME NEW a \in Addr, SetBreak(a) PROVE TypeOK'
  <2> DEFINE rc == acc[<<ActiveCr3, a>>]
  <2>1. rc \in AccessCode
    BY <1>0 DEF TypeOK, Cell
  <2>2. bp' \in [Slot -> Bp]
    BY <1>0, <1>1, <2>1, ClaimType DEF SetBreak, TypeOK
  <2>3. cnt' \in 0 .. DBG_SOFT_NR
    BY <1>1 DEF SetBreak, TypeOK
  <2>4. soft' \in [on : BOOLEAN, rs : BOOLEAN, dis : BOOLEAN]
    BY <1>1 DEF SetBreak, TypeOK
  <2>5. traps' \in [on : BOOLEAN, up : BOOLEAN]
    BY <1>1 DEF SetBreak, TypeOK
  <2> QED
    BY <1>1, <2>2, <2>3, <2>4, <2>5 DEF SetBreak, TypeOK, guestVars
<1>2. ASSUME NEW a \in Addr, DelBreak(a) PROVE TypeOK'
  <2>1. PICK i \in FirstAt(bp, a) :
          /\ bp'  = Release(bp, acc, {i})
          /\ mem' = SavedBytes(bp, mem, Restorable(bp, acc, {i}))
    BY <1>2 DEF DelBreak
  <2>2. {i} \in SUBSET Slot /\ Restorable(bp, acc, {i}) \in SUBSET Slot
    BY DEF FirstAt, Restorable
  <2>3. bp' \in [Slot -> Bp]
    BY <2>1, ReleaseType DEF TypeOK
  <2>4. mem' \in [Cell -> Byte]
    BY <2>1, <2>2, SavedBytesType DEF TypeOK
  <2>5. cnt' \in 0 .. DBG_SOFT_NR
    BY <1>2 DEF DelBreak, TypeOK
  <2>6. soft' \in [on : BOOLEAN, rs : BOOLEAN, dis : BOOLEAN]
    BY <1>2 DEF DelBreak, TypeOK
  <2>7. traps' \in [on : BOOLEAN, up : BOOLEAN]
    BY <1>2 DEF DelBreak, TypeOK
  <2> QED
    BY <1>2, <2>3, <2>4, <2>5, <2>6, <2>7 DEF DelBreak, TypeOK, guestVars
<1>3. ASSUME NEW s \in Space, SetFilter(s) PROVE TypeOK'
  <2>1. /\ filter \in [on : BOOLEAN, cr3 : Space, keep : BOOLEAN]
        /\ traps \in [on : BOOLEAN, up : BOOLEAN]
        /\ excp \subseteq {"BP", "DB", "GP"}
    BY DEF TypeOK
  <2>2. /\ traps' = [traps EXCEPT !.up = TRUE]
        /\ excp' = excp \/ excp' = excp \ {"BP"}
        /\ UNCHANGED <<evt, step, bitmap, event, gdb, guestVars, run>>
    BY <1>3 DEF SetFilter
  <2>3. traps' \in [on : BOOLEAN, up : BOOLEAN]
    BY <2>1, <2>2, TrapsUpType
  <2>4. excp' \subseteq {"BP", "DB", "GP"}
    BY <2>1, <2>2
  <2>5. filter' \in [on : BOOLEAN, cr3 : Space, keep : BOOLEAN]
    <3> DEFINE k == ~filter.on /\ filter.keep
    <3>1. k \in BOOLEAN
      OBVIOUS
    <3>2. filter' = [on |-> TRUE, cr3 |-> s, keep |-> k]
      BY <1>3 DEF SetFilter
    <3> HIDE DEF k
    <3> QED
      BY <3>1, <3>2, Zenon
  <2>6. SoftReset \/ UNCHANGED <<tableVars, mem>>
    BY <1>3 DEF SetFilter
  <2>7. /\ bp' \in [Slot -> Bp]
        /\ mem' \in [Cell -> Byte]
        /\ cnt' \in 0 .. DBG_SOFT_NR
        /\ soft' \in [on : BOOLEAN, rs : BOOLEAN, dis : BOOLEAN]
    <3>1. CASE SoftReset
      BY <3>1, SoftResetType
    <3>2. CASE UNCHANGED <<tableVars, mem>>
      BY <3>2 DEF TypeOK, tableVars
    <3> QED
      BY <2>6, <3>1, <3>2
  <2> QED
    BY <2>2, <2>3, <2>4, <2>5, <2>7 DEF TypeOK, guestVars
<1>4. CASE DelFilter
  <2>1. /\ filter \in [on : BOOLEAN, cr3 : Space, keep : BOOLEAN]
        /\ traps \in [on : BOOLEAN, up : BOOLEAN]
        /\ excp \subseteq {"BP", "DB", "GP"}
    BY DEF TypeOK
  <2>2. /\ SoftReset
        /\ excp' = excp \ {"BP"}
        /\ filter' = [filter EXCEPT !.on = FALSE, !.keep = FALSE]
        /\ traps' = [traps EXCEPT !.up = TRUE]
        /\ UNCHANGED <<evt, step, bitmap, event, gdb, guestVars, run>>
    BY <1>4 DEF DelFilter
  <2>3. filter' \in [on : BOOLEAN, cr3 : Space, keep : BOOLEAN]
    BY <2>1, <2>2
  <2>4. traps' \in [on : BOOLEAN, up : BOOLEAN]
    BY <2>1, <2>2, TrapsUpType
  <2>5. excp' \subseteq {"BP", "DB", "GP"}
    BY <2>1, <2>2
  <2>6. /\ bp' \in [Slot -> Bp]
        /\ mem' \in [Cell -> Byte]
        /\ cnt' \in 0 .. DBG_SOFT_NR
        /\ soft' \in [on : BOOLEAN, rs : BOOLEAN, dis : BOOLEAN]
    BY <2>2, SoftResetType
  <2> QED
    BY <2>2, <2>3, <2>4, <2>5, <2>6 DEF TypeOK, guestVars
<1>5. CASE KeepFilter
  <2>1. filter' \in [on : BOOLEAN, cr3 : Space, keep : BOOLEAN]
    BY <1>5 DEF KeepFilter, TypeOK
  <2> QED
    BY <1>5, <2>1 DEF KeepFilter, TypeOK, guestVars, tableVars
<1>6. CASE Detach
  <2>1. /\ filter \in [on : BOOLEAN, cr3 : Space, keep : BOOLEAN]
        /\ traps \in [on : BOOLEAN, up : BOOLEAN]
        /\ excp \subseteq {"BP", "DB", "GP"}
    BY DEF TypeOK
  <2>2. /\ filter' = filter \/ filter' = [filter EXCEPT !.on = FALSE, !.keep = FALSE]
        /\ bitmap' = excp \/ bitmap' = excp \ {"BP"}
        /\ SoftReset
        /\ step' = [on |-> FALSE, tf |-> FALSE, rq |-> "USR"]
        /\ excp' = {}
        /\ traps' = [traps EXCEPT !.up = TRUE]
        /\ gdb' = FALSE
        /\ run' = "traps"
        /\ UNCHANGED <<evt, event, cr3, rip, acc, code, seen>>
    BY <1>6 DEF Detach, StepReset
  <2>3. filter' \in [on : BOOLEAN, cr3 : Space, keep : BOOLEAN]
    BY <2>1, <2>2
  <2>4. traps' \in [on : BOOLEAN, up : BOOLEAN]
    BY <2>1, <2>2, TrapsUpType
  <2>5. step' \in [on : BOOLEAN, tf : BOOLEAN, rq : Requestor]
    BY <2>2 DEF Requestor
  <2>6. tf' \in [Space -> BOOLEAN]
    <3>1. tf \in [Space -> BOOLEAN] /\ step.tf \in BOOLEAN
      BY DEF TypeOK
    <3>2. tf' = tf \/ tf' = [tf EXCEPT ![cr3] = step.tf]
      BY <1>6 DEF Detach, StepReset
    <3> QED
      BY <3>1, <3>2
  <2>7. /\ bp' \in [Slot -> Bp]
        /\ mem' \in [Cell -> Byte]
        /\ cnt' \in 0 .. DBG_SOFT_NR
        /\ soft' \in [on : BOOLEAN, rs : BOOLEAN, dis : BOOLEAN]
    BY <2>2, SoftResetType
  <2>8. bitmap' \subseteq {"BP", "DB", "GP"} /\ excp' \subseteq {"BP", "DB", "GP"}
    BY <2>1, <2>2
  <2> QED
    BY <2>2, <2>3, <2>4, <2>5, <2>6, <2>7, <2>8 DEF TypeOK
<1>7. ASSUME NEW stp \in BOOLEAN, Resume(stp) PROVE TypeOK'
  <2>1. evt.slot \in Slot
    BY DEF TypeOK
  <2>2. bp' \in [Slot -> Bp]
    BY <1>7, SetStType DEF Resume, Liftable, StepOn, TypeOK
  <2>3. mem' \in [Cell -> Byte]
    <3>1. SavedBytes(bp, mem, {evt.slot}) \in [Cell -> Byte]
      BY <2>1, SavedBytesType DEF TypeOK
    <3> QED
      BY <1>7, <3>1 DEF Resume, Liftable, StepOn, TypeOK
  <2>4. soft' \in [on : BOOLEAN, rs : BOOLEAN, dis : BOOLEAN]
    <3>1. \E b \in BOOLEAN : soft' = [soft EXCEPT !.rs = b]
      BY <1>7 DEF Resume, Liftable, StepOn
    <3>2. soft \in [on : BOOLEAN, rs : BOOLEAN, dis : BOOLEAN]
      BY DEF TypeOK
    <3> QED
      BY <3>1, <3>2, SoftRsType
  <2>5. step' \in [on : BOOLEAN, tf : BOOLEAN, rq : Requestor]
    <3>1. tf[cr3] \in BOOLEAN
      BY DEF TypeOK
    <3>2. \/ step' = step
          \/ \E rq \in Requestor : step' = [on |-> TRUE, tf |-> tf[cr3], rq |-> rq]
      BY <1>7 DEF Resume, Liftable, StepOn
    <3>3. step \in [on : BOOLEAN, tf : BOOLEAN, rq : Requestor]
      BY DEF TypeOK
    <3>4. CASE step' = step
      BY <3>3, <3>4
    <3>5. ASSUME NEW rq \in Requestor,
                 step' = [on |-> TRUE, tf |-> tf[cr3], rq |-> rq]
          PROVE  step' \in [on : BOOLEAN, tf : BOOLEAN, rq : Requestor]
      <4> DEFINE t == tf[cr3]
      <4>1. t \in BOOLEAN
        BY <3>1
      <4>2. step' = [on |-> TRUE, tf |-> t, rq |-> rq]
        BY <3>5
      <4> HIDE DEF t
      <4> QED
        BY <4>1, <4>2, Zenon
    <3> QED
      BY <3>2, <3>4, <3>5
  <2>6. tf' \in [Space -> BOOLEAN]
    BY <1>7 DEF Resume, Liftable, StepOn, TypeOK
  <2>7. excp' \subseteq {"BP", "DB", "GP"}
    BY <1>7 DEF Resume, Liftable, StepOn, TypeOK
  <2>8. traps' \in [on : BOOLEAN, up : BOOLEAN]
    <3>1. traps' = traps \/ traps' = [traps EXCEPT !.up = TRUE]
      BY <1>7 DEF Resume, Liftable, StepOn
    <3>2. traps \in [on : BOOLEAN, up : BOOLEAN]
      BY DEF TypeOK
    <3> QED
      BY <3>1, <3>2, TrapsUpType
  <2> QED
    BY <1>7, <2>2, <2>3, <2>4, <2>5, <2>6, <2>7, <2>8 DEF Resume, Liftable, StepOn, TypeOK
<1>8. CASE DeliverEvent
  <2>1. seen' \in [Space -> BOOLEAN]
    BY <1>8 DEF DeliverEvent, TypeOK
  <2>2. /\ event' = FALSE /\ run' = "stub"
        /\ UNCHANGED <<bp, cnt, soft, evt, excp, step, filter, traps, bitmap, gdb,
                       cr3, rip, tf, acc, code, mem>>
    BY <1>8 DEF DeliverEvent, tableVars
  <2>3. event' \in BOOLEAN
    BY <2>2
  <2>4. run' \in {"guest", "exit", "stub", "traps", "failed"}
    BY <2>2
  <2> QED
    BY <2>1, <2>2, <2>3, <2>4 DEF TypeOK
<1>9. CASE ClientInterrupts
  <2>1. seen' \in [Space -> BOOLEAN]
    BY <1>9 DEF ClientInterrupts, TypeOK
  <2> QED
    BY <1>9, <2>1 DEF ClientInterrupts, TypeOK, tableVars
<1>10. CASE ClientSilent
  BY <1>10 DEF ClientSilent, TypeOK, tableVars, ctrlVars, guestVars
<1>11. CASE CtrlTraps
  <2>1. ASSUME TrapsEnable
        PROVE  /\ bp' \in [Slot -> Bp]
               /\ mem' \in [Cell -> Byte]
               /\ soft' \in [on : BOOLEAN, rs : BOOLEAN, dis : BOOLEAN]
               /\ bitmap' \subseteq {"BP", "DB", "GP"}
               /\ traps' \in [on : BOOLEAN, up : BOOLEAN]
    <3>1. bp' \in [Slot -> Bp]
      BY <2>1, SetStType DEF TrapsEnable, TypeOK
    <3>2. mem' \in [Cell -> Byte]
      BY <2>1, TrapBytesType DEF TrapsEnable, TypeOK
    <3>3. soft' \in [on : BOOLEAN, rs : BOOLEAN, dis : BOOLEAN]
      BY <2>1 DEF TrapsEnable, TypeOK
    <3> QED
      BY <2>1, <3>1, <3>2, <3>3 DEF TrapsEnable, TypeOK
  <2>2. ASSUME TrapsDisable
        PROVE  /\ bp' \in [Slot -> Bp]
               /\ mem' \in [Cell -> Byte]
               /\ soft' \in [on : BOOLEAN, rs : BOOLEAN, dis : BOOLEAN]
               /\ bitmap' \subseteq {"BP", "DB", "GP"}
               /\ traps' \in [on : BOOLEAN, up : BOOLEAN]
    <3> DEFINE W == Written(bp, acc, IF soft.dis THEN {} ELSE DisarmSet(bp))
    <3>1. W \in SUBSET Slot
      BY DEF Written, Reached, DisarmSet
    <3>2. mem' \in [Cell -> Byte]
      BY <2>2, <3>1, SavedBytesType DEF TrapsDisable, TypeOK
    <3>3. bp' \in [Slot -> Bp]
      BY <2>2, SetStType DEF TrapsDisable, TypeOK
    <3>4. soft' \in [on : BOOLEAN, rs : BOOLEAN, dis : BOOLEAN]
      BY <2>2 DEF TrapsDisable, TypeOK
    <3> QED
      BY <2>2, <3>2, <3>3, <3>4 DEF TrapsDisable, TypeOK
  <2>3. /\ bp' \in [Slot -> Bp]
        /\ mem' \in [Cell -> Byte]
        /\ soft' \in [on : BOOLEAN, rs : BOOLEAN, dis : BOOLEAN]
        /\ bitmap' \subseteq {"BP", "DB", "GP"}
        /\ traps' \in [on : BOOLEAN, up : BOOLEAN]
    <3>1. TrapsEnable \/ TrapsDisable \/ UNCHANGED <<bp, mem, soft, bitmap, traps>>
      BY <1>11 DEF CtrlTraps
    <3> QED
      BY <2>1, <2>2, <3>1 DEF TypeOK
  <2> QED
    BY <1>11, <2>3 DEF CtrlTraps, TypeOK, guestVars
<1>12. CASE OtherExit
  BY <1>12 DEF OtherExit, TypeOK, tableVars, ctrlVars, guestVars
<1>13. ASSUME NEW s \in Space, SwitchCr3(s) PROVE TypeOK'
  BY <1>13 DEF SwitchCr3, TypeOK, tableVars, ctrlVars
<1>14. CASE Breakpoint
  <2>1. PICK i \in Slot :
          evt' = [type |-> "SOFT_BRK", addr |-> bp[i].addr, slot |-> i]
    BY <1>14 DEF Breakpoint, FirstAt
  <2>2. evt' \in [type : {"NONE", "SOFT_BRK", "HARD_SSTEP"}, addr : Addr, slot : Slot]
    BY <2>1 DEF TypeOK, Bp
  <2> QED
    BY <1>14, <2>2 DEF Breakpoint, TypeOK, tableVars, guestVars
<1>15. ASSUME NEW a \in Addr, GuestInt3(a) \/ Instruction(a) PROVE TypeOK'
  <2>1. /\ Moves(a)
        /\ UNCHANGED <<tableVars, ctrlVars, cr3, tf, acc, code, mem, run>>
    BY <1>15 DEF GuestInt3, Instruction
  <2>2. rip' \in [Space -> Addr] /\ seen' \in [Space -> BOOLEAN]
    BY <2>1 DEF Moves, TypeOK
  <2> QED
    BY <2>1, <2>2 DEF TypeOK, tableVars, ctrlVars
<1>16. ASSUME NEW a \in Addr, StepTrap(a) PROVE TypeOK'
  <2>1. evt.slot \in Slot
    BY DEF TypeOK
  <2>2. bp' \in [Slot -> Bp]
    BY <1>16, SetStType DEF StepTrap, TypeOK
  <2>9. mem' \in [Cell -> Byte]
    BY <1>16, TrapBytesType DEF StepTrap, TypeOK
  <2>3. soft' \in [on : BOOLEAN, rs : BOOLEAN, dis : BOOLEAN]
    <3>1. \E b \in BOOLEAN : soft' = [soft EXCEPT !.rs = b]
      BY <1>16 DEF StepTrap
    <3>2. soft \in [on : BOOLEAN, rs : BOOLEAN, dis : BOOLEAN]
      BY DEF TypeOK
    <3> QED
      BY <3>1, <3>2, SoftRsType
  <2>11. StepOff \/ UNCHANGED <<step, tf>>
    BY <1>16 DEF StepTrap
  <2>4. step' \in [on : BOOLEAN, tf : BOOLEAN, rq : Requestor]
    <3>1. step \in [on : BOOLEAN, tf : BOOLEAN, rq : Requestor]
      BY DEF TypeOK
    <3> QED
      BY <2>11, <3>1 DEF StepOff
  <2>10. tf' \in [Space -> BOOLEAN]
    <3>1. /\ step \in [on : BOOLEAN, tf : BOOLEAN, rq : Requestor]
          /\ tf \in [Space -> BOOLEAN] /\ cr3 \in Space
      BY DEF TypeOK
    <3> QED
      BY <2>11, <3>1 DEF StepOff
  <2>5. /\ excp' \subseteq {"BP", "DB", "GP"}
        /\ traps' \in [on : BOOLEAN, up : BOOLEAN]
    <3>1. /\ excp' = excp \/ excp' = excp \ {"GP", "DB"}
          /\ traps' = traps \/ traps' = [traps EXCEPT !.up = TRUE]
      BY <1>16 DEF StepTrap
    <3>2. excp \subseteq {"BP", "DB", "GP"} /\ traps \in [on : BOOLEAN, up : BOOLEAN]
      BY DEF TypeOK
    <3>3. excp' \subseteq {"BP", "DB", "GP"}
      BY <3>1, <3>2
    <3>4. traps' \in [on : BOOLEAN, up : BOOLEAN]
      BY <3>1, <3>2, TrapsUpType
    <3> QED
      BY <3>3, <3>4
  <2>6. /\ event' \in BOOLEAN
        /\ evt' \in [type : {"NONE", "SOFT_BRK", "HARD_SSTEP"}, addr : Addr, slot : Slot]
    <3>1. /\ event' \in BOOLEAN \/ event' = event
          /\ evt' = evt \/ evt' = [evt EXCEPT !.type = "HARD_SSTEP", !.addr = a]
      BY <1>16 DEF StepTrap
    <3>2. /\ event \in BOOLEAN
          /\ evt \in [type : {"NONE", "SOFT_BRK", "HARD_SSTEP"}, addr : Addr, slot : Slot]
      BY DEF TypeOK
    <3>3. event' \in BOOLEAN
      BY <3>1, <3>2
    <3>4. evt' \in [type : {"NONE", "SOFT_BRK", "HARD_SSTEP"}, addr : Addr, slot : Slot]
      BY <3>1, <3>2
    <3> QED
      BY <3>3, <3>4
  <2>7. rip' \in [Space -> Addr] /\ seen' \in [Space -> BOOLEAN]
    BY <1>16 DEF StepTrap, Moves, TypeOK
  <2>8. run' \in {"guest", "exit", "stub", "traps", "failed"}
    BY <1>16 DEF StepTrap
  <2> QED
    BY <1>16, <2>2, <2>3, <2>4, <2>5, <2>6, <2>7, <2>8, <2>9, <2>10
       DEF StepTrap, TypeOK
<1>17. ASSUME NEW c \in Cell, PageOut(c) \/ PageIn(c) PROVE TypeOK'
  <2>1. acc' \in [Cell -> AccessCode]
    BY <1>17 DEF PageOut, PageIn, TypeOK, AccessCode
  <2>2. mem' \in [Cell -> Byte]
    BY <1>17 DEF PageOut, PageIn, TypeOK
  <2>3. UNCHANGED <<bp, cnt, soft, evt, excp, step, filter, traps, bitmap, event, gdb,
                    cr3, rip, tf, code, seen, run>>
    BY <1>17 DEF PageOut, PageIn, tableVars, ctrlVars
  <2> QED
    BY <2>1, <2>2, <2>3 DEF TypeOK
<1>18. ASSUME NEW c \in Cell, NEW b \in Byte, GuestWrite(c, b) PROVE TypeOK'
  BY <1>18 DEF GuestWrite, TypeOK, tableVars, ctrlVars
<1>19. CASE UNCHANGED vars
  BY <1>19 DEF vars, tableVars, ctrlVars, guestVars, TypeOK
<1> QED
  BY <1>1, <1>2, <1>3, <1>4, <1>5, <1>6, <1>7, <1>8, <1>9, <1>10, <1>11, <1>12,
     <1>13, <1>14, <1>15, <1>16, <1>17, <1>18, <1>19
     DEF Next, ClientCommand, Controller, Guest

\* Whatever the client, the guest and the pages do, every variable of the
\* debugging core keeps its type; in particular the counter of soft
\* breakpoints never leaves 0 .. DBG_SOFT_NR (dbg_soft_set, dbg_soft_del).
THEOREM TypeCorrect == Spec => []TypeOK
<1>1. Init => TypeOK
  BY InitType
<1>2. TypeOK /\ [Next]_vars => TypeOK'
  BY TypeStep
<1> QED
  BY <1>1, <1>2, PTL DEF Spec

(***************************************************************************)
(* The table under a disciplined client.                                   *)
(***************************************************************************)

\* A slot stands for a cell.
LEMMA SlotCell ==
  ASSUME TypeOK, NEW i \in Slot
  PROVE  CellOf(bp[i]) \in Cell
BY DEF TypeOK, Bp, CellOf, Cell

\* Without access failures a visit writes every slot it selects.
LEMMA AllWritten ==
  ASSUME TypeOK, AllAccessible, NEW S \in SUBSET Slot
  PROVE  /\ Written(bp, acc, S) = S
         /\ Restorable(bp, acc, S) = S
         /\ ~Failed(bp, acc, S)
<1>1. \A i \in S : acc[CellOf(bp[i])] = "DONE"
  BY SlotCell DEF AllAccessible
<1> QED
  BY <1>1 DEF Written, Reached, Restorable, Failed

\* Restoring active slots gives their cells the guest's own byte back.
LEMMA RestoredIsCode ==
  ASSUME TypeOK, SavedByteIsCode,
         NEW W \in SUBSET Slot, \A i \in W : bp[i].on,
         NEW c \in Cell
  PROVE  \/ /\ \E i \in W : CellOf(bp[i]) = c
            /\ SavedBytes(bp, mem, W)[c] = code[c]
         \/ /\ \A i \in W : CellOf(bp[i]) # c
            /\ SavedBytes(bp, mem, W)[c] = mem[c]
<1>1. bp \in [Slot -> Bp] /\ mem \in [Cell -> Byte]
  BY DEF TypeOK
<1>2. \A i \in W : bp[i].byte = code[CellOf(bp[i])]
  BY DEF SavedByteIsCode
<1> QED
  BY <1>1, <1>2, SavedBytesOfSlot

\* Releasing a set of active slots, with their bytes restored.
LEMMA ReleaseKeepsTable ==
  ASSUME TypeOK, AllAccessible, OneSlotPerAddress, FreeSlotsBare,
         SavedByteIsCode, TrapBytesOwned,
         NEW W \in SUBSET Slot, \A i \in W : bp[i].on,
         bp' = Release(bp, acc, W),
         mem' = SavedBytes(bp, mem, Restorable(bp, acc, W)),
         code' = code
  PROVE  /\ OneSlotPerAddress'
         /\ FreeSlotsBare'
         /\ SavedByteIsCode'
         /\ TrapBytesOwned'
<1>1. /\ \A i \in W : bp'[i] = [bp[i] EXCEPT !.on = FALSE, !.st = FALSE]
      /\ \A i \in Slot \ W : bp'[i] = bp[i]
  BY SlotCell DEF Release, AllAccessible
<1>2. \A i \in Slot : bp[i] \in Bp
  BY DEF TypeOK
<1>3. \A i \in W : ~bp'[i].on /\ ~bp'[i].st
  BY <1>1, <1>2 DEF Bp
<1>4. mem' = SavedBytes(bp, mem, W)
  BY AllWritten
<1>5. OneSlotPerAddress'
  BY <1>1, <1>3 DEF OneSlotPerAddress
<1>6. FreeSlotsBare'
  BY <1>1, <1>3 DEF FreeSlotsBare
<1>7. SavedByteIsCode'
  <2> SUFFICES ASSUME NEW i \in Slot, bp'[i].on
               PROVE  bp'[i].byte = code'[CellOf(bp'[i])]
    BY DEF SavedByteIsCode
  <2>1. bp'[i] = bp[i]
    BY <1>1, <1>3
  <2> QED
    BY <2>1 DEF SavedByteIsCode
<1>8. TrapBytesOwned'
  <2> SUFFICES ASSUME NEW c \in Cell, mem'[c] # code[c]
               PROVE  OwnedTrap(c)'
    BY DEF TrapBytesOwned
  <2>1. (\A i \in W : CellOf(bp[i]) # c) /\ mem[c] # code[c]
    BY <1>4, RestoredIsCode
  <2>2. PICK i \in Slot : bp[i].on /\ bp[i].st /\ CellOf(bp[i]) = c
    BY <2>1 DEF TrapBytesOwned, OwnedTrap
  <2>3. i \notin W
    BY <2>1, <2>2
  <2> QED
    BY <1>1, <2>2, <2>3 DEF OwnedTrap
<1> QED
  BY <1>5, <1>6, <1>7, <1>8

\* Writing the trap bytes of active slots.
LEMMA ArmKeepsTable ==
  ASSUME TypeOK, OneSlotPerAddress, FreeSlotsBare,
         SavedByteIsCode, TrapBytesOwned,
         NEW W \in SUBSET Slot, \A i \in W : bp[i].on,
         bp' = SetSt(bp, W, TRUE),
         mem' = TrapBytes(bp, mem, W),
         code' = code
  PROVE  /\ OneSlotPerAddress'
         /\ FreeSlotsBare'
         /\ SavedByteIsCode'
         /\ TrapBytesOwned'
<1>1. \A i \in Slot : bp[i] \in Bp
  BY DEF TypeOK
<1>2. \A i \in Slot : /\ bp'[i].on = bp[i].on
                      /\ bp'[i].addr = bp[i].addr
                      /\ bp'[i].cr3 = bp[i].cr3
                      /\ bp'[i].byte = bp[i].byte
                      /\ bp'[i].st = (i \in W \/ bp[i].st)
  BY <1>1 DEF SetSt, Bp
<1>3. OneSlotPerAddress'
  <2> SUFFICES ASSUME NEW i \in Slot, NEW j \in Slot,
                      bp'[i].on, bp'[j].on, bp'[i].addr = bp'[j].addr
               PROVE  i = j
    BY Zenon DEF OneSlotPerAddress
  <2>1. bp[i].on /\ bp[j].on /\ bp[i].addr = bp[j].addr
    BY <1>2
  <2> QED
    BY <2>1 DEF OneSlotPerAddress
<1>4. FreeSlotsBare'
  BY <1>2 DEF FreeSlotsBare
<1>5. SavedByteIsCode'
  BY <1>2 DEF SavedByteIsCode, CellOf
<1>6. TrapBytesOwned'
  <2> SUFFICES ASSUME NEW c \in Cell, mem'[c] # code[c]
               PROVE  OwnedTrap(c)'
    BY DEF TrapBytesOwned
  <2>1. CASE \E i \in W : CellOf(bp[i]) = c
    BY <1>2, <2>1 DEF OwnedTrap, CellOf
  <2>2. CASE ~\E i \in W : CellOf(bp[i]) = c
    <3>1. mem[c] # code[c]
      BY <2>2 DEF TrapBytes
    <3>2. PICK i \in Slot : bp[i].on /\ bp[i].st /\ CellOf(bp[i]) = c
      BY <3>1 DEF TrapBytesOwned, OwnedTrap
    <3>3. bp'[i].on /\ bp'[i].st /\ CellOf(bp'[i]) = c
      BY <1>2, <3>2 DEF CellOf
    <3> QED
      BY <3>3 DEF OwnedTrap
  <2> QED
    BY <2>1, <2>2
<1> QED
  BY <1>3, <1>4, <1>5, <1>6

\* Taking the trap bytes of active slots away.
LEMMA DisarmKeepsTable ==
  ASSUME TypeOK, OneSlotPerAddress, FreeSlotsBare,
         SavedByteIsCode, TrapBytesOwned,
         NEW W \in SUBSET Slot, \A i \in W : bp[i].on,
         bp' = SetSt(bp, W, FALSE),
         mem' = SavedBytes(bp, mem, W),
         code' = code
  PROVE  /\ OneSlotPerAddress'
         /\ FreeSlotsBare'
         /\ SavedByteIsCode'
         /\ TrapBytesOwned'
<1>1. \A i \in Slot : bp[i] \in Bp
  BY DEF TypeOK
<1>a. \A i \in Slot : i \notin W => bp'[i] = bp[i]
  BY DEF SetSt
<1>b. \A i \in W : bp'[i] = [bp[i] EXCEPT !.st = FALSE]
  BY DEF SetSt
<1>c. \A i \in W : /\ bp'[i].on = bp[i].on
                   /\ bp'[i].addr = bp[i].addr
                   /\ bp'[i].cr3 = bp[i].cr3
                   /\ bp'[i].byte = bp[i].byte
                   /\ ~bp'[i].st
  <2> TAKE i \in W
  <2>1. bp[i] \in Bp /\ bp'[i] = [bp[i] EXCEPT !.st = FALSE]
    BY <1>1, <1>b
  <2> QED
    BY <2>1 DEF Bp
<1>2. \A i \in Slot : /\ bp'[i].on = bp[i].on
                      /\ bp'[i].addr = bp[i].addr
                      /\ bp'[i].cr3 = bp[i].cr3
                      /\ bp'[i].byte = bp[i].byte
                      /\ bp'[i].st => i \notin W /\ bp[i].st
  <2> SUFFICES ASSUME NEW i \in Slot
               PROVE  /\ bp'[i].on = bp[i].on
                      /\ bp'[i].addr = bp[i].addr
                      /\ bp'[i].cr3 = bp[i].cr3
                      /\ bp'[i].byte = bp[i].byte
                      /\ bp'[i].st => i \notin W /\ bp[i].st
    OBVIOUS
  <2>1. CASE i \in W
    BY <1>c, <2>1
  <2>2. CASE i \notin W
    BY <1>a, <2>2, Zenon
  <2> QED
    BY <2>1, <2>2
<1>3. OneSlotPerAddress'
  <2> SUFFICES ASSUME NEW i \in Slot, NEW j \in Slot,
                      bp'[i].on, bp'[j].on, bp'[i].addr = bp'[j].addr
               PROVE  i = j
    BY Zenon DEF OneSlotPerAddress
  <2>1. bp[i].on /\ bp[j].on /\ bp[i].addr = bp[j].addr
    BY <1>2
  <2> QED
    BY <2>1 DEF OneSlotPerAddress
<1>4. FreeSlotsBare'
  BY <1>2 DEF FreeSlotsBare
<1>5. SavedByteIsCode'
  BY <1>2 DEF SavedByteIsCode, CellOf
<1>6. TrapBytesOwned'
  <2> SUFFICES ASSUME NEW c \in Cell, mem'[c] # code[c]
               PROVE  OwnedTrap(c)'
    BY DEF TrapBytesOwned
  <2>1. (\A i \in W : CellOf(bp[i]) # c) /\ mem[c] # code[c]
    BY RestoredIsCode
  <2>2. PICK i \in Slot : bp[i].on /\ bp[i].st /\ CellOf(bp[i]) = c
    BY <2>1 DEF TrapBytesOwned, OwnedTrap
  <2>3. i \notin W
    BY <2>1, <2>2
  <2> QED
    BY <1>a, <2>2, <2>3 DEF OwnedTrap
<1> QED
  BY <1>3, <1>4, <1>5, <1>6

\* Claiming a slot for an address that has none.
LEMMA ClaimKeepsTable ==
  ASSUME TypeOK, OneSlotPerAddress, FreeSlotsBare,
         SavedByteIsCode, TrapBytesOwned,
         NEW a \in Addr, NEW s \in Space,
         \A i \in Slot : bp[i].on => bp[i].addr # a,
         bp' = Claim(bp, mem, a, s, "DONE"),
         mem' = mem, code' = code
  PROVE  /\ OneSlotPerAddress'
         /\ FreeSlotsBare'
         /\ SavedByteIsCode'
         /\ TrapBytesOwned'
<1> DEFINE C == Claimed(bp, a, "DONE")
<1>1. \A i \in Slot : bp[i] \in Bp
  BY DEF TypeOK
<1>2. /\ C \in SUBSET Slot
      /\ \A i \in C : ~bp[i].on
  BY DEF Claimed
<1>3. \A i, j \in C : i = j
  <2>1. \A i, j \in C : ~(i < j)
    BY DEF Claimed, Accepting
  <2> QED
    BY <1>2, <2>1, SoftBreakAssumption DEF Slot
<1>4. \A i \in C : /\ bp'[i].on /\ bp'[i].addr = a /\ bp'[i].cr3 = s
                   /\ bp'[i].byte = mem[<<s, a>>]
                   /\ bp'[i].st = bp[i].st
  BY <1>1, <1>2 DEF Claim, Bp
<1>5. \A i \in Slot \ C : bp'[i] = bp[i]
  BY DEF Claim
<1> HIDE DEF C
<1>6. OneSlotPerAddress'
  BY <1>3, <1>4, <1>5 DEF OneSlotPerAddress
<1>7. FreeSlotsBare'
  BY <1>4, <1>5 DEF FreeSlotsBare
<1>8. SavedByteIsCode'
  <2>1. mem[<<s, a>>] = code[<<s, a>>]
    <3>1. <<s, a>> \in Cell
      BY DEF Cell
    <3>2. ~OwnedTrap(<<s, a>>)
      BY DEF OwnedTrap, CellOf
    <3> QED
      BY <3>1, <3>2 DEF TrapBytesOwned
  <2> QED
    BY <1>4, <1>5, <2>1 DEF SavedByteIsCode, CellOf
<1>9. TrapBytesOwned'
  <2>1. \A i \in Slot : bp[i].on => bp'[i] = bp[i]
    BY <1>2, <1>5
  <2> QED
    BY <2>1 DEF TrapBytesOwned, OwnedTrap
<1> QED
  BY <1>6, <1>7, <1>8, <1>9

\* dbg_soft_reset leaves an empty table.
LEMMA ResetKeepsTable ==
  ASSUME TypeOK, TableInv, SoftReset, code' = code, acc' = acc
  PROVE  TableInv'
<1>1. ActiveSet(bp) \in SUBSET Slot /\ \A i \in ActiveSet(bp) : bp[i].on
  BY DEF ActiveSet
<1>2. /\ OneSlotPerAddress' /\ FreeSlotsBare'
      /\ SavedByteIsCode' /\ TrapBytesOwned'
  BY <1>1, ReleaseKeepsTable DEF SoftReset, TableInv
<1>3. ResumedSlotActive'
  BY DEF SoftReset, ResumedSlotActive
<1>4. AllAccessible'
  BY DEF TableInv, AllAccessible
<1> QED
  BY <1>2, <1>3, <1>4 DEF TableInv

\* A step that leaves the table, the memory and the resumed slot alone.
LEMMA TableUntouched ==
  ASSUME TableInv, UNCHANGED <<bp, mem, code, acc>>,
         soft'.rs => soft.rs /\ evt' = evt
  PROVE  TableInv'
<1>1. ResumedSlotActive'
  BY DEF TableInv, ResumedSlotActive
<1> QED
  BY <1>1 DEF TableInv, AllAccessible, OneSlotPerAddress, FreeSlotsBare,
              SavedByteIsCode, TrapBytesOwned, OwnedTrap

LEMMA TableStep ==
  ASSUME Disciplined, TypeOK, TableInv, [Next]_vars
  PROVE  TableInv'
<1>0. /\ AllAccessible /\ OneSlotPerAddress /\ FreeSlotsBare
      /\ ResumedSlotActive /\ SavedByteIsCode /\ TrapBytesOwned
  BY DEF TableInv
<1>a. /\ bp \in [Slot -> Bp] /\ evt.slot \in Slot /\ ActiveCr3 \in Space
      /\ \A i \in Slot : bp[i] \in Bp
  BY DEF TypeOK, ActiveCr3
<1>1. ASSUME NEW a \in Addr, SetBreak(a) PROVE TableInv'
  <2>1. acc[<<ActiveCr3, a>>] = "DONE"
    BY <1>0, <1>a DEF AllAccessible, Cell
  <2>2. /\ bp' = Claim(bp, mem, a, ActiveCr3, "DONE")
        /\ mem' = mem /\ code' = code /\ acc' = acc /\ evt' = evt
        /\ \A i \in Slot : bp[i].on => bp[i].addr # a
    BY <1>1, <2>1 DEF SetBreak, Disciplined, guestVars
  <2>3. /\ OneSlotPerAddress' /\ FreeSlotsBare'
        /\ SavedByteIsCode' /\ TrapBytesOwned'
    BY <1>0, <1>a, <2>2, ClaimKeepsTable
  <2>4. soft'.rs = soft.rs
    BY <1>1 DEF SetBreak, TypeOK
  <2>5. bp[evt.slot].on => bp'[evt.slot] = bp[evt.slot]
    BY <1>a, <2>2 DEF Claim, Claimed
  <2>6. ResumedSlotActive'
    BY <1>0, <2>2, <2>4, <2>5 DEF ResumedSlotActive
  <2> QED
    BY <1>0, <2>2, <2>3, <2>6 DEF TableInv, AllAccessible
<1>2. ASSUME NEW a \in Addr, DelBreak(a) PROVE TableInv'
  <2>1. PICK i \in FirstAt(bp, a) :
          /\ bp'  = Release(bp, acc, {i})
          /\ mem' = SavedBytes(bp, mem, Restorable(bp, acc, {i}))
    BY <1>2 DEF DelBreak
  <2>2. i \in Slot /\ bp[i].on /\ bp[i].addr = a
    BY DEF FirstAt
  <2>3. /\ code' = code /\ acc' = acc /\ evt' = evt
        /\ ~(soft.rs /\ evt.addr = a)
    BY <1>2 DEF DelBreak, Disciplined, guestVars
  <2>4. /\ OneSlotPerAddress' /\ FreeSlotsBare'
        /\ SavedByteIsCode' /\ TrapBytesOwned'
    BY <1>0, <2>1, <2>2, <2>3, ReleaseKeepsTable
  <2>5. soft'.rs = soft.rs
    BY <1>2 DEF DelBreak, TypeOK
  <2>6. soft.rs => evt.slot # i
    BY <1>0, <2>2, <2>3 DEF ResumedSlotActive
  <2>7. evt.slot # i => bp'[evt.slot] = bp[evt.slot]
    BY <1>a, <2>1 DEF Release
  <2>8. ResumedSlotActive'
    BY <1>0, <2>3, <2>5, <2>6, <2>7 DEF ResumedSlotActive
  <2> QED
    BY <1>0, <2>3, <2>4, <2>8 DEF TableInv, AllAccessible
<1>3. ASSUME NEW s \in Space, SetFilter(s) PROVE TableInv'
  <2>1. code' = code /\ acc' = acc /\ evt' = evt
    BY <1>3 DEF SetFilter, guestVars
  <2>2. CASE SoftReset
    BY <2>1, <2>2, ResetKeepsTable
  <2>3. CASE UNCHANGED <<tableVars, mem>>
    BY <2>1, <2>3, TableUntouched DEF tableVars
  <2> QED
    BY <1>3, <2>2, <2>3 DEF SetFilter
<1>4. CASE DelFilter
  BY <1>4, ResetKeepsTable DEF DelFilter, guestVars
<1>5. CASE KeepFilter
  BY <1>5, TableUntouched DEF KeepFilter, tableVars, guestVars
<1>6. CASE Detach
  BY <1>6, ResetKeepsTable DEF Detach, StepReset
<1>7. ASSUME NEW stp \in BOOLEAN, Resume(stp) PROVE TableInv'
  <2>1. code' = code /\ acc' = acc /\ evt' = evt
    BY <1>7 DEF Resume, Liftable, StepOn
  <2> DEFINE here == /\ evt.type = "SOFT_BRK"
                     /\ bp[evt.slot].on
                     /\ bp[evt.slot].addr = evt.addr
  <2>2. CASE here
    <3>1. /\ bp' = SetSt(bp, {evt.slot}, FALSE)
          /\ mem' = SavedBytes(bp, mem, {evt.slot})
      BY <1>7, <2>2 DEF Resume, Liftable, StepOn
    <3>2. /\ OneSlotPerAddress' /\ FreeSlotsBare'
          /\ SavedByteIsCode' /\ TrapBytesOwned'
      <4> DEFINE W == {evt.slot}
      <4>1. W \in SUBSET Slot /\ \A i \in W : bp[i].on
        BY <1>a, <2>2
      <4>2. bp' = SetSt(bp, W, FALSE) /\ mem' = SavedBytes(bp, mem, W)
        BY <3>1
      <4> HIDE DEF W
      <4> QED
        BY <1>0, <2>1, <4>1, <4>2, DisarmKeepsTable
    <3>3. bp'[evt.slot].on /\ bp'[evt.slot].addr = evt.addr
      BY <1>a, <2>2, <3>1 DEF SetSt, Bp
    <3>4. ResumedSlotActive'
      BY <2>1, <3>3 DEF ResumedSlotActive
    <3> QED
      BY <1>0, <2>1, <3>2, <3>4 DEF TableInv, AllAccessible
  <2>3. CASE ~here
    <3>1. bp' = bp /\ mem' = mem /\ soft'.rs = soft.rs
      BY <1>7, <2>3 DEF Resume, Liftable, StepOn, TypeOK
    <3> QED
      BY <2>1, <3>1, TableUntouched
  <2> QED
    BY <2>2, <2>3
<1>8. CASE DeliverEvent \/ ClientInterrupts \/ ClientSilent
  <2>1. UNCHANGED <<bp, mem, code, acc, soft, evt>>
    BY <1>8 DEF DeliverEvent, ClientInterrupts, ClientSilent,
                tableVars, ctrlVars, guestVars
  <2> QED
    BY <2>1, TableUntouched
<1>9. CASE CtrlTraps
  <2>1. code' = code /\ acc' = acc /\ evt' = evt
    BY <1>9 DEF CtrlTraps, guestVars
  <2>2. CASE TrapsEnable
    <3> DEFINE S == RearmSet(bp, soft.rs, evt.addr)
    <3>1. S \in SUBSET Slot /\ \A i \in S : bp[i].on
      BY DEF RearmSet
    <3> HIDE DEF S
    <3>2. Written(bp, acc, S) = S
      BY <1>0, <3>1, AllWritten
    <3>3. bp' = SetSt(bp, S, TRUE) /\ mem' = TrapBytes(bp, mem, S)
      BY <2>2, <3>2 DEF TrapsEnable, S
    <3>4. /\ OneSlotPerAddress' /\ FreeSlotsBare'
          /\ SavedByteIsCode' /\ TrapBytesOwned'
      BY <1>0, <2>1, <3>1, <3>3, ArmKeepsTable
    <3>5. /\ bp'[evt.slot].on = bp[evt.slot].on
          /\ bp'[evt.slot].addr = bp[evt.slot].addr
      BY <1>a, <3>3 DEF SetSt, Bp
    <3>6. soft'.rs = soft.rs
      BY <2>2 DEF TrapsEnable, TypeOK
    <3>7. ResumedSlotActive'
      BY <1>0, <2>1, <3>5, <3>6 DEF ResumedSlotActive
    <3> QED
      BY <1>0, <2>1, <3>4, <3>7 DEF TableInv, AllAccessible
  <2>3. CASE TrapsDisable
    <3> DEFINE S == IF soft.dis THEN {} ELSE DisarmSet(bp)
    <3>1. S \in SUBSET Slot /\ \A i \in S : bp[i].on
      BY DEF DisarmSet
    <3> HIDE DEF S
    <3>2. Written(bp, acc, S) = S
      BY <1>0, <3>1, AllWritten
    <3>3. bp' = SetSt(bp, S, FALSE) /\ mem' = SavedBytes(bp, mem, S)
      BY <2>3, <3>2 DEF TrapsDisable, S
    <3>4. /\ OneSlotPerAddress' /\ FreeSlotsBare'
          /\ SavedByteIsCode' /\ TrapBytesOwned'
      BY <1>0, <2>1, <3>1, <3>3, DisarmKeepsTable
    <3>5. /\ bp'[evt.slot].on = bp[evt.slot].on
          /\ bp'[evt.slot].addr = bp[evt.slot].addr
      BY <1>a, <3>3 DEF SetSt, Bp
    <3>6. soft'.rs = soft.rs
      BY <2>3 DEF TrapsDisable, TypeOK
    <3>7. ResumedSlotActive'
      BY <1>0, <2>1, <3>5, <3>6 DEF ResumedSlotActive
    <3> QED
      BY <1>0, <2>1, <3>4, <3>7 DEF TableInv, AllAccessible
  <2>4. CASE UNCHANGED <<bp, mem, soft, bitmap, traps>>
    BY <2>1, <2>4, TableUntouched
  <2> QED
    BY <1>9, <2>2, <2>3, <2>4 DEF CtrlTraps
<1>10. ASSUME \/ OtherExit
              \/ \E s \in Space : SwitchCr3(s)
              \/ \E a \in Addr : GuestInt3(a) \/ Instruction(a)
       PROVE  TableInv'
  <2>1. UNCHANGED <<bp, mem, code, acc, soft, evt>>
    BY <1>10 DEF OtherExit, SwitchCr3, GuestInt3, Instruction,
                 tableVars, ctrlVars, guestVars
  <2> QED
    BY <2>1, TableUntouched
<1>11. CASE Breakpoint
  <2>1. PICK i \in FirstAt(bp, rip[cr3]) :
          evt' = [type |-> "SOFT_BRK", addr |-> bp[i].addr, slot |-> i]
    BY <1>11 DEF Breakpoint
  <2>2. UNCHANGED <<bp, mem, code, acc, soft>>
    BY <1>11 DEF Breakpoint, tableVars, guestVars
  <2>3. bp[i].on
    BY DEF FirstAt
  <2>4. ResumedSlotActive'
    BY <2>1, <2>2, <2>3 DEF ResumedSlotActive
  <2> QED
    BY <1>0, <2>2, <2>4
       DEF TableInv, AllAccessible, OneSlotPerAddress, FreeSlotsBare,
           SavedByteIsCode, TrapBytesOwned, OwnedTrap
<1>12. ASSUME NEW a \in Addr, StepTrap(a) PROVE TableInv'
  <2>1. code' = code /\ acc' = acc
    BY <1>12 DEF StepTrap
  <2>2. CASE soft.rs
    <3>1. acc[CellOf(bp[evt.slot])] = "DONE"
      BY <1>0, <1>a, SlotCell DEF AllAccessible
    <3>2. /\ bp' = SetSt(bp, {evt.slot}, TRUE)
          /\ mem' = TrapBytes(bp, mem, {evt.slot})
      BY <1>12, <2>2, <3>1 DEF StepTrap
    <3>3. /\ OneSlotPerAddress' /\ FreeSlotsBare'
          /\ SavedByteIsCode' /\ TrapBytesOwned'
      <4> DEFINE W == {evt.slot}
      <4>1. W \in SUBSET Slot /\ \A i \in W : bp[i].on
        BY <1>0, <1>a, <2>2 DEF ResumedSlotActive
      <4>2. bp' = SetSt(bp, W, TRUE) /\ mem' = TrapBytes(bp, mem, W)
        BY <3>2
      <4> HIDE DEF W
      <4> QED
        BY <1>0, <2>1, <4>1, <4>2, ArmKeepsTable
    <3>4. ~soft'.rs
      BY <1>12, <2>2, <3>1 DEF StepTrap, TypeOK
    <3> QED
      BY <1>0, <2>1, <3>3, <3>4 DEF TableInv, AllAccessible, ResumedSlotActive
  <2>3. CASE ~soft.rs
    <3>1. bp' = bp /\ mem' = mem /\ ~soft'.rs
      BY <1>12, <2>3 DEF StepTrap, TypeOK
    <3> QED
      BY <2>1, <3>1, TableUntouched
  <2> QED
    BY <2>2, <2>3
<1>13. ASSUME \/ \E c \in Cell : PageOut(c) \/ PageIn(c)
              \/ \E c \in Cell, b \in Byte : GuestWrite(c, b)
       PROVE  TableInv'
  BY <1>13 DEF PageOut, PageIn, GuestWrite, Disciplined
<1>14. CASE UNCHANGED vars
  BY <1>14, TableUntouched DEF vars, tableVars, ctrlVars, guestVars
<1> QED
  BY <1>1, <1>2, <1>3, <1>4, <1>5, <1>6, <1>7, <1>8, <1>9, <1>10, <1>11, <1>12,
     <1>13, <1>14
     DEF Next, ClientCommand, Controller, Guest

LEMMA TableInit ==
  ASSUME Disciplined, Init
  PROVE  TableInv
<1>1. \A i \in Slot : ~bp[i].on /\ ~bp[i].st
  BY DEF Init, FreeBp
<1>2. ~soft.rs /\ mem = code
  BY DEF Init
<1>3. AllAccessible
  BY DEF Init, Disciplined, AllAccessible
<1> QED
  BY <1>1, <1>2, <1>3
     DEF TableInv, OneSlotPerAddress, FreeSlotsBare, ResumedSlotActive,
         SavedByteIsCode, TrapBytesOwned

\* The table's inductive invariant, for any number of slots, processes and
\* addresses: when the client does not set an address twice nor delete a
\* breakpoint that is being stepped over, and code pages stay mapped and
\* unmodified (dbg_soft.c, dbg_hard_stp_event, ctrl_traps).
THEOREM TableSafe == Disciplined => (Spec => []TableInv)
<1> SUFFICES ASSUME Disciplined PROVE Spec => []TableInv
  OBVIOUS
<1>1. Init => TypeOK /\ TableInv
  BY InitType, TableInit
<1>2. TypeOK /\ TableInv /\ [Next]_vars => (TypeOK /\ TableInv)'
  BY TypeStep, TableStep
<1> QED
  BY <1>1, <1>2, PTL DEF Spec

\* No byte of guest code is ever left different from what the guest put
\* there, but for the trap bytes of breakpoints the table knows as active
\* and installed (dbg_soft.c).
THEOREM TrapsAreOwned == Disciplined => (Spec => []TrapBytesOwned)
<1> SUFFICES ASSUME Disciplined PROVE Spec => []TrapBytesOwned
  OBVIOUS
<1>1. Spec => []TableInv
  BY TableSafe
<1>2. TableInv => TrapBytesOwned
  BY DEF TableInv
<1> QED
  BY <1>1, <1>2, PTL

(***************************************************************************)
(* The cr3 filter.                                                         *)
(***************************************************************************)

\* What the actions that neither write a trap nor lower a flag change.
LEMMA FilterUntouched ==
  ASSUME FilterInv, bp' = bp, bitmap' = bitmap,
         soft'.dis => soft.dis,
         ~traps'.on /\ ~traps'.up => ~traps.on /\ ~traps.up,
         run' = "guest" => run = "guest" /\ UNCHANGED <<filter, cr3>>
  PROVE  FilterInv'
BY DEF FilterInv, NoneArmed, Active

\* A reset empties the table and asks for an update of the traps.
LEMMA FilterAfterReset ==
  ASSUME TypeOK, TableInv, SoftReset, traps'.up, run' # "guest"
  PROVE  FilterInv'
BY DEF SoftReset, FilterInv

LEMMA FilterStep ==
  ASSUME Disciplined, TypeOK, TableInv, FilterInv, [Next]_vars
  PROVE  FilterInv'
<1>a. /\ \A i \in Slot : bp[i] \in Bp
      /\ AllAccessible /\ FreeSlotsBare /\ evt.slot \in Slot
  BY DEF TypeOK, TableInv
<1>1. ASSUME NEW a \in Addr, SetBreak(a) PROVE FilterInv'
  <2> DEFINE rc == acc[<<ActiveCr3, a>>]
  <2>1. /\ bp' = Claim(bp, mem, a, ActiveCr3, rc)
        /\ bitmap' = bitmap /\ run' # "guest"
    BY <1>1 DEF SetBreak
  <2>2. \A i \in Slot : bp'[i].st = bp[i].st
    BY <1>a, <2>1 DEF Claim, Bp
  <2>3. soft'.dis = soft.dis
    BY <1>1 DEF SetBreak, TypeOK
  <2>4. traps'.on = traps.on /\ (traps.up => traps'.up)
    BY <1>1 DEF SetBreak, TypeOK
  <2> QED
    BY <2>1, <2>2, <2>3, <2>4 DEF FilterInv, NoneArmed
<1>2. ASSUME NEW a \in Addr, DelBreak(a) PROVE FilterInv'
  <2>1. PICK i \in FirstAt(bp, a) : bp' = Release(bp, acc, {i})
    BY <1>2 DEF DelBreak
  <2>2. \A j \in Slot : bp'[j].st => bp[j].st
    BY <1>a, <2>1 DEF Release, Bp
  <2>3. soft'.dis = soft.dis
    BY <1>2 DEF DelBreak, TypeOK
  <2>4. traps'.on = traps.on /\ (traps.up => traps'.up)
    BY <1>2 DEF DelBreak, TypeOK
  <2>5. bitmap' = bitmap /\ run' # "guest"
    BY <1>2 DEF DelBreak
  <2> QED
    BY <2>2, <2>3, <2>4, <2>5 DEF FilterInv, NoneArmed
<1>3. ASSUME NEW s \in Space, SetFilter(s) PROVE FilterInv'
  <2>1. traps'.up /\ run' # "guest" /\ bitmap' = bitmap
    BY <1>3 DEF SetFilter, TypeOK
  <2>2. CASE SoftReset
    BY <2>1, <2>2, FilterAfterReset
  <2>3. CASE UNCHANGED tableVars
    BY <2>1, <2>3, FilterUntouched DEF tableVars
  <2> QED
    BY <1>3, <2>2, <2>3 DEF SetFilter
<1>4. CASE DelFilter
  <2>1. SoftReset /\ traps'.up /\ run' # "guest"
    BY <1>4 DEF DelFilter, TypeOK
  <2> QED
    BY <2>1, FilterAfterReset
<1>5. CASE KeepFilter
  <2>1. UNCHANGED <<bp, bitmap, soft, traps>> /\ run' # "guest"
    BY <1>5 DEF KeepFilter, tableVars
  <2> QED
    BY <2>1, FilterUntouched
<1>6. CASE Detach
  <2>1. SoftReset /\ traps'.up /\ run' # "guest"
    BY <1>6 DEF Detach, StepReset, TypeOK
  <2> QED
    BY <2>1, FilterAfterReset
<1>7. ASSUME NEW stp \in BOOLEAN, Resume(stp) PROVE FilterInv'
  <2>1. bp' = bp \/ bp' = SetSt(bp, {evt.slot}, FALSE)
    BY <1>7 DEF Resume, Liftable, StepOn
  <2>2. \A j \in Slot : bp'[j].st => bp[j].st
    <3>1. CASE bp' = bp
      BY <3>1
    <3>2. CASE bp' = SetSt(bp, {evt.slot}, FALSE)
      BY <1>a, <3>2 DEF SetSt, Bp
    <3> QED
      BY <2>1, <3>1, <3>2
  <2>3. soft'.dis = soft.dis
    BY <1>7 DEF Resume, Liftable, StepOn, TypeOK
  <2>4. traps'.on = traps.on /\ (traps.up => traps'.up)
    BY <1>7 DEF Resume, Liftable, StepOn, TypeOK
  <2>5. bitmap' = bitmap /\ run' # "guest"
    BY <1>7 DEF Resume, Liftable, StepOn
  <2> QED
    BY <2>2, <2>3, <2>4, <2>5 DEF FilterInv, NoneArmed
<1>8. CASE DeliverEvent \/ ClientInterrupts \/ ClientSilent
  <2>1. UNCHANGED <<bp, bitmap, soft, traps>> /\ run' # "guest"
    BY <1>8 DEF DeliverEvent, ClientInterrupts, ClientSilent, tableVars, ctrlVars
  <2> QED
    BY <2>1, FilterUntouched
<1>9. CASE CtrlTraps
  <2>1. run' = "guest" /\ UNCHANGED <<filter, cr3>>
    BY <1>9 DEF CtrlTraps, guestVars
  <2>2. CASE Active /\ TrapsEnable
    <3>1. traps'.on
      BY <2>2 DEF TrapsEnable
    <3>2. ~soft'.dis
      <4>1. ~Failed(bp, acc, RearmSet(bp, soft.rs, evt.addr))
        BY <1>a, AllWritten DEF RearmSet
      <4> QED
        BY <2>2, <4>1 DEF TrapsEnable, TypeOK
    <3>3. Active'
      BY <2>1, <2>2 DEF Active
    <3> QED
      BY <3>1, <3>2, <3>3 DEF FilterInv
  <2>3. CASE TrapsDisable
    <3> DEFINE S == IF soft.dis THEN {} ELSE DisarmSet(bp)
    <3>1. S \in SUBSET Slot
      BY DEF DisarmSet
    <3>2. \A i \in Slot : bp[i].st => i \in S
      BY <1>a DEF DisarmSet, FreeSlotsBare, FilterInv, NoneArmed
    <3> HIDE DEF S
    <3>3. Written(bp, acc, S) = S
      BY <1>a, <3>1, AllWritten
    <3>4. bp' = SetSt(bp, S, FALSE) /\ bitmap' = {}
      BY <2>3, <3>3 DEF TrapsDisable, S
    <3>5. NoneArmed'
      BY <1>a, <3>2, <3>4 DEF NoneArmed, SetSt, Bp
    <3> QED
      BY <3>4, <3>5 DEF FilterInv
  <2>4. CASE /\ ~(Active /\ (~traps.on \/ traps.up))
             /\ ~(~Active /\ (traps.on \/ traps.up))
             /\ UNCHANGED <<bp, mem, soft, bitmap, traps>>
    BY <2>1, <2>4 DEF FilterInv, NoneArmed, Active
  <2> QED
    BY <1>9, <2>2, <2>3, <2>4 DEF CtrlTraps
<1>10. ASSUME OtherExit \/ (\E s \in Space : SwitchCr3(s)) \/ Breakpoint
       PROVE  FilterInv'
  <2>1. UNCHANGED <<bp, bitmap, soft, traps>> /\ run' # "guest"
    BY <1>10 DEF OtherExit, SwitchCr3, Breakpoint, tableVars, ctrlVars
  <2> QED
    BY <2>1, FilterUntouched
<1>11. ASSUME NEW a \in Addr, GuestInt3(a) \/ Instruction(a)
       PROVE  FilterInv'
  <2>1. UNCHANGED <<bp, bitmap, soft, traps, run, filter, cr3>>
    BY <1>11 DEF GuestInt3, Instruction, tableVars, ctrlVars
  <2> QED
    BY <2>1, FilterUntouched
<1>12. ASSUME NEW a \in Addr, StepTrap(a) PROVE FilterInv'
  <2>1. bitmap # {} /\ run' # "guest"
    BY <1>12 DEF StepTrap, StepExits
  <2>2. soft'.dis = soft.dis
    BY <1>12 DEF StepTrap, TypeOK
  <2>3. acc[CellOf(bp[evt.slot])] = "DONE"
    BY <1>a, SlotCell DEF AllAccessible
  <2>4. traps'.up
    BY <1>12, <2>3 DEF StepTrap, TypeOK
  <2> QED
    BY <2>1, <2>2, <2>4 DEF FilterInv
<1>13. ASSUME \/ \E c \in Cell : PageOut(c) \/ PageIn(c)
              \/ \E c \in Cell, b \in Byte : GuestWrite(c, b)
       PROVE  FilterInv'
  BY <1>13 DEF PageOut, PageIn, GuestWrite, Disciplined
<1>14. CASE UNCHANGED vars
  <2>1. UNCHANGED <<bp, bitmap, soft, traps, run, filter, cr3>>
    BY <1>14 DEF vars, tableVars, ctrlVars, guestVars
  <2> QED
    BY <2>1, FilterUntouched
<1> QED
  BY <1>1, <1>2, <1>3, <1>4, <1>5, <1>6, <1>7, <1>8, <1>9, <1>10, <1>11, <1>12,
     <1>13, <1>14
     DEF Next, ClientCommand, Controller, Guest

\* With a cr3 filter, a process other than the filtered one runs on its own
\* code only, and with no exception intercepted for the debugger's sake
\* (ctrl_traps, dbg_soft_disarm, dbg_soft_rearm).
THEOREM FilterSafe == Disciplined => (Spec => [](FilterInv /\ OthersUndisturbed))
<1> SUFFICES ASSUME Disciplined PROVE Spec => [](FilterInv /\ OthersUndisturbed)
  OBVIOUS
<1>1. Init => TypeOK /\ TableInv /\ FilterInv
  <2>1. Init => FilterInv
    <3> SUFFICES ASSUME Init PROVE FilterInv
      OBVIOUS
    <3>1. bitmap = {}
      BY DEF Init
    <3>2. \A i \in Slot : bp[i] = FreeBp
      BY DEF Init
    <3>3. ~FreeBp.st
      BY DEF FreeBp
    <3>4. NoneArmed
      BY <3>2, <3>3 DEF NoneArmed
    <3> QED
      BY <3>1, <3>4 DEF FilterInv
  <2> QED
    BY <2>1, InitType, TableInit
<1>2. TypeOK /\ TableInv /\ FilterInv /\ [Next]_vars
        => (TypeOK /\ TableInv /\ FilterInv)'
  BY TypeStep, TableStep, FilterStep
<1>3. TypeOK /\ TableInv /\ FilterInv => OthersUndisturbed
  <2> SUFFICES ASSUME TypeOK, TableInv, FilterInv, run = "guest", ~Active
               PROVE  mem = code
    BY DEF OthersUndisturbed
  <2>1. \A c \in Cell : ~OwnedTrap(c)
    BY DEF FilterInv, NoneArmed, OwnedTrap
  <2>2. \A c \in Cell : mem[c] = code[c]
    BY <2>1 DEF TableInv, TrapBytesOwned
  <2>3. mem \in [Cell -> Byte] /\ code \in [Cell -> Byte]
    BY DEF TypeOK
  <2> QED
    BY <2>2, <2>3
<1> QED
  BY <1>1, <1>2, <1>3, PTL DEF Spec

-----------------------------------------------------------------------------
(***************************************************************************)
(* What the guest runs under: the exceptions that are intercepted, the     *)
(* steps and the breakpoints that are due, and what is left of them when   *)
(* the client has gone.                                                    *)
(***************************************************************************)

(***************************************************************************)
(* A lifted breakpoint.                                                    *)
(***************************************************************************)

\* What no action but those on breakpoints and steps touches.
LEMMA LiftUntouched ==
  ASSUME LiftedIsStepping, soft'.rs => soft.rs, step'.on = step.on, evt' = evt
  PROVE  LiftedIsStepping'
BY DEF LiftedIsStepping

LEMMA LiftStep ==
  ASSUME TypeOK, LiftedIsStepping, [Next]_vars
  PROVE  LiftedIsStepping'
<1>a. evt.slot \in Slot /\ bp[evt.slot] \in Bp
  BY DEF TypeOK
<1>1. ASSUME NEW a \in Addr, SetBreak(a) \/ DelBreak(a) PROVE LiftedIsStepping'
  <2>1. step' = step /\ evt' = evt
    BY <1>1 DEF SetBreak, DelBreak
  <2>2. soft'.rs = soft.rs
    BY <1>1 DEF SetBreak, DelBreak, TypeOK
  <2> QED
    BY <2>1, <2>2, LiftUntouched
<1>2. ASSUME (\E s \in Space : SetFilter(s)) \/ DelFilter \/ KeepFilter
      PROVE  LiftedIsStepping'
  <2>1. step' = step /\ evt' = evt
    BY <1>2 DEF SetFilter, DelFilter, KeepFilter
  <2>2. soft'.rs => soft.rs
    BY <1>2 DEF SetFilter, DelFilter, KeepFilter, SoftReset, tableVars
  <2> QED
    BY <2>1, <2>2, LiftUntouched
<1>3. CASE Detach
  BY <1>3 DEF Detach, SoftReset, LiftedIsStepping
<1>4. ASSUME NEW stp \in BOOLEAN, Resume(stp) PROVE LiftedIsStepping'
  <2>1. evt' = evt
    BY <1>4 DEF Resume
  <2>2. CASE Liftable
    <3>1. CellOf(bp[evt.slot]) \in Cell
      BY <1>a DEF CellOf, Cell, Bp
    <3>2. acc[CellOf(bp[evt.slot])] = "DONE"
      BY <1>4, <2>2, <3>1 DEF Resume, TypeOK, AccessCode
    <3>3. step'.on
      BY <1>4, <2>2, <3>2 DEF Resume, StepOn
    <3> QED
      BY <2>1, <2>2, <3>3 DEF Liftable, LiftedIsStepping
  <2>3. CASE ~Liftable
    <3>1. soft'.rs = soft.rs
      BY <1>4, <2>3 DEF Resume, TypeOK
    <3>2. step.on => step'.on
      BY <1>4 DEF Resume, StepOn
    <3> QED
      BY <2>1, <3>1, <3>2 DEF LiftedIsStepping
  <2> QED
    BY <2>2, <2>3
<1>5. CASE Controller
  <2>1. step' = step /\ evt' = evt
    BY <1>5 DEF Controller, DeliverEvent, ClientInterrupts, ClientSilent, CtrlTraps,
                ctrlVars
  <2>2. soft'.rs = soft.rs
    <3>1. CASE CtrlTraps
      BY <3>1 DEF CtrlTraps, TrapsEnable, TrapsDisable, TypeOK
    <3>2. CASE DeliverEvent \/ ClientInterrupts \/ ClientSilent
      BY <3>2 DEF DeliverEvent, ClientInterrupts, ClientSilent, tableVars
    <3> QED
      BY <1>5, <3>1, <3>2 DEF Controller
  <2> QED
    BY <2>1, <2>2, LiftUntouched
<1>6. ASSUME \/ OtherExit
             \/ \E s \in Space : SwitchCr3(s)
             \/ \E a \in Addr : GuestInt3(a) \/ Instruction(a)
             \/ \E c \in Cell : PageOut(c) \/ PageIn(c)
             \/ \E c \in Cell, b \in Byte : GuestWrite(c, b)
      PROVE  LiftedIsStepping'
  <2>1. step' = step /\ evt' = evt /\ soft' = soft
    BY <1>6 DEF OtherExit, SwitchCr3, GuestInt3, Instruction, PageOut, PageIn,
                GuestWrite, tableVars, ctrlVars
  <2> QED
    BY <2>1, LiftUntouched
<1>7. CASE Breakpoint
  <2>1. evt'.type = "SOFT_BRK" /\ step' = step /\ soft' = soft
    BY <1>7 DEF Breakpoint, tableVars
  <2> QED
    BY <2>1 DEF LiftedIsStepping
<1>8. ASSUME NEW a \in Addr, StepTrap(a) PROVE LiftedIsStepping'
  <2>1. CASE soft.rs /\ acc[CellOf(bp[evt.slot])] # "DONE"
    <3>1. step' = step /\ evt' = evt
      BY <1>8, <2>1 DEF StepTrap
    <3> QED
      BY <2>1, <3>1 DEF LiftedIsStepping
  <2>2. CASE ~(soft.rs /\ acc[CellOf(bp[evt.slot])] # "DONE")
    <3>1. ~soft'.rs
      BY <1>8, <2>2 DEF StepTrap, TypeOK
    <3> QED
      BY <3>1 DEF LiftedIsStepping
  <2> QED
    BY <2>1, <2>2
<1>9. CASE UNCHANGED vars
  BY <1>9 DEF vars, tableVars, ctrlVars, LiftedIsStepping
<1> QED
  BY <1>1, <1>2, <1>3, <1>4, <1>5, <1>6, <1>7, <1>8, <1>9
     DEF Next, ClientCommand, Guest

\* A breakpoint that is lifted is always under a step that writes it back,
\* whatever the client asks for in between, however often it repeats itself
\* and whichever pages come and go (dbg_soft_resume, dbg_hard_stp_event).
THEOREM LiftedSteps == Spec => []LiftedIsStepping
<1>1. Init => TypeOK /\ LiftedIsStepping
  BY InitType DEF Init, LiftedIsStepping
<1>2. TypeOK /\ LiftedIsStepping /\ [Next]_vars => (TypeOK /\ LiftedIsStepping)'
  BY TypeStep, LiftStep
<1> QED
  BY <1>1, <1>2, PTL DEF Spec

(***************************************************************************)
(* The exception bitmap.                                                   *)
(***************************************************************************)
LEMMA TrapUntouched ==
  ASSUME TrapInv, UNCHANGED <<traps, bitmap, excp>>,
         run' = "guest" => UNCHANGED <<run, gdb, filter, cr3>>
  PROVE  TrapInv'
BY DEF TrapInv, Active

\* An update is due, and the guest does not run.
LEMMA TrapsDue ==
  ASSUME traps'.up, run' # "guest"
  PROVE  TrapInv'
BY DEF TrapInv

LEMMA TrapStep ==
  ASSUME TypeOK, TrapInv, [Next]_vars
  PROVE  TrapInv'
<1>1. ASSUME NEW a \in Addr, SetBreak(a) PROVE TrapInv'
  <2>1. bitmap' = bitmap /\ run' # "guest"
    BY <1>1 DEF SetBreak
  <2>2. \/ UNCHANGED <<traps, excp>>
        \/ traps'.up
    BY <1>1 DEF SetBreak, TypeOK
  <2> QED
    BY <2>1, <2>2, TrapUntouched, TrapsDue
<1>2. ASSUME NEW a \in Addr, DelBreak(a) PROVE TrapInv'
  <2>1. bitmap' = bitmap /\ run' # "guest"
    BY <1>2 DEF DelBreak
  <2>2. \/ UNCHANGED <<traps, excp>>
        \/ traps'.up
    BY <1>2 DEF DelBreak, TypeOK
  <2> QED
    BY <2>1, <2>2, TrapUntouched, TrapsDue
<1>3. ASSUME (\E s \in Space : SetFilter(s)) \/ DelFilter \/ Detach PROVE TrapInv'
  <2>1. traps' = [traps EXCEPT !.up = TRUE] /\ run' # "guest"
    BY <1>3 DEF SetFilter, DelFilter, Detach
  <2>2. traps'.up
    BY <2>1 DEF TypeOK
  <2> QED
    BY <2>1, <2>2, TrapsDue
<1>4. ASSUME KeepFilter \/ DeliverEvent \/ ClientInterrupts \/ ClientSilent
      PROVE  TrapInv'
  <2>1. UNCHANGED <<traps, bitmap, excp>> /\ run' # "guest"
    BY <1>4 DEF KeepFilter, DeliverEvent, ClientInterrupts, ClientSilent, ctrlVars
  <2> QED
    BY <2>1, TrapUntouched
<1>5. ASSUME NEW stp \in BOOLEAN, Resume(stp) PROVE TrapInv'
  <2>1. bitmap' = bitmap /\ run' # "guest"
    BY <1>5 DEF Resume
  <2>2. \/ UNCHANGED <<traps, excp>>
        \/ traps'.up
    BY <1>5 DEF Resume, StepOn, TypeOK
  <2> QED
    BY <2>1, <2>2, TrapUntouched, TrapsDue
<1>6. CASE CtrlTraps
  <2>1. /\ run' = "guest"
        /\ UNCHANGED <<filter, cr3, gdb, excp>>
    BY <1>6 DEF CtrlTraps, guestVars
  <2>2. CASE Active /\ TrapsEnable
    BY <2>1, <2>2 DEF TrapsEnable, TrapInv, Active
  <2>3. CASE ~Active /\ TrapsDisable
    BY <2>1, <2>3 DEF TrapsDisable, TrapInv, Active
  <2>4. CASE /\ ~(Active /\ (~traps.on \/ traps.up))
             /\ ~(~Active /\ (traps.on \/ traps.up))
             /\ UNCHANGED <<bitmap, traps>>
    BY <2>1, <2>4 DEF TrapInv, Active
  <2> QED
    BY <1>6, <2>2, <2>3, <2>4 DEF CtrlTraps
<1>7. ASSUME OtherExit \/ (\E s \in Space : SwitchCr3(s)) \/ Breakpoint
      PROVE  TrapInv'
  <2>1. UNCHANGED <<traps, bitmap, excp>> /\ run' # "guest"
    BY <1>7 DEF OtherExit, SwitchCr3, Breakpoint, ctrlVars
  <2> QED
    BY <2>1, TrapUntouched
<1>8. ASSUME \/ \E a \in Addr : GuestInt3(a) \/ Instruction(a)
             \/ \E c \in Cell : PageOut(c) \/ PageIn(c)
             \/ \E c \in Cell, b \in Byte : GuestWrite(c, b)
             \/ UNCHANGED vars
      PROVE  TrapInv'
  <2>1. UNCHANGED <<traps, bitmap, excp, run, gdb, filter, cr3>>
    BY <1>8 DEF GuestInt3, Instruction, PageOut, PageIn, GuestWrite, vars, ctrlVars,
                guestVars
  <2> QED
    BY <2>1, TrapUntouched
<1>9. ASSUME NEW a \in Addr, StepTrap(a) PROVE TrapInv'
  <2>1. bitmap' = bitmap /\ run' # "guest"
    BY <1>9 DEF StepTrap
  <2>2. \/ UNCHANGED <<traps, excp>>
        \/ traps'.up
    BY <1>9 DEF StepTrap, TypeOK
  <2> QED
    BY <2>1, <2>2, TrapUntouched, TrapsDue
<1> QED
  BY <1>1, <1>2, <1>3, <1>4, <1>5, <1>6, <1>7, <1>8, <1>9
     DEF Next, ClientCommand, Controller, Guest

LEMMA TrapInit == Init => TrapInv
BY DEF Init, TrapInv

\* The exceptions that are intercepted while the guest runs are exactly those
\* the debugger wants, for the filtered process and for no other one: no
\* change of breakpoints, steps or filter reaches the guest with its update
\* of the traps forgotten (ctrl_traps), whatever the client does and whichever
\* accesses fail.
THEOREM TrapsFollow == Spec => []TrapsFollowProcess
<1>1. Init => TypeOK /\ TrapInv
  BY InitType, TrapInit
<1>2. TypeOK /\ TrapInv /\ [Next]_vars => (TypeOK /\ TrapInv)'
  BY TypeStep, TrapStep
<1>3. TrapInv => TrapsFollowProcess
  BY DEF TrapInv, TrapsFollowProcess
<1> QED
  BY <1>1, <1>2, <1>3, PTL DEF Spec

(***************************************************************************)
(* What a client owns.                                                     *)
(***************************************************************************)

\* An exception that is intercepted while the guest runs is one of the
\* filtered process.
LEMMA InterceptedIsActive ==
  ASSUME TypeOK, TrapInv, run = "guest", bitmap # {}
  PROVE  Active /\ bitmap = excp
BY DEF TrapInv

\* With no active slot the table stays so under any change of statuses.
LEMMA SetStActive ==
  ASSUME NEW b \in [Slot -> Bp], NEW W, NEW st
  PROVE  ActiveSet(SetSt(b, W, st)) = ActiveSet(b)
<1>1. \A i \in Slot : SetSt(b, W, st)[i].on = b[i].on
  BY DEF SetSt, Bp
<1> QED
  BY <1>1 DEF ActiveSet

LEMMA ResetActive ==
  ASSUME TypeOK, SoftReset
  PROVE  ActiveSet(bp') = {}
<1>1. \A i \in Slot : bp[i] \in Bp
  BY DEF TypeOK
<1>2. \A i \in Slot : ~bp'[i].on
  BY <1>1 DEF SoftReset, Release, ActiveSet, Bp
<1> QED
  BY <1>2 DEF ActiveSet

\* With a client attached only the pending event is at stake.
LEMMA DetachAttached ==
  ASSUME gdb', event' => run' = "exit" /\ Active'
  PROVE  DetachInv'
BY DEF DetachInv

LEMMA DetachStep ==
  ASSUME TypeOK, TrapInv, DetachInv, [Next]_vars
  PROVE  DetachInv'
<1>1. ASSUME \/ \E a \in Addr : SetBreak(a) \/ DelBreak(a)
             \/ \E s \in Space : SetFilter(s)
             \/ DelFilter \/ KeepFilter
             \/ \E stp \in BOOLEAN : Resume(stp)
      PROVE  DetachInv'
  <2>1. run = "stub" /\ event' = event /\ gdb' = gdb
    BY <1>1 DEF SetBreak, DelBreak, SetFilter, DelFilter, KeepFilter, Resume
  <2>2. gdb /\ ~event
    BY <2>1 DEF DetachInv
  <2> QED
    BY <2>1, <2>2, DetachAttached
<1>2. CASE Detach
  <2>1. excp' = {} /\ ~step'.on /\ run' = "traps" /\ event' = event /\ run = "stub"
    BY <1>2 DEF Detach, StepReset
  <2>2. ActiveSet(bp') = {}
    BY <1>2, ResetActive DEF Detach
  <2>3. ~event'
    BY <2>1 DEF DetachInv
  <2>4. ActiveSet(bp)' = {}
    BY <2>2 DEF ActiveSet
  <2> QED
    BY <2>1, <2>3, <2>4 DEF DetachInv
<1>3. CASE DeliverEvent
  <2>1. event /\ ~event' /\ gdb' = gdb
    BY <1>3 DEF DeliverEvent
  <2>2. gdb
    BY <2>1 DEF DetachInv
  <2> QED
    BY <2>1, <2>2, DetachAttached
<1>4. CASE ClientInterrupts
  <2>1. ~(event /\ Active) /\ gdb' /\ event' = event
    BY <1>4 DEF ClientInterrupts
  <2>2. ~event
    BY <2>1 DEF DetachInv
  <2> QED
    BY <2>1, <2>2, DetachAttached
<1>5. CASE ClientSilent
  <2>1. /\ ~(event /\ Active) /\ run' = "traps"
        /\ UNCHANGED <<event, gdb, excp, step, bp>>
    BY <1>5 DEF ClientSilent, ctrlVars, tableVars
  <2>2. ~event
    BY <2>1 DEF DetachInv
  <2> QED
    BY <2>1, <2>2 DEF DetachInv, ActiveSet
<1>6. CASE CtrlTraps
  <2>1. /\ run = "traps" /\ run' = "guest"
        /\ UNCHANGED <<event, gdb, excp, step>>
    BY <1>6 DEF CtrlTraps
  <2>2. ~event
    BY <2>1 DEF DetachInv
  <2>3. ActiveSet(bp') = ActiveSet(bp)
    <3>1. bp' = bp \/ \E W, st : bp' = SetSt(bp, W, st)
      BY <1>6 DEF CtrlTraps, TrapsEnable, TrapsDisable
    <3> QED
      BY <3>1, SetStActive DEF TypeOK
  <2> QED
    BY <2>1, <2>2, <2>3 DEF DetachInv, ActiveSet
<1>7. ASSUME \/ OtherExit
             \/ \E s \in Space : SwitchCr3(s)
             \/ \E a \in Addr : GuestInt3(a) \/ Instruction(a)
             \/ \E c \in Cell : PageOut(c) \/ PageIn(c)
             \/ \E c \in Cell, b \in Byte : GuestWrite(c, b)
      PROVE  DetachInv'
  <2>1. /\ run = "guest" /\ run' # "stub"
        /\ UNCHANGED <<event, gdb, excp, step, bp>>
    BY <1>7 DEF OtherExit, SwitchCr3, GuestInt3, Instruction, PageOut, PageIn,
                GuestWrite, ctrlVars, tableVars
  <2>2. ~event
    BY <2>1 DEF DetachInv
  <2> QED
    BY <2>1, <2>2 DEF DetachInv, ActiveSet
<1>8. CASE Breakpoint
  <2>1. /\ run = "guest" /\ "BP" \in bitmap /\ "BP" \in excp
        /\ run' = "exit" /\ UNCHANGED <<gdb, filter, cr3>>
    BY <1>8 DEF Breakpoint, guestVars
  <2>2. Active'
    BY <2>1, InterceptedIsActive DEF Active
  <2>3. gdb
    BY <2>1 DEF DetachInv
  <2> QED
    BY <2>1, <2>2, <2>3, DetachAttached
<1>9. ASSUME NEW a \in Addr, StepTrap(a) PROVE DetachInv'
  <2>1. /\ run = "guest" /\ "DB" \in bitmap /\ step.on
        /\ UNCHANGED <<gdb, filter, cr3>>
    BY <1>9 DEF StepTrap, StepExits
  <2>2. Active'
    BY <2>1, InterceptedIsActive DEF Active
  <2>3. gdb /\ ~event
    BY <2>1 DEF DetachInv
  <2>4. event' => run' = "exit"
    BY <1>9, <2>3 DEF StepTrap
  <2> QED
    BY <2>1, <2>2, <2>3, <2>4, DetachAttached
<1>10. CASE UNCHANGED vars
  BY <1>10 DEF vars, tableVars, ctrlVars, guestVars, DetachInv, ActiveSet, Active
<1> QED
  BY <1>1, <1>2, <1>3, <1>4, <1>5, <1>6, <1>7, <1>8, <1>9, <1>10
     DEF Next, ClientCommand, Controller, Guest

LEMMA DetachInit == Init => DetachInv
<1> SUFFICES ASSUME Init PROVE DetachInv
  OBVIOUS
<1>1. \A i \in Slot : ~bp[i].on
  BY DEF Init, FreeBp
<1>2. ActiveSet(bp) = {}
  BY <1>1 DEF ActiveSet
<1> QED
  BY <1>2 DEF Init, DetachInv

\* Without a client there is no breakpoint, no step and no exception of the
\* debugger's, and no event is kept for a client that has gone: whatever it
\* asked for before it left (gdb_disable, dbg_release).
THEOREM ClientOwns == Spec => [](TrapInv /\ DetachInv)
<1>1. Init => TypeOK /\ TrapInv /\ DetachInv
  BY InitType, TrapInit, DetachInit
<1>2. TypeOK /\ TrapInv /\ DetachInv /\ [Next]_vars
        => (TypeOK /\ TrapInv /\ DetachInv)'
  BY TypeStep, TrapStep, DetachStep
<1> QED
  BY <1>1, <1>2, PTL DEF Spec

\* A guest without a client runs on its own code, nothing of it intercepted.
LEMMA DetachedRuns ==
  ASSUME TypeOK, TableInv, TrapInv, DetachInv, ~gdb, run = "guest"
  PROVE  mem = code /\ bitmap = {}
<1>1. bitmap = {}
  BY DEF TrapInv, DetachInv
<1>2. \A i \in Slot : ~bp[i].on
  BY DEF DetachInv, ActiveSet
<1>3. \A c \in Cell : mem[c] = code[c]
  BY <1>2 DEF TableInv, TrapBytesOwned, OwnedTrap
<1>4. mem \in [Cell -> Byte] /\ code \in [Cell -> Byte]
  BY DEF TypeOK
<1> QED
  BY <1>1, <1>3, <1>4

\* The part of DetachedClean that holds for any number of processes.
THEOREM DetachedUntouched ==
  Disciplined => (Spec => [](~gdb /\ run = "guest" => mem = code /\ bitmap = {}))
<1> SUFFICES ASSUME Disciplined
             PROVE  Spec => [](~gdb /\ run = "guest" => mem = code /\ bitmap = {})
  OBVIOUS
<1>1. Spec => []TableInv
  BY TableSafe
<1>2. Spec => [](TrapInv /\ DetachInv)
  BY ClientOwns
<1>3. Spec => []TypeOK
  BY TypeCorrect
<1>4. TypeOK /\ TableInv /\ TrapInv /\ DetachInv
        => (~gdb /\ run = "guest" => mem = code /\ bitmap = {})
  BY DetachedRuns
<1> QED
  BY <1>1, <1>2, <1>3, <1>4, PTL

(***************************************************************************)
(* The step, for one process.                                              *)
(***************************************************************************)
LEMMA StepUntouched ==
  ASSUME StepInv, UNCHANGED <<step, tf>>,
         {"DB", "GP"} \subseteq excp => {"DB", "GP"} \subseteq excp'
  PROVE  StepInv'
BY DEF StepInv

LEMMA StepOffKeeps ==
  ASSUME TypeOK, OneProcess, StepInv, ~step'.on,
         tf' = IF step.on THEN [tf EXCEPT ![cr3] = step.tf] ELSE tf
  PROVE  StepInv'
<1>1. tf \in [Space -> BOOLEAN] /\ cr3 \in Space
  BY DEF TypeOK
<1>2. \A s \in Space : s = cr3
  BY <1>1 DEF OneProcess
<1>3. \A s \in Space : ~tf'[s]
  BY <1>1, <1>2 DEF StepInv
<1> QED
  BY <1>3 DEF StepInv

LEMMA StepStep ==
  ASSUME OneProcess, TypeOK, StepInv, [Next]_vars
  PROVE  StepInv'
<1>1. ASSUME \/ \E a \in Addr : SetBreak(a) \/ DelBreak(a)
             \/ \E s \in Space : SetFilter(s)
             \/ DelFilter \/ KeepFilter
      PROVE  StepInv'
  <2>1. step' = step /\ tf' = tf
    BY <1>1 DEF SetBreak, DelBreak, SetFilter, DelFilter, KeepFilter, guestVars
  <2>2. excp' = excp \/ excp' = excp \cup {"BP"} \/ excp' = excp \ {"BP"}
    BY <1>1 DEF SetBreak, DelBreak, SetFilter, DelFilter, KeepFilter
  <2> QED
    BY <2>1, <2>2, StepUntouched
<1>2. CASE Detach
  BY <1>2, StepOffKeeps DEF Detach, StepReset
<1>3. ASSUME NEW stp \in BOOLEAN, Resume(stp) PROVE StepInv'
  <2>1. CASE UNCHANGED <<step, tf, excp>>
    BY <2>1, StepUntouched
  <2>2. ASSUME NEW rq, StepOn(rq), ~step.on PROVE StepInv'
    <3>1. tf \in [Space -> BOOLEAN] /\ cr3 \in Space
      BY DEF TypeOK
    <3>2. \A s \in Space : s = cr3
      BY <3>1 DEF OneProcess
    <3>3. step'.on /\ ~step'.tf
      BY <2>2, <3>1 DEF StepOn, StepInv
    <3>4. \A s \in Space : tf'[s]
      BY <2>2, <3>1, <3>2 DEF StepOn
    <3> QED
      BY <2>2, <3>3, <3>4 DEF StepOn, StepInv
  <2> QED
    BY <1>3, <2>1, <2>2 DEF Resume
<1>4. ASSUME Controller PROVE StepInv'
  <2>1. UNCHANGED <<step, tf, excp>>
    BY <1>4 DEF Controller, DeliverEvent, ClientInterrupts, ClientSilent, CtrlTraps,
                ctrlVars, guestVars
  <2> QED
    BY <2>1, StepUntouched
<1>5. ASSUME \/ OtherExit \/ Breakpoint
             \/ \E s \in Space : SwitchCr3(s)
             \/ \E a \in Addr : GuestInt3(a) \/ Instruction(a)
             \/ \E c \in Cell : PageOut(c) \/ PageIn(c)
             \/ \E c \in Cell, b \in Byte : GuestWrite(c, b)
             \/ UNCHANGED vars
      PROVE  StepInv'
  <2>1. UNCHANGED <<step, tf, excp>>
    BY <1>5 DEF OtherExit, Breakpoint, SwitchCr3, GuestInt3, Instruction, PageOut,
                PageIn, GuestWrite, vars, ctrlVars, guestVars
  <2> QED
    BY <2>1, StepUntouched
<1>6. ASSUME NEW a \in Addr, StepTrap(a) PROVE StepInv'
  <2>1. CASE UNCHANGED <<step, tf, excp>>
    BY <2>1, StepUntouched
  <2>2. CASE StepOff
    <3>1. ~step'.on
      BY <2>2 DEF StepOff, TypeOK
    <3> QED
      BY <2>2, <3>1, StepOffKeeps DEF StepOff
  <2> QED
    BY <1>6, <2>1, <2>2 DEF StepTrap
<1> QED
  BY <1>1, <1>2, <1>3, <1>4, <1>5, <1>6 DEF Next, ClientCommand, Guest

LEMMA StepInit == Init => StepInv
BY DEF Init, StepInv

\* With one process, a client that leaves in any state of its breakpoints,
\* lifted ones and steps leaves a guest that runs on its own code, with
\* nothing intercepted and without rflags.tf (gdb_disable, dbg_soft_reset,
\* dbg_hard_stp_release).
THEOREM DetachedSafe == Disciplined /\ OneProcess => (Spec => []DetachedClean)
<1> SUFFICES ASSUME Disciplined, OneProcess PROVE Spec => []DetachedClean
  OBVIOUS
<1> DEFINE Inv == TypeOK /\ TableInv /\ TrapInv /\ DetachInv /\ StepInv
<1>1. Init => Inv
  BY InitType, TableInit, TrapInit, DetachInit, StepInit
<1>2. Inv /\ [Next]_vars => Inv'
  BY TypeStep, TableStep, TrapStep, DetachStep, StepStep
<1>3. Inv => DetachedClean
  <2> SUFFICES ASSUME Inv, ~gdb, run = "guest"
               PROVE  mem = code /\ bitmap = {} /\ \A s \in Space : ~tf[s]
    BY DEF DetachedClean
  <2>1. mem = code /\ bitmap = {}
    BY DetachedRuns
  <2>2. \A s \in Space : ~tf[s]
    BY DEF DetachInv, StepInv
  <2> QED
    BY <2>1, <2>2
<1> QED
  BY <1>1, <1>2, <1>3, PTL DEF Spec

(***************************************************************************)
(* The counter of breakpoints.                                             *)
(***************************************************************************)
LEMMA ActiveFinite ==
  /\ IsFiniteSet(ActiveSet(bp))
  /\ Cardinality(ActiveSet(bp)) \in Nat
<1>1. IsFiniteSet(Slot)
  BY FS_Interval, SoftBreakAssumption DEF Slot
<1>2. ActiveSet(bp) \subseteq Slot
  BY DEF ActiveSet
<1>3. IsFiniteSet(ActiveSet(bp))
  BY <1>1, <1>2, FS_Subset
<1> QED
  BY <1>3, FS_CardinalityType

\* A disciplined dbg_soft_set takes the first free slot; without one it does
\* nothing.
LEMMA ClaimTakesOne ==
  ASSUME TypeOK, NEW a \in Addr, \A i \in Slot : bp[i].on => bp[i].addr # a,
         bp' = Claim(bp, mem, a, ActiveCr3, "DONE")
  PROVE  \/ /\ Installed(bp, a, "DONE") = {}
            /\ bp' = bp
         \/ /\ Installed(bp, a, "DONE") # {}
            /\ \E i \in Slot :
                 /\ ~bp[i].on /\ bp'[i].on /\ bp'[i].st = bp[i].st
                 /\ \A j \in Slot \ {i} : bp'[j] = bp[j]
<1>1. Installed(bp, a, "DONE") = Claimed(bp, a, "DONE")
  BY DEF Installed, Claimed, Accepting
<1>2. bp = [i \in Slot |-> bp[i]] /\ \A i \in Slot : bp[i] \in Bp
  BY DEF TypeOK
<1>3. CASE Claimed(bp, a, "DONE") = {}
  <2>1. bp' = [i \in Slot |-> bp[i]]
    BY <1>3 DEF Claim
  <2> QED
    BY <1>1, <1>2, <1>3, <2>1
<1>4. CASE Claimed(bp, a, "DONE") # {}
  <2>1. PICK i \in Claimed(bp, a, "DONE") : TRUE
    BY <1>4
  <2>2. i \in Slot /\ ~bp[i].on
    BY <2>1 DEF Claimed
  <2>3. \A j \in Claimed(bp, a, "DONE") : j = i
    <3>1. \A j \in Claimed(bp, a, "DONE") : j \in Slot /\ ~(j < i) /\ ~(i < j)
      BY <2>1 DEF Claimed, Accepting
    <3> QED
      BY <2>2, <3>1, SoftBreakAssumption DEF Slot
  <2>4. bp'[i].on /\ bp'[i].st = bp[i].st
    BY <1>2, <2>1, <2>2 DEF Claim, Bp
  <2>5. \A j \in Slot \ {i} : bp'[j] = bp[j]
    BY <2>3 DEF Claim
  <2> QED
    BY <1>1, <1>4, <2>2, <2>4, <2>5
<1> QED
  BY <1>3, <1>4

LEMMA CountReset ==
  ASSUME TypeOK, SoftReset
  PROVE  CountInv'
<1>1. ActiveSet(bp)' = {}
  BY ResetActive DEF ActiveSet
<1>2. cnt' = 0
  BY DEF SoftReset
<1> QED
  BY <1>1, <1>2, FS_EmptySet DEF CountInv

LEMMA CountUntouched ==
  ASSUME CountInv, ActiveSet(bp') = ActiveSet(bp), cnt' = cnt, soft'.on = soft.on,
         "BP" \in excp => "BP" \in excp'
  PROVE  CountInv'
<1>1. ActiveSet(bp)' = ActiveSet(bp)
  BY DEF ActiveSet
<1> QED
  BY <1>1 DEF CountInv

LEMMA CountStep ==
  ASSUME Disciplined, TypeOK, TableInv, CountInv, [Next]_vars
  PROVE  CountInv'
<1>a. /\ bp \in [Slot -> Bp] /\ evt.slot \in Slot /\ ActiveCr3 \in Space
      /\ \A i \in Slot : bp[i] \in Bp
      /\ AllAccessible
  BY DEF TypeOK, ActiveCr3, TableInv
<1>1. ASSUME NEW a \in Addr, SetBreak(a) PROVE CountInv'
  <2>1. acc[<<ActiveCr3, a>>] = "DONE"
    BY <1>a DEF AllAccessible, Cell
  <2>2. /\ bp' = Claim(bp, mem, a, ActiveCr3, "DONE")
        /\ \A i \in Slot : bp[i].on => bp[i].addr # a
    BY <1>1, <2>1 DEF SetBreak, Disciplined
  <2>3. CASE Installed(bp, a, "DONE") = {}
    <3>1. cnt' = cnt /\ soft'.on = soft.on /\ excp' = excp
      BY <1>1, <2>1, <2>3 DEF SetBreak, TypeOK
    <3>2. bp' = bp
      BY <2>2, <2>3, ClaimTakesOne
    <3> QED
      BY <3>1, <3>2, CountUntouched
  <2>4. CASE Installed(bp, a, "DONE") # {}
    <3>1. cnt' = cnt + 1 /\ soft'.on /\ "BP" \in excp'
      BY <1>1, <2>1, <2>4 DEF SetBreak, TypeOK
    <3>2. PICK i \in Slot : /\ ~bp[i].on /\ bp'[i].on
                            /\ \A j \in Slot \ {i} : bp'[j] = bp[j]
      BY <2>2, <2>4, ClaimTakesOne
    <3>3. ActiveSet(bp)' = ActiveSet(bp) \cup {i} /\ i \notin ActiveSet(bp)
      BY <3>2 DEF ActiveSet
    <3>4. Cardinality(ActiveSet(bp) \cup {i}) = Cardinality(ActiveSet(bp)) + 1
      BY <3>3, ActiveFinite, FS_AddElement
    <3> QED
      BY <3>1, <3>3, <3>4 DEF CountInv
  <2> QED
    BY <2>3, <2>4
<1>2. ASSUME NEW a \in Addr, DelBreak(a) PROVE CountInv'
  <2>1. PICK i \in FirstAt(bp, a) : bp' = Release(bp, acc, {i})
    BY <1>2 DEF DelBreak
  <2>2. i \in Slot /\ i \in ActiveSet(bp)
    BY DEF FirstAt, ActiveSet
  <2>3. ~bp'[i].on /\ \A j \in Slot \ {i} : bp'[j] = bp[j]
    BY <1>a, <2>1, <2>2 DEF Release, Bp
  <2>4. ActiveSet(bp)' = ActiveSet(bp) \ {i}
    BY <2>2, <2>3 DEF ActiveSet
  <2>5. Cardinality(ActiveSet(bp) \ {i}) = Cardinality(ActiveSet(bp)) - 1
    BY <2>2, ActiveFinite, FS_RemoveElement
  <2>6. /\ cnt # 0 /\ cnt' = cnt - 1
        /\ cnt' # 0 => soft'.on = soft.on /\ excp' = excp
    BY <1>2 DEF DelBreak, TypeOK
  <2> QED
    BY <2>4, <2>5, <2>6 DEF CountInv
<1>3. ASSUME NEW s \in Space, SetFilter(s) PROVE CountInv'
  <2>1. CASE SoftReset
    BY <2>1, CountReset
  <2>2. CASE UNCHANGED <<tableVars, excp>>
    BY <2>2, CountUntouched DEF tableVars
  <2> QED
    BY <1>3, <2>1, <2>2 DEF SetFilter
<1>4. CASE DelFilter \/ Detach
  BY <1>4, CountReset DEF DelFilter, Detach
<1>5. ASSUME NEW stp \in BOOLEAN, Resume(stp) PROVE CountInv'
  <2>1. cnt' = cnt /\ ("BP" \in excp => "BP" \in excp')
    BY <1>5 DEF Resume, StepOn
  <2>2. soft'.on = soft.on
    BY <1>5 DEF Resume, TypeOK
  <2>3. ActiveSet(bp') = ActiveSet(bp)
    BY <1>5, <1>a, SetStActive DEF Resume
  <2> QED
    BY <2>1, <2>2, <2>3, CountUntouched
<1>6. CASE CtrlTraps
  <2>1. cnt' = cnt /\ excp' = excp
    BY <1>6 DEF CtrlTraps
  <2>2. soft'.on = soft.on
    BY <1>6 DEF CtrlTraps, TrapsEnable, TrapsDisable, TypeOK
  <2>3. ActiveSet(bp') = ActiveSet(bp)
    <3>1. bp' = bp \/ \E W, st : bp' = SetSt(bp, W, st)
      BY <1>6 DEF CtrlTraps, TrapsEnable, TrapsDisable
    <3> QED
      BY <1>a, <3>1, SetStActive
  <2> QED
    BY <2>1, <2>2, <2>3, CountUntouched
<1>7. ASSUME \/ KeepFilter
             \/ DeliverEvent \/ ClientInterrupts \/ ClientSilent
             \/ OtherExit \/ Breakpoint
             \/ \E s \in Space : SwitchCr3(s)
             \/ \E a \in Addr : GuestInt3(a) \/ Instruction(a)
             \/ \E c \in Cell : PageOut(c) \/ PageIn(c)
             \/ \E c \in Cell, b \in Byte : GuestWrite(c, b)
             \/ UNCHANGED vars
      PROVE  CountInv'
  <2>1. UNCHANGED <<bp, cnt, soft, excp>>
    BY <1>7 DEF KeepFilter, DeliverEvent, ClientInterrupts, ClientSilent, OtherExit,
                Breakpoint, SwitchCr3, GuestInt3, Instruction, PageOut, PageIn,
                GuestWrite, vars, tableVars, ctrlVars
  <2> QED
    BY <2>1, CountUntouched
<1>8. ASSUME NEW a \in Addr, StepTrap(a) PROVE CountInv'
  <2>1. cnt' = cnt /\ ("BP" \in excp => "BP" \in excp')
    BY <1>8 DEF StepTrap
  <2>2. soft'.on = soft.on
    BY <1>8 DEF StepTrap, TypeOK
  <2>3. ActiveSet(bp') = ActiveSet(bp)
    BY <1>8, <1>a, SetStActive DEF StepTrap
  <2> QED
    BY <2>1, <2>2, <2>3, CountUntouched
<1> QED
  BY <1>1, <1>2, <1>3, <1>4, <1>5, <1>6, <1>7, <1>8
     DEF Next, ClientCommand, Controller, Guest

LEMMA CountInit == Init => CountInv
<1> SUFFICES ASSUME Init PROVE CountInv
  OBVIOUS
<1>1. \A i \in Slot : ~bp[i].on
  BY DEF Init, FreeBp
<1>2. ActiveSet(bp) = {}
  BY <1>1 DEF ActiveSet
<1> QED
  BY <1>2, FS_EmptySet DEF Init, CountInv

\* dbg.soft.cnt is the number of active breakpoints, and #BP is intercepted
\* as long as there is one: deleting some never switches off the others
\* (dbg_soft_set, dbg_soft_del, dbg_soft_reset).
THEOREM CountSafe == Disciplined => (Spec => []CountInv)
<1> SUFFICES ASSUME Disciplined PROVE Spec => []CountInv
  OBVIOUS
<1>1. Init => TypeOK /\ TableInv /\ CountInv
  BY InitType, TableInit, CountInit
<1>2. TypeOK /\ TableInv /\ CountInv /\ [Next]_vars
        => (TypeOK /\ TableInv /\ CountInv)'
  BY TypeStep, TableStep, CountStep
<1> QED
  BY <1>1, <1>2, PTL DEF Spec

(***************************************************************************)
(* No breakpoint is missed, for one process on plain code.                 *)
(***************************************************************************)

\* The trap bytes that a visit writes are there after it.
LEMMA ArmWrites ==
  ASSUME TypeOK, TrapsWritten, NEW W \in SUBSET Slot,
         bp' = SetSt(bp, W, TRUE), mem' = TrapBytes(bp, mem, W)
  PROVE  TrapsWritten'
<1> SUFFICES ASSUME NEW i \in Slot, bp'[i].on, bp'[i].st
             PROVE  mem'[CellOf(bp'[i])] = BREAKPOINT_INSN
  BY DEF TrapsWritten
<1>1. bp[i] \in Bp
  BY DEF TypeOK
<1>2. CellOf(bp'[i]) = CellOf(bp[i]) /\ bp[i].on /\ (i \in W \/ bp[i].st)
  BY <1>1 DEF SetSt, Bp, CellOf
<1>3. CellOf(bp[i]) \in Cell
  BY SlotCell DEF TypeOK
<1> QED
  BY <1>2, <1>3 DEF TrapBytes, TrapsWritten

\* Giving one slot's byte back takes no other slot's trap away.
LEMMA RestoreSparesOthers ==
  ASSUME TypeOK, TrapsWritten, OneSlotPerAddress,
         NEW i \in Slot, bp[i].on, NEW j \in Slot, j # i, bp[j].on, bp[j].st
  PROVE  SavedBytes(bp, mem, {i})[CellOf(bp[j])] = BREAKPOINT_INSN
<1>1. CellOf(bp[i]) # CellOf(bp[j])
  BY DEF OneSlotPerAddress, CellOf
<1>2. CellOf(bp[j]) \in Cell
  BY SlotCell DEF TypeOK
<1>3. SavedBytes(bp, mem, {i})[CellOf(bp[j])] = mem[CellOf(bp[j])]
  BY <1>1, <1>2 DEF SavedBytes
<1> QED
  BY <1>3 DEF TrapsWritten

\* A trap in memory is one of the table's, and while the guest runs it is
\* intercepted and found in the table.
LEMMA TrapIntercepted ==
  ASSUME OneProcess, TypeOK, TableInv, TrapInv, DetachInv, CountInv,
         run = "guest", NEW a \in Addr, mem[<<cr3, a>>] # code[<<cr3, a>>]
  PROVE  /\ "BP" \in bitmap /\ "BP" \in excp /\ soft.on
         /\ FirstAt(bp, a) # {}
<1>1. <<cr3, a>> \in Cell
  BY DEF TypeOK, Cell
<1>2. PICK i \in Slot : bp[i].on /\ bp[i].st /\ CellOf(bp[i]) = <<cr3, a>>
  BY <1>1 DEF TableInv, TrapBytesOwned, OwnedTrap
<1>3. bp[i].addr = a
  BY <1>2 DEF CellOf
<1>4. i \in FirstAt(bp, a)
  <2>1. \A j \in Slot : j < i => ~(bp[j].on /\ bp[j].addr = a)
    BY <1>2, <1>3, SoftBreakAssumption DEF TableInv, OneSlotPerAddress, Slot
  <2> QED
    BY <1>2, <1>3, <2>1 DEF FirstAt
<1>5. i \in ActiveSet(bp)
  BY <1>2 DEF ActiveSet
<1>6. cnt # 0
  BY <1>5, ActiveFinite, FS_EmptySet DEF CountInv
<1>7. soft.on /\ "BP" \in excp
  BY <1>6 DEF CountInv
<1>8. gdb
  BY <1>5 DEF DetachInv
<1>9. Active
  BY DEF Active, TypeOK, OneProcess
<1>10. bitmap = excp
  BY <1>8, <1>9 DEF TrapInv
<1> QED
  BY <1>4, <1>7, <1>10

\* While a breakpoint is lifted the process stops after one instruction.
LEMMA LiftedStops ==
  ASSUME OneProcess, TypeOK, TrapInv, DetachInv, StepInv, LiftedIsStepping,
         run = "guest", soft.rs
  PROVE  StepExits
<1>1. step.on
  BY DEF LiftedIsStepping
<1>2. tf[cr3] /\ "DB" \in excp
  BY <1>1 DEF StepInv, TypeOK
<1>3. gdb
  BY <1>1 DEF DetachInv
<1>4. Active
  BY DEF Active, TypeOK, OneProcess
<1>5. bitmap = excp
  BY <1>3, <1>4 DEF TrapInv
<1> QED
  BY <1>1, <1>2, <1>5 DEF StepExits

\* What the actions that leave the table and memory alone need to respect.
LEMMA ArmedUntouched ==
  ASSUME ArmedInv, UNCHANGED <<bp, mem, code>>, soft'.rs = soft.rs,
         traps.up => traps'.up,
         soft.rs \/ run' = "stub" => seen'[cr3']
  PROVE  ArmedInv'
BY DEF ArmedInv, TrapsWritten

LEMMA ArmedReset ==
  ASSUME TypeOK, ArmedInv, SoftReset, code' = code, run' = "stub" => seen'[cr3']
  PROVE  ArmedInv'
<1>1. \A i \in Slot : ~bp'[i].on
  BY ResetActive DEF ActiveSet
<1>2. ~soft'.rs
  BY DEF SoftReset
<1> QED
  BY <1>1, <1>2 DEF ArmedInv, TrapsWritten

LEMMA ArmedStep ==
  ASSUME Disciplined, OneProcess, PlainCode0,
         TypeOK, TableInv, TrapInv, DetachInv, StepInv, CountInv,
         LiftedIsStepping, ArmedInv, [Next]_vars
  PROVE  ArmedInv'
<1>a. /\ bp \in [Slot -> Bp] /\ evt.slot \in Slot /\ ActiveCr3 \in Space
      /\ \A i \in Slot : bp[i] \in Bp
      /\ AllAccessible /\ OneSlotPerAddress /\ FreeSlotsBare
      /\ TrapsWritten /\ code = Code0
      /\ Active
      /\ cr3 \in Space
  BY DEF TypeOK, ActiveCr3, TableInv, ArmedInv, Active, OneProcess
<1>1. ASSUME NEW a \in Addr, SetBreak(a) PROVE ArmedInv'
  <2>1. acc[<<ActiveCr3, a>>] = "DONE"
    BY <1>a DEF AllAccessible, Cell
  <2>2. /\ bp' = Claim(bp, mem, a, ActiveCr3, "DONE")
        /\ \A i \in Slot : bp[i].on => bp[i].addr # a
        /\ UNCHANGED <<mem, code, seen, cr3, run>>
    BY <1>1, <2>1 DEF SetBreak, Disciplined, guestVars
  <2>3. soft'.rs = soft.rs
    BY <1>1 DEF SetBreak, TypeOK
  <2>4. CASE Installed(bp, a, "DONE") = {}
    <3>1. bp' = bp
      BY <2>2, <2>4, ClaimTakesOne
    <3>2. traps.up => traps'.up
      BY <1>1 DEF SetBreak, TypeOK
    <3> QED
      BY <2>2, <2>3, <3>1, <3>2, ArmedUntouched DEF ArmedInv
  <2>5. CASE Installed(bp, a, "DONE") # {}
    <3>1. traps'.up
      BY <1>1, <2>1, <2>5 DEF SetBreak, TypeOK
    <3>2. PICK i \in Slot : /\ ~bp[i].on /\ bp'[i].st = bp[i].st
                            /\ \A j \in Slot \ {i} : bp'[j] = bp[j]
      BY <2>2, <2>5, ClaimTakesOne
    <3>3. ~bp'[i].st
      BY <1>a, <3>2 DEF FreeSlotsBare
    <3>4. TrapsWritten'
      BY <1>a, <2>2, <3>2, <3>3 DEF TrapsWritten
    <3> QED
      BY <2>2, <2>3, <3>1, <3>4 DEF ArmedInv
  <2> QED
    BY <2>4, <2>5
<1>2. ASSUME NEW a \in Addr, DelBreak(a) PROVE ArmedInv'
  <2>1. PICK i \in FirstAt(bp, a) :
          /\ bp'  = Release(bp, acc, {i})
          /\ mem' = SavedBytes(bp, mem, Restorable(bp, acc, {i}))
    BY <1>2 DEF DelBreak
  <2>2. i \in Slot /\ bp[i].on
    BY DEF FirstAt
  <2>3. mem' = SavedBytes(bp, mem, {i})
    BY <1>a, <2>1, <2>2, AllWritten
  <2>4. ~bp'[i].on /\ \A j \in Slot \ {i} : bp'[j] = bp[j]
    BY <1>a, <2>1, <2>2 DEF Release, Bp
  <2>5. TrapsWritten'
    <3> SUFFICES ASSUME NEW j \in Slot, bp'[j].on, bp'[j].st
                 PROVE  mem'[CellOf(bp'[j])] = BREAKPOINT_INSN
      BY DEF TrapsWritten
    <3>1. j # i /\ bp'[j] = bp[j]
      BY <2>4
    <3> QED
      BY <1>a, <2>2, <2>3, <3>1, RestoreSparesOthers
  <2>6. soft'.rs = soft.rs
    BY <1>2 DEF DelBreak, TypeOK
  <2>7. traps.up => traps'.up
    BY <1>2 DEF DelBreak, TypeOK
  <2>8. UNCHANGED <<code, seen, cr3, run>>
    BY <1>2 DEF DelBreak, guestVars
  <2> QED
    BY <2>4, <2>5, <2>6, <2>7, <2>8 DEF ArmedInv
<1>3. ASSUME NEW s \in Space, SetFilter(s) PROVE ArmedInv'
  <2>1. UNCHANGED <<code, seen, cr3, run>>
    BY <1>3 DEF SetFilter, guestVars
  <2>2. traps'.up
    BY <1>3 DEF SetFilter, TypeOK
  <2>3. run = "stub" => seen[cr3]
    BY DEF ArmedInv
  <2>4. CASE SoftReset
    BY <2>1, <2>3, <2>4, ArmedReset
  <2>5. CASE UNCHANGED <<tableVars, mem>>
    BY <2>1, <2>2, <2>5, ArmedUntouched DEF tableVars, ArmedInv
  <2> QED
    BY <1>3, <2>4, <2>5 DEF SetFilter
<1>4. CASE DelFilter \/ Detach
  <2>1. SoftReset /\ UNCHANGED <<code, seen, cr3>> /\ run = "stub"
    BY <1>4 DEF DelFilter, Detach, guestVars
  <2>2. seen[cr3]
    BY <2>1 DEF ArmedInv
  <2> QED
    BY <2>1, <2>2, ArmedReset
<1>5. CASE KeepFilter
  <2>1. UNCHANGED <<bp, mem, code, soft, traps, seen, cr3, run>>
    BY <1>5 DEF KeepFilter, tableVars, guestVars
  <2> QED
    BY <2>1, ArmedUntouched DEF ArmedInv
<1>6. ASSUME NEW stp \in BOOLEAN, Resume(stp) PROVE ArmedInv'
  <2>1. run = "stub" /\ run' # "stub" /\ UNCHANGED <<code, seen, cr3>>
    BY <1>6 DEF Resume
  <2>2. seen'[cr3']
    BY <2>1 DEF ArmedInv
  <2>3. CASE Liftable
    <3>1. /\ bp' = SetSt(bp, {evt.slot}, FALSE)
          /\ mem' = SavedBytes(bp, mem, {evt.slot})
          /\ bp[evt.slot].on
      BY <1>6, <2>3 DEF Resume, Liftable
    <3>2. soft'.rs
      BY <1>6, <2>3 DEF Resume, TypeOK
    <3>3. TrapsWritten'
      <4> SUFFICES ASSUME NEW j \in Slot, bp'[j].on, bp'[j].st
                   PROVE  mem'[CellOf(bp'[j])] = BREAKPOINT_INSN
        BY DEF TrapsWritten
      <4>1. j # evt.slot
        BY <1>a, <3>1 DEF SetSt, Bp
      <4>2. bp'[j] = bp[j]
        BY <3>1, <4>1 DEF SetSt
      <4> QED
        BY <1>a, <3>1, <4>1, <4>2, RestoreSparesOthers
    <3> QED
      BY <2>1, <2>2, <3>2, <3>3 DEF ArmedInv
  <2>4. CASE ~Liftable
    <3>1. bp' = bp /\ mem' = mem
      BY <1>6, <2>4 DEF Resume
    <3>2. soft'.rs = soft.rs
      BY <1>6, <2>4 DEF Resume, TypeOK
    <3>3. traps.up => traps'.up
      BY <1>6 DEF Resume, StepOn, TypeOK
    <3> QED
      BY <2>1, <2>2, <3>1, <3>2, <3>3, ArmedUntouched
  <2> QED
    BY <2>3, <2>4
<1>7. CASE DeliverEvent \/ ClientInterrupts
  <2>1. /\ seen' = [seen EXCEPT ![cr3] = TRUE]
        /\ UNCHANGED <<bp, mem, code, soft, traps, cr3>>
    BY <1>7 DEF DeliverEvent, ClientInterrupts, tableVars
  <2>2. seen'[cr3']
    BY <1>a, <2>1 DEF TypeOK
  <2> QED
    BY <2>1, <2>2, ArmedUntouched
<1>8. CASE ClientSilent \/ OtherExit \/ Breakpoint
  <2>1. UNCHANGED <<bp, mem, code, soft, traps, seen, cr3>> /\ run' # "stub"
    BY <1>8 DEF ClientSilent, OtherExit, Breakpoint, tableVars, ctrlVars, guestVars
  <2> QED
    BY <2>1, ArmedUntouched DEF ArmedInv
<1>9. CASE CtrlTraps
  <2>1. UNCHANGED <<code, seen, cr3>> /\ run' # "stub"
    BY <1>9 DEF CtrlTraps, guestVars
  <2>2. CASE TrapsEnable
    <3> DEFINE S == RearmSet(bp, soft.rs, evt.addr)
    <3>1. S \in SUBSET Slot /\ \A i \in S : bp[i].on
      BY DEF RearmSet
    <3>2. ~soft.rs => \A i \in Slot : bp[i].on => bp[i].st \/ i \in S
      BY DEF RearmSet
    <3> HIDE DEF S
    <3>3. Written(bp, acc, S) = S
      BY <1>a, <3>1, AllWritten
    <3>4. bp' = SetSt(bp, S, TRUE) /\ mem' = TrapBytes(bp, mem, S)
      BY <2>2, <3>3 DEF TrapsEnable, S
    <3>5. TrapsWritten'
      BY <1>a, <3>1, <3>4, ArmWrites
    <3>6. soft'.rs = soft.rs
      BY <2>2 DEF TrapsEnable, TypeOK
    <3>7. ~soft.rs => \A i \in Slot : bp'[i].on => bp'[i].st
      BY <1>a, <3>2, <3>4 DEF SetSt, Bp
    <3> QED
      BY <2>1, <3>5, <3>6, <3>7 DEF ArmedInv
  <2>3. CASE UNCHANGED <<bp, mem, soft, traps>>
    BY <2>1, <2>3, ArmedUntouched DEF ArmedInv
  <2> QED
    BY <1>9, <1>a, <2>2, <2>3 DEF CtrlTraps
<1>10. ASSUME NEW a \in Addr, GuestInt3(a) PROVE FALSE
  <2>1. rip[cr3] \in Addr /\ Here \in Cell
    BY <1>a DEF TypeOK, Here, Cell
  <2>2. mem[Here] # code[Here]
    BY <1>10, <1>a, <2>1 DEF GuestInt3, PlainCode0
  <2> QED
    BY <1>10, <2>1, <2>2, TrapIntercepted DEF GuestInt3, Here
<1>11. ASSUME NEW a \in Addr, Instruction(a) PROVE ArmedInv'
  <2>1. UNCHANGED <<bp, mem, code, soft, traps>> /\ run' # "stub"
    BY <1>11 DEF Instruction, tableVars, ctrlVars
  <2>2. ~soft.rs
    BY <1>11, LiftedStops DEF Instruction
  <2> QED
    BY <2>1, <2>2, ArmedUntouched
<1>12. ASSUME NEW a \in Addr, StepTrap(a) PROVE ArmedInv'
  <2>1. code' = code /\ run' # "stub"
    BY <1>12 DEF StepTrap
  <2>2. acc[CellOf(bp[evt.slot])] = "DONE"
    BY <1>a, SlotCell DEF AllAccessible
  <2>3. ~soft'.rs
    BY <1>12, <2>2 DEF StepTrap, TypeOK
  <2>4. traps'.up
    BY <1>12, <2>2 DEF StepTrap, TypeOK
  <2>5. TrapsWritten'
    <3>1. CASE soft.rs
      <4> DEFINE W == {evt.slot}
      <4>1. W \in SUBSET Slot
        BY <1>a
      <4>2. bp' = SetSt(bp, W, TRUE) /\ mem' = TrapBytes(bp, mem, W)
        BY <1>12, <2>2, <3>1 DEF StepTrap
      <4> HIDE DEF W
      <4> QED
        BY <1>a, <4>1, <4>2, ArmWrites
    <3>2. CASE ~soft.rs
      <4>1. bp' = bp /\ mem' = mem
        BY <1>12, <3>2 DEF StepTrap
      <4> QED
        BY <1>a, <4>1 DEF TrapsWritten
    <3> QED
      BY <3>1, <3>2
  <2> QED
    BY <2>1, <2>3, <2>4, <2>5 DEF ArmedInv
<1>13. ASSUME \/ \E s \in Space : SwitchCr3(s)
              \/ \E c \in Cell : PageOut(c) \/ PageIn(c)
              \/ \E c \in Cell, b \in Byte : GuestWrite(c, b)
       PROVE  FALSE
  BY <1>13, <1>a DEF SwitchCr3, PageOut, PageIn, GuestWrite, Disciplined, OneProcess
<1>14. CASE UNCHANGED vars
  <2>1. UNCHANGED <<bp, mem, code, soft, traps, seen, cr3, run>>
    BY <1>14 DEF vars, tableVars, ctrlVars, guestVars
  <2> QED
    BY <2>1, ArmedUntouched DEF ArmedInv
<1> QED
  BY <1>1, <1>2, <1>3, <1>4, <1>5, <1>6, <1>7, <1>8, <1>9, <1>10, <1>11, <1>12,
     <1>13, <1>14
     DEF Next, ClientCommand, Controller, Guest

LEMMA ArmedInit == Init => ArmedInv
<1> SUFFICES ASSUME Init PROVE ArmedInv
  OBVIOUS
<1>1. \A i \in Slot : ~bp[i].on
  BY DEF Init, FreeBp
<1> QED
  BY <1>1 DEF Init, ArmedInv, TrapsWritten

\* With one process on code without an int3 of its own, for any table and any
\* set of addresses: an active breakpoint at the rip of the guest has its
\* trap in memory or has just been reported, and a trap the guest can reach
\* is intercepted and belongs to a slot (dbg_soft.c, dbg_hard_stp.c,
\* ctrl_traps).  A stale stop, a lift interrupted by another breakpoint and
\* a step asked for twice are among the behaviours.
THEOREM NoBreakMissed ==
  Disciplined /\ OneProcess /\ PlainCode0 => (Spec => []NoMissedBreak)
<1> SUFFICES ASSUME Disciplined, OneProcess, PlainCode0
             PROVE  Spec => []NoMissedBreak
  OBVIOUS
<1> DEFINE Inv == /\ TypeOK /\ TableInv /\ TrapInv /\ DetachInv /\ StepInv
                  /\ CountInv /\ LiftedIsStepping /\ ArmedInv
<1>1. Init => Inv
  <2>1. Init => LiftedIsStepping
    BY DEF Init, LiftedIsStepping
  <2> QED
    BY <2>1, InitType, TableInit, TrapInit, DetachInit, StepInit, CountInit, ArmedInit
<1>2. Inv /\ [Next]_vars => Inv'
  BY TypeStep, TableStep, TrapStep, DetachStep, StepStep, CountStep, LiftStep,
     ArmedStep
<1>3. Inv => NoMissedBreak
  <2> SUFFICES ASSUME Inv, run = "guest"
               PROVE  /\ \A i \in Slot :
                           bp[i].on /\ CellOf(bp[i]) = Here
                             => mem[Here] = BREAKPOINT_INSN \/ seen[cr3]
                      /\ \A a \in Addr :
                           mem[<<cr3, a>>] # code[<<cr3, a>>] =>
                             /\ "BP" \in bitmap /\ "BP" \in excp /\ soft.on
                             /\ FirstAt(bp, a) # {}
    BY DEF NoMissedBreak
  <2>1. ASSUME NEW i \in Slot, bp[i].on, CellOf(bp[i]) = Here
        PROVE  mem[Here] = BREAKPOINT_INSN \/ seen[cr3]
    <3>1. ~traps.up
      BY DEF TrapInv
    <3>2. bp[i].st \/ soft.rs
      BY <2>1, <3>1 DEF ArmedInv
    <3> QED
      BY <2>1, <3>2 DEF ArmedInv, TrapsWritten
  <2> QED
    BY <2>1, TrapIntercepted
<1> QED
  BY <1>1, <1>2, <1>3, PTL DEF Spec
=============================================================================
