---------------------------- MODULE HardBreakProofs ----------------------------
(***************************************************************************)
(* Proofs about HardBreak, for any number of processes, addresses and      *)
(* debug registers, any soft breakpoints and any use the guest makes of    *)
(* its own debug registers.                                                *)
(***************************************************************************)
EXTENDS HardBreak, TLAPS

USE HardBreakAssumption, GuestDr7Assumption

-----------------------------------------------------------------------------
(***************************************************************************)
(* Type correctness.                                                       *)
(***************************************************************************)

\* There is a first register, address and process, and dr7 has a value with
\* every register off.
LEMMA InitialValues ==
  /\ 0 \in Slot
  /\ Addr0 \in Addr
  /\ Space0 \in Space
  /\ AllOff \in [Slot -> Ctl]
  /\ Dr7Off \in Dr7
  /\ Regs0 \in [dr : [Slot -> Addr], dr7 : Dr7]
<1>1. 0 \in Slot
  BY DEF Slot
<1>2. Addr0 \in Addr /\ Space0 \in Space
  BY DEF Addr0, Space0
<1>3. AllOff \in [Slot -> Ctl]
  BY DEF AllOff, Ctl
<1>4. Dr7Off \in Dr7
  BY <1>3 DEF Dr7Off, Dr7
<1>5. Regs0 \in [dr : [Slot -> Addr], dr7 : Dr7]
  BY <1>2, <1>4 DEF Regs0
<1> QED
  BY <1>1, <1>2, <1>3, <1>4, <1>5

LEMMA InitTyped == Init => TypeOK
<1> SUFFICES ASSUME Init PROVE TypeOK
  OBVIOUS
<1> USE InitialValues
<1>1. brk \in [insn : BOOLEAN, on : BOOLEAN, dis : BOOLEAN, rf : BOOLEAN]
  BY DEF Init
<1>2. evt \in [type : EvtType, addr : Addr, slot : Slot, member : {"soft", "hard"}]
  BY DEF Init, EvtType
<1>3. /\ brkDr7 \in [Slot -> Ctl]
      /\ dr \in [Slot -> Addr]
      /\ dr7 \in Dr7
      /\ shadow \in [dr : [Slot -> Addr], dr7 : Dr7]
      /\ own \in [dr : [Slot -> Addr], dr7 : Dr7]
  BY DEF Init, Regs0
<1>4. rflags \in [Space -> [tf : BOOLEAN, rf : BOOLEAN]]
  BY DEF Init
<1>5. /\ step \in [on : BOOLEAN, tf : BOOLEAN, rq : {"USR", "VMM"}]
      /\ filter \in [on : BOOLEAN, cr3 : Space, keep : BOOLEAN]
      /\ traps \in [on : BOOLEAN, up : BOOLEAN]
  BY DEF Init
<1>6. /\ db \in BOOLEAN /\ bitmap \in BOOLEAN /\ rs \in BOOLEAN
      /\ event \in BOOLEAN /\ gdb \in BOOLEAN
      /\ run \in {"guest", "exit", "stub", "traps"}
      /\ cr3 \in Space
      /\ rip \in [Space -> Addr]
      /\ touched \subseteq Slot
  BY DEF Init
<1> QED
  BY <1>1, <1>2, <1>3, <1>4, <1>5, <1>6 DEF TypeOK

\* One lemma per action whose effect on the types is not plain.
LEMMA SetHardTyped ==
  ASSUME TypeOK, NEW a \in Addr, NEW t \in Cond, SetHard(a, t)
  PROVE  TypeOK'
<1>1. brkDr7' \in [Slot -> Ctl] /\ dr' \in [Slot -> Addr]
  <2>1. PICK n \in FirstFree :
          /\ brkDr7' = [m \in Slot \cup {n} |-> IF m = n THEN t ELSE brkDr7[m]]
          /\ dr' = [dr EXCEPT ![n] = a]
    BY DEF SetHard
  <2>2. n \in Slot /\ Slot \cup {n} = Slot
    BY <2>1 DEF FirstFree
  <2>3. brkDr7' = [m \in Slot |-> IF m = n THEN t ELSE brkDr7[m]]
    BY <2>1, <2>2
  <2> QED
    BY <2>1, <2>2, <2>3 DEF TypeOK, Ctl
<1>2. brk' \in [insn : BOOLEAN, on : BOOLEAN, dis : BOOLEAN, rf : BOOLEAN]
  BY DEF SetHard, TypeOK
<1>3. rflags' \in [Space -> [tf : BOOLEAN, rf : BOOLEAN]]
  BY DEF SetHard, TypeOK
<1>4. db' \in BOOLEAN /\ traps' \in [on : BOOLEAN, up : BOOLEAN]
  BY DEF SetHard, TypeOK
<1> QED
  BY <1>1, <1>2, <1>3, <1>4 DEF SetHard, TypeOK

LEMMA DelHardTyped ==
  ASSUME TypeOK, NEW a \in Addr, NEW t \in Cond, DelHard(a, t)
  PROVE  TypeOK'
<1>1. brkDr7' \in [Slot -> Ctl]
  BY DEF DelHard, TypeOK, Ctl
<1>2. brk' \in [insn : BOOLEAN, on : BOOLEAN, dis : BOOLEAN, rf : BOOLEAN]
  BY DEF DelHard, TypeOK, Remaining, HasInsn, HasAny
<1>3. rflags' \in [Space -> [tf : BOOLEAN, rf : BOOLEAN]]
  BY DEF DelHard, TypeOK
<1>4. db' \in BOOLEAN /\ traps' \in [on : BOOLEAN, up : BOOLEAN]
  BY DEF DelHard, TypeOK
<1> QED
  BY <1>1, <1>2, <1>3, <1>4 DEF DelHard, TypeOK
\* Giving the running process any tf and rf leaves the flags well typed.
LEMMA FlagsTyped ==
  ASSUME TypeOK, NEW x \in BOOLEAN, NEW y \in BOOLEAN
  PROVE  /\ [rflags EXCEPT ![cr3].tf = x, ![cr3].rf = y] \in [Space -> [tf : BOOLEAN, rf : BOOLEAN]]
         /\ [rflags EXCEPT ![cr3] = [tf |-> x, rf |-> y]] \in [Space -> [tf : BOOLEAN, rf : BOOLEAN]]
         /\ [rflags EXCEPT ![cr3].rf = y] \in [Space -> [tf : BOOLEAN, rf : BOOLEAN]]
<1>1. rflags \in [Space -> [tf : BOOLEAN, rf : BOOLEAN]]
  BY DEF TypeOK
<1>2. [rflags EXCEPT ![cr3].tf = x, ![cr3].rf = y] \in [Space -> [tf : BOOLEAN, rf : BOOLEAN]]
  BY <1>1
<1>3. [rflags EXCEPT ![cr3] = [tf |-> x, rf |-> y]] \in [Space -> [tf : BOOLEAN, rf : BOOLEAN]]
  BY <1>1
<1>4. [rflags EXCEPT ![cr3].rf = y] \in [Space -> [tf : BOOLEAN, rf : BOOLEAN]]
  BY <1>1
<1> QED
  BY <1>2, <1>3, <1>4

LEMMA ResumeTyped ==
  ASSUME TypeOK, NEW stp \in BOOLEAN, Resume(stp)
  PROVE  TypeOK'
<1>1. step' \in [on : BOOLEAN, tf : BOOLEAN, rq : {"USR", "VMM"}]
  BY DEF Resume, TypeOK
<1>2. rflags' \in [Space -> [tf : BOOLEAN, rf : BOOLEAN]]
  <2>1. PICK x \in BOOLEAN, y \in BOOLEAN :
          rflags' = [rflags EXCEPT ![cr3].tf = x, ![cr3].rf = y]
    BY DEF Resume
  <2> QED
    BY <2>1, FlagsTyped
<1>3. db' \in BOOLEAN /\ traps' \in [on : BOOLEAN, up : BOOLEAN] /\ rs' \in BOOLEAN
  BY DEF Resume, TypeOK
<1>4. run' \in {"guest", "exit", "stub", "traps"}
  BY DEF Resume
<1> QED
  BY <1>1, <1>2, <1>3, <1>4 DEF Resume, TypeOK

LEMMA FilterTyped ==
  ASSUME TypeOK, (\E s \in Space : SetFilter(s)) \/ DelFilter \/ KeepFilter
  PROVE  TypeOK'
<1>1. CASE \E s \in Space : SetFilter(s)
  <2>1. filter' \in [on : BOOLEAN, cr3 : Space, keep : BOOLEAN]
    BY <1>1 DEF SetFilter, TypeOK
  <2>2. traps' \in [on : BOOLEAN, up : BOOLEAN] /\ rs' \in BOOLEAN
    BY <1>1 DEF SetFilter, TypeOK
  <2> QED
    BY <1>1, <2>1, <2>2 DEF SetFilter, TypeOK, guestVars
<1>2. CASE DelFilter
  <2>1. filter' \in [on : BOOLEAN, cr3 : Space, keep : BOOLEAN]
    BY <1>2 DEF DelFilter, TypeOK
  <2>2. traps' \in [on : BOOLEAN, up : BOOLEAN] /\ rs' \in BOOLEAN
    BY <1>2 DEF DelFilter, TypeOK
  <2> QED
    BY <1>2, <2>1, <2>2 DEF DelFilter, TypeOK, guestVars
<1>3. CASE KeepFilter
  <2>1. filter' \in [on : BOOLEAN, cr3 : Space, keep : BOOLEAN]
    BY <1>3 DEF KeepFilter, TypeOK
  <2> QED
    BY <1>3, <2>1 DEF KeepFilter, TypeOK, guestVars, dbgVars
<1> QED
  BY <1>1, <1>2, <1>3

LEMMA SessionTyped ==
  ASSUME TypeOK, Attach \/ Detach
  PROVE  TypeOK'
<1> USE InitialValues
<1>1. CASE Attach
  BY <1>1 DEF Attach, TypeOK, guestVars
<1>2. CASE Detach
  <2>1. filter' \in [on : BOOLEAN, cr3 : Space, keep : BOOLEAN]
    BY <1>2 DEF Detach, TypeOK
  <2>2. /\ step' \in [on : BOOLEAN, tf : BOOLEAN, rq : {"USR", "VMM"}]
        /\ brk' \in [insn : BOOLEAN, on : BOOLEAN, dis : BOOLEAN, rf : BOOLEAN]
        /\ traps' \in [on : BOOLEAN, up : BOOLEAN]
    BY <1>2 DEF Detach, TypeOK
  <2>3. rflags' \in [Space -> [tf : BOOLEAN, rf : BOOLEAN]]
    BY <1>2 DEF Detach, TypeOK
  <2>4. dr' \in [Slot -> Addr] /\ dr7' \in Dr7
    BY <1>2 DEF Detach, ReleaseDr, TypeOK
  <2> QED
    BY <1>2, <2>1, <2>2, <2>3, <2>4 DEF Detach, TypeOK
<1> QED
  BY <1>1, <1>2

LEMMA ControllerTyped ==
  ASSUME TypeOK, DeliverEvent \/ ClientInterrupts \/ ClientSilent \/ CtrlTraps
  PROVE  TypeOK'
<1>1. CASE DeliverEvent \/ ClientInterrupts \/ ClientSilent
  BY <1>1 DEF DeliverEvent, ClientInterrupts, ClientSilent, TypeOK,
              dbgVars, ctrlVars, guestVars
<1>2. CASE CtrlTraps
  <2>1. /\ dr7' \in Dr7
        /\ brk' \in [insn : BOOLEAN, on : BOOLEAN, dis : BOOLEAN, rf : BOOLEAN]
        /\ bitmap' \in BOOLEAN
        /\ traps' \in [on : BOOLEAN, up : BOOLEAN]
    <3>1. [slot |-> brkDr7, gd |-> FALSE] \in Dr7
      BY DEF TypeOK, Dr7
    <3>2. TrapsEnable \/ TrapsDisable \/ UNCHANGED <<dr7, brk, bitmap, traps>>
      BY <1>2 DEF CtrlTraps
    <3>3. dr7' \in Dr7
      BY <3>1, <3>2, InitialValues DEF TrapsEnable, TrapsDisable, TypeOK
    <3>4. brk' \in [insn : BOOLEAN, on : BOOLEAN, dis : BOOLEAN, rf : BOOLEAN]
      BY <3>2 DEF TrapsEnable, TrapsDisable, TypeOK
    <3>5. bitmap' \in BOOLEAN
      BY <3>2, Zenon DEF TrapsEnable, TrapsDisable, TypeOK
    <3>6. traps' \in [on : BOOLEAN, up : BOOLEAN]
      <4>1. /\ traps \in [on : BOOLEAN, up : BOOLEAN]
            /\ [on |-> TRUE, up |-> FALSE] \in [on : BOOLEAN, up : BOOLEAN]
            /\ [on |-> FALSE, up |-> FALSE] \in [on : BOOLEAN, up : BOOLEAN]
        BY DEF TypeOK
      <4> QED
        BY <3>2, <4>1, Zenon DEF TrapsEnable, TrapsDisable
    <3> QED
      BY <3>3, <3>4, <3>5, <3>6
  <2> QED
    BY <1>2, <2>1 DEF CtrlTraps, TypeOK
<1> QED
  BY <1>1, <1>2

LEMMA GuestRegsTyped ==
  ASSUME TypeOK,
         \/ OtherExit
         \/ \E s \in Space : SwitchCr3(s)
         \/ \E n \in Slot, a \in GuestAddr : GuestDr(n, a)
         \/ \E c \in GuestDr7 : GuestWritesDr7(c)
  PROVE  TypeOK'
<1>1. CASE OtherExit
  BY <1>1 DEF OtherExit, TypeOK, dbgVars, ctrlVars, guestVars
<1>2. CASE \E s \in Space : SwitchCr3(s)
  BY <1>2 DEF SwitchCr3, TypeOK, dbgVars, ctrlVars
<1>3. ASSUME NEW n \in Slot, NEW a \in GuestAddr, GuestDr(n, a)
      PROVE  TypeOK'
  <2>1. own' \in [dr : [Slot -> Addr], dr7 : Dr7]
    BY <1>3 DEF GuestDr, TypeOK
  <2>2. /\ shadow' \in [dr : [Slot -> Addr], dr7 : Dr7]
        /\ dr' \in [Slot -> Addr]
        /\ run' \in {"guest", "exit", "stub", "traps"}
    <3>1. [shadow EXCEPT !.dr[n] = a] \in [dr : [Slot -> Addr], dr7 : Dr7]
      BY DEF TypeOK
    <3>2. [dr EXCEPT ![n] = a] \in [Slot -> Addr]
      BY DEF TypeOK
    <3> QED
      BY <1>3, <3>1, <3>2 DEF GuestDr, TypeOK
  <2> QED
    BY <1>3, <2>1, <2>2 DEF GuestDr, TypeOK, dbgVars, ctrlVars
<1>4. ASSUME NEW c \in GuestDr7, GuestWritesDr7(c)
      PROVE  TypeOK'
  <2> DEFINE regs == IF gdb THEN shadow.dr7 ELSE dr7
             val  == IF regs.gd THEN [regs EXCEPT !.gd = FALSE] ELSE c
  <2>1. c \in Dr7 /\ regs \in Dr7
    BY DEF TypeOK
  <2>2. val \in Dr7
    BY <2>1 DEF Dr7
  <2>3. own' \in [dr : [Slot -> Addr], dr7 : Dr7]
    <3>1. [own.dr7 EXCEPT !.gd = FALSE] \in Dr7
      BY DEF TypeOK, Dr7
    <3>2. own' = [own EXCEPT !.dr7 = IF regs.gd THEN [own.dr7 EXCEPT !.gd = FALSE] ELSE c]
      BY <1>4 DEF GuestWritesDr7
    <3> QED
      BY <2>1, <3>1, <3>2 DEF TypeOK
  <2>4. /\ shadow' = [shadow EXCEPT !.dr7 = val] \/ shadow' = shadow
        /\ dr7' = val \/ dr7' = dr7
        /\ run' \in {"exit", run}
    BY <1>4 DEF GuestWritesDr7
  <2>5. shadow' \in [dr : [Slot -> Addr], dr7 : Dr7] /\ dr7' \in Dr7
    BY <2>2, <2>4 DEF TypeOK
  <2> QED
    BY <1>4, <2>3, <2>4, <2>5 DEF GuestWritesDr7, TypeOK, dbgVars, ctrlVars
<1> QED
  BY <1>1, <1>2, <1>3, <1>4

LEMMA HardEventTyped ==
  ASSUME TypeOK, NEW hits \in SUBSET Slot, HardEvent(hits)
  PROVE  /\ event' \in BOOLEAN
         /\ evt' \in [type : EvtType, addr : Addr, slot : Slot, member : {"soft", "hard"}]
<1>1. PICK n \in Reported(hits) :
        evt' = [type |-> brkDr7[n], addr |-> dr[n], slot |-> n, member |-> "hard"]
  BY DEF HardEvent
<1>2. n \in Slot /\ brkDr7[n] \in Cond /\ dr[n] \in Addr
  BY <1>1 DEF Reported, Enabled, TypeOK, Ctl
<1> QED
  BY <1>1, <1>2 DEF HardEvent, EvtType

LEMMA GuestTrapsTyped ==
  ASSUME TypeOK, NEW a \in Addr, NEW D,
         \/ ExecBreak \/ SoftBreak
         \/ Instruction(a, D) \/ DataBreak(a, D) \/ StepTrap(a, D) \/ GuestDb(a, D)
  PROVE  TypeOK'
<1> DEFINE Rf == [rflags EXCEPT ![cr3].rf = FALSE]
           Rip == [rip EXCEPT ![cr3] = a]
<1>1. /\ Rf \in [Space -> [tf : BOOLEAN, rf : BOOLEAN]]
      /\ Rip \in [Space -> Addr]
  BY FlagsTyped DEF TypeOK
<1>2. ExecHits \subseteq Slot /\ DataHits(D) \subseteq Slot /\ Here \in Addr
  BY DEF ExecHits, DataHits, Here, TypeOK
<1> HIDE DEF Rf, Rip
<1>3. CASE ExecBreak
  BY <1>2, <1>3, HardEventTyped DEF ExecBreak, TypeOK, guestVars
<1>4. CASE SoftBreak
  <2>1. rflags' = Rf
    BY <1>4 DEF SoftBreak, Rf
  <2>2. evt' \in [type : EvtType, addr : Addr, slot : Slot, member : {"soft", "hard"}]
    BY <1>2, <1>4 DEF SoftBreak, TypeOK, EvtType
  <2>3. /\ UNCHANGED <<brk, brkDr7, dr, dr7, shadow, db, bitmap, step, rs, filter,
                        traps, gdb, cr3, rip, own, touched>>
        /\ event' \in BOOLEAN /\ run' \in {"guest", "exit", "stub", "traps"}
    BY <1>4 DEF SoftBreak
  <2> QED
    BY <1>1, <2>1, <2>2, <2>3 DEF TypeOK
<1>5. CASE Instruction(a, D)
  BY <1>1, <1>2, <1>5 DEF Instruction, Executes, TypeOK, Rf, Rip, dbgVars, ctrlVars
<1>6. CASE DataBreak(a, D)
  <2>1. rflags' = Rf /\ rip' = Rip /\ touched' \subseteq Slot
    BY <1>2, <1>6 DEF DataBreak, Executes, Rf, Rip
  <2>2. HardEvent(DataHits(D))
    BY <1>6 DEF DataBreak
  <2>3. /\ event' \in BOOLEAN
        /\ evt' \in [type : EvtType, addr : Addr, slot : Slot, member : {"soft", "hard"}]
    BY <1>2, <2>2, HardEventTyped
  <2>4. /\ UNCHANGED <<brk, brkDr7, dr, dr7, shadow, db, bitmap, step, rs, filter,
                        traps, gdb, cr3, own>>
        /\ run' \in {"guest", "exit", "stub", "traps"}
    BY <1>6 DEF DataBreak
  <2> QED
    BY <1>1, <2>1, <2>3, <2>4 DEF TypeOK
<1>7. CASE StepTrap(a, D)
  <2>1. rip' = Rip /\ touched' \subseteq Slot
    BY <1>2, <1>7 DEF StepTrap, Executes, Rip
  <2>2. rflags' \in [Space -> [tf : BOOLEAN, rf : BOOLEAN]]
    <3>1. CASE rflags' = Rf
      BY <1>1, <3>1
    <3>2. CASE rflags' = [rflags EXCEPT ![cr3] = [tf |-> step.tf, rf |-> FALSE]]
      <4>1. step.tf \in BOOLEAN
        BY DEF TypeOK
      <4> DEFINE x == step.tf
      <4>2. [rflags EXCEPT ![cr3] = [tf |-> x, rf |-> FALSE]]
              \in [Space -> [tf : BOOLEAN, rf : BOOLEAN]]
        <5> HIDE DEF x
        <5> QED
          BY <4>1, FlagsTyped DEF x
      <4> QED
        BY <3>2, <4>2
    <3> QED
      BY <1>7, <3>1, <3>2 DEF StepTrap, StepEnds, Rf
  <2>3. /\ step' \in [on : BOOLEAN, tf : BOOLEAN, rq : {"USR", "VMM"}]
        /\ traps' \in [on : BOOLEAN, up : BOOLEAN]
    BY <1>7 DEF StepTrap, StepEnds, TypeOK
  <2>4. rs' \in BOOLEAN /\ db' \in BOOLEAN /\ event' \in BOOLEAN
    BY <1>7 DEF StepTrap, StepEnds, TypeOK
  <2>5. evt' \in [type : EvtType, addr : Addr, slot : Slot, member : {"soft", "hard"}]
    BY <1>7 DEF StepTrap, TypeOK, EvtType
  <2> QED
    BY <1>1, <1>7, <2>1, <2>2, <2>3, <2>4, <2>5 DEF StepTrap, TypeOK
<1>8. CASE GuestDb(a, D)
  <2>1. rflags' = Rf /\ rip' = Rip /\ touched' \subseteq Slot
    BY <1>2, <1>8 DEF GuestDb, Rf, Rip
  <2>2. /\ UNCHANGED <<brk, brkDr7, dr, dr7, shadow, db, bitmap, step, rs, evt, filter,
                        traps, event, gdb, cr3, own>>
        /\ run' \in {"guest", "exit", "stub", "traps"}
    BY <1>8 DEF GuestDb, dbgVars, ctrlVars
  <2> QED
    BY <1>1, <2>1, <2>2 DEF TypeOK
<1> QED
  BY <1>3, <1>4, <1>5, <1>6, <1>7, <1>8

LEMMA NextTyped == TypeOK /\ [Next]_vars => TypeOK'
<1> SUFFICES ASSUME TypeOK, [Next]_vars PROVE TypeOK'
  OBVIOUS
<1>1. CASE ClientCommand
  BY <1>1, SetHardTyped, DelHardTyped, ResumeTyped, FilterTyped, SessionTyped
  DEF ClientCommand
<1>2. CASE Controller
  BY <1>2, ControllerTyped, SessionTyped DEF Controller
<1>3. CASE Guest
  <2>1. CASE ExecBreak \/ SoftBreak
    BY <2>1, GuestTrapsTyped, InitialValues
  <2>2. ASSUME NEW a \in Addr, NEW D \in Accesses,
               Instruction(a, D) \/ DataBreak(a, D) \/ StepTrap(a, D) \/ GuestDb(a, D)
        PROVE  TypeOK'
    BY <2>2, GuestTrapsTyped
  <2> QED
    BY <1>3, <2>1, <2>2, GuestRegsTyped DEF Guest
<1>4. CASE UNCHANGED vars
  BY <1>4 DEF vars, dbgVars, ctrlVars, guestVars, TypeOK
<1> QED
  BY <1>1, <1>2, <1>3, <1>4 DEF Next

\* Every variable of the hardware breakpoint engine keeps its type: in
\* particular dbg.evt.hard is always the index of a debug register.
THEOREM HardTypeCorrect == Spec => []TypeOK
<1> QED
  BY InitTyped, NextTyped, PTL DEF Spec

-----------------------------------------------------------------------------
(***************************************************************************)
(* The invariant.                                                          *)
(***************************************************************************)
LEMMA InitHardInv == Init => HardInv
<1> SUFFICES ASSUME Init PROVE HardInv
  OBVIOUS
<1>1. ~HasAny(brkDr7) /\ ~HasInsn(brkDr7) /\ ~HasAny(dr7.slot)
  BY DEF Init, HasAny, HasInsn, AllOff, Dr7Off
<1> QED
  BY <1>1 DEF Init, HardInv, HardStatus, IdleWhenDetached, StopsAtOnce, NoUpdateDue,
              OffIsBare, ArmedIsMasked, GuestAddrsKept

\* Breakpoint registers: on <=> some register enabled, insn <=> some for
\* execution, through each change of brk.dr7.
LEMMA SetHardInv ==
  ASSUME TypeOK, HardInv, NEW a \in Addr, NEW t \in Cond, SetHard(a, t)
  PROVE  HardInv'
<1> USE DEF SetHard
<1>1. gdb /\ gdb' /\ run = "stub" /\ run' = "stub"
  BY DEF HardInv, StopsAtOnce
<1>2. PICK n \in FirstFree :
        /\ brkDr7' = [m \in Slot \cup {n} |-> IF m = n THEN t ELSE brkDr7[m]]
        /\ dr' = [dr EXCEPT ![n] = a]
  OBVIOUS
<1>3. n \in Slot /\ Slot \cup {n} = Slot /\ brkDr7[n] = "off" /\ t # "off"
  BY <1>2 DEF FirstFree, Enabled, Cond
<1>4. HasAny(brkDr7') /\ (HasInsn(brkDr7') <=> t = "X" \/ HasInsn(brkDr7))
  BY <1>2, <1>3 DEF HasAny, HasInsn
<1>5. brk'.on /\ (brk'.insn <=> t = "X" \/ brk.insn) /\ db'
  BY DEF TypeOK
<1>6. HardStatus'
  BY <1>1, <1>4, <1>5 DEF HardStatus, HardInv
<1>7. GuestAddrsKept'
  BY <1>1 DEF HardInv, GuestAddrsKept
<1>8. IdleWhenDetached' /\ StopsAtOnce' /\ NoUpdateDue'
  BY <1>1 DEF HardInv, IdleWhenDetached, StopsAtOnce, NoUpdateDue
<1>9. traps'.on = traps.on /\ (traps.up => traps'.up)
  BY DEF TypeOK
<1>10. OffIsBare'
  BY <1>1, <1>9 DEF HardInv, OffIsBare
<1>11. ArmedIsMasked'
  BY <1>1, <1>5, <1>9 DEF HardInv, ArmedIsMasked
<1> QED
  BY <1>6, <1>7, <1>8, <1>10, <1>11 DEF HardInv

LEMMA DelHardInv ==
  ASSUME TypeOK, HardInv, NEW a \in Addr, NEW t \in Cond, DelHard(a, t)
  PROVE  HardInv'
<1> DEFINE left == [n \in Slot |-> IF brkDr7[n] = t /\ dr[n] = a THEN "off" ELSE brkDr7[n]]
           release == ~HasAny(left) /\ ~step.on /\ db
<1>0. /\ brkDr7' = left
      /\ brk' = Remaining(left)
      /\ db' = (db /\ ~release)
      /\ traps' = [traps EXCEPT !.up = release \/ @]
      /\ UNCHANGED <<step, bitmap, event, gdb, cr3, own, filter, dr, dr7, shadow, run>>
  BY DEF DelHard
<1>1. gdb /\ gdb' /\ run = "stub" /\ run' = "stub"
  BY DEF HardInv, StopsAtOnce, DelHard
<1>2. (HasAny(left) => HasAny(brkDr7)) /\ (HasInsn(left) => HasInsn(brkDr7) /\ HasAny(left))
  BY DEF HasAny, HasInsn, TypeOK
<1> HIDE DEF left
<1>3. (brk'.on <=> HasAny(left)) /\ (brk'.insn <=> HasInsn(left))
  <2>1. brk.on <=> HasAny(brkDr7)
    BY <1>1 DEF HardInv, HardStatus
  <2>2. brk.insn <=> HasInsn(brkDr7)
    BY <1>1 DEF HardInv, HardStatus
  <2>3. brk'.on = (HasAny(left) /\ brk.on) /\ brk'.insn = (HasInsn(left) /\ brk.insn)
    BY <1>0 DEF Remaining, TypeOK
  <2> QED
    BY <1>2, <2>1, <2>2, <2>3, Zenon
<1>4. db' <=> brk'.on \/ step'.on
  <2>1. db <=> brk.on \/ step.on
    BY <1>1 DEF HardInv, HardStatus
  <2>2. brk.on <=> HasAny(brkDr7)
    BY <1>1 DEF HardInv, HardStatus
  <2> QED
    BY <1>0, <1>2, <1>3, <2>1, <2>2, Zenon
<1>5. HardStatus'
  BY <1>0, <1>1, <1>3, <1>4 DEF HardStatus
<1>6. traps'.on = traps.on /\ traps'.up = (release \/ traps.up)
  BY <1>0 DEF TypeOK
<1>7. GuestAddrsKept' /\ IdleWhenDetached' /\ StopsAtOnce' /\ NoUpdateDue'
  BY <1>0, <1>1 DEF HardInv, GuestAddrsKept, IdleWhenDetached, StopsAtOnce, NoUpdateDue
<1>8. OffIsBare'
  BY <1>0, <1>1, <1>6 DEF HardInv, OffIsBare
<1>9. ArmedIsMasked'
  BY <1>0, <1>1, <1>6, Zenon DEF HardInv, ArmedIsMasked
<1> QED
  BY <1>5, <1>7, <1>8, <1>9 DEF HardInv

LEMMA ResumeInv ==
  ASSUME TypeOK, HardInv, NEW stp \in BOOLEAN, Resume(stp)
  PROVE  HardInv'
<1>1. gdb /\ gdb' /\ run = "stub" /\ run' = "traps" /\ ~event /\ ~event'
  BY DEF HardInv, StopsAtOnce, Resume
<1>2. PICK arm \in BOOLEAN :
        /\ step'.on = (arm \/ step.on)
        /\ db' = (arm \/ db)
        /\ traps' = [traps EXCEPT !.up = arm \/ @]
  <2> DEFINE lift == evt.type = "SOFT_BRK" /\ evt.addr \in SoftAt
             arm == (stp \/ lift) /\ ~step.on
  <2>1. /\ step' = IF arm THEN [on |-> TRUE, tf |-> rflags[cr3].tf,
                               rq |-> IF stp THEN "USR" ELSE "VMM"]
                         ELSE step
        /\ db' = (arm \/ db)
        /\ traps' = [traps EXCEPT !.up = arm \/ @]
    BY DEF Resume
  <2>2. step'.on = (arm \/ step.on)
    <3>1. step.on \in BOOLEAN
      BY DEF TypeOK
    <3>2. CASE arm
      BY <2>1, <3>2
    <3>3. CASE ~arm
      BY <2>1, <3>1, <3>3
    <3> QED
      BY <3>2, <3>3
  <2> QED
    BY <2>1, <2>2
<1>3. UNCHANGED <<brk, brkDr7, bitmap, gdb, cr3, own, filter, dr, dr7, shadow>>
  BY DEF Resume
<1>4. traps'.on = traps.on /\ traps'.up = (arm \/ traps.up)
  BY <1>2 DEF TypeOK
<1>5. HardStatus'
  BY <1>1, <1>2, <1>3, Zenon DEF HardInv, HardStatus
<1>6. GuestAddrsKept' /\ IdleWhenDetached' /\ StopsAtOnce' /\ NoUpdateDue'
  BY <1>1, <1>3 DEF HardInv, GuestAddrsKept, IdleWhenDetached, StopsAtOnce, NoUpdateDue
<1>7. OffIsBare'
  BY <1>1, <1>3, <1>4 DEF HardInv, OffIsBare
<1>8. ArmedIsMasked'
  BY <1>1, <1>2, <1>3, <1>4, Zenon DEF HardInv, ArmedIsMasked
<1> QED
  BY <1>5, <1>6, <1>7, <1>8 DEF HardInv

LEMMA FilterInv ==
  ASSUME TypeOK, HardInv, (\E s \in Space : SetFilter(s)) \/ DelFilter \/ KeepFilter
  PROVE  HardInv'
<1>1. /\ run = "stub" /\ run' = "stub"
      /\ UNCHANGED <<brk, brkDr7, db, step, bitmap, event, gdb, own, dr, dr7, shadow>>
  BY DEF SetFilter, DelFilter, KeepFilter, dbgVars, guestVars
<1>2. traps'.on = traps.on /\ (traps.up => traps'.up)
  BY DEF SetFilter, DelFilter, KeepFilter, TypeOK
<1> QED
  BY <1>1, <1>2 DEF HardInv, HardStatus, IdleWhenDetached, StopsAtOnce, NoUpdateDue,
                    OffIsBare, ArmedIsMasked, GuestAddrsKept

LEMMA SessionInv ==
  ASSUME TypeOK, HardInv, Attach \/ Detach
  PROVE  HardInv'
<1>1. CASE Attach
  <2>1. /\ ~gdb /\ gdb' /\ run = "exit" /\ run' = "stub"
        /\ brkDr7' = AllOff /\ dr7' = Dr7Off /\ shadow'.dr = dr
        /\ UNCHANGED <<brk, db, step, bitmap, event, own, traps>>
    BY <1>1 DEF Attach, guestVars
  <2>2. ~HasAny(brkDr7') /\ ~HasInsn(brkDr7') /\ ~HasAny(dr7'.slot)
    BY <2>1 DEF HasAny, HasInsn, AllOff, Dr7Off
  <2>3. ~event
    BY <2>1 DEF HardInv, StopsAtOnce
  <2>4. ~brk.on /\ ~brk.insn /\ ~step.on /\ ~db
    BY <2>1 DEF HardInv, IdleWhenDetached
  <2> QED
    BY <2>1, <2>2, <2>3, <2>4
    DEF HardInv, HardStatus, IdleWhenDetached, StopsAtOnce, NoUpdateDue,
        OffIsBare, ArmedIsMasked, GuestAddrsKept
<1>2. CASE Detach
  <2>1. /\ ~gdb' /\ run = "stub" /\ run' = "traps"
        /\ ~brk'.on /\ ~brk'.insn /\ ~step'.on /\ ~db'
        /\ dr' = shadow.dr
        /\ UNCHANGED <<event, own>>
    BY <1>2 DEF Detach, ReleaseDr
  <2>2. traps'.up
    BY <1>2 DEF Detach, TypeOK
  <2>3. gdb /\ ~event
    BY <2>1 DEF HardInv, StopsAtOnce
  <2> QED
    BY <2>1, <2>2, <2>3
    DEF HardInv, HardStatus, IdleWhenDetached, StopsAtOnce, NoUpdateDue,
        OffIsBare, ArmedIsMasked, GuestAddrsKept
<1> QED
  BY <1>1, <1>2

LEMMA ControllerInv ==
  ASSUME TypeOK, HardInv, DeliverEvent \/ ClientInterrupts \/ ClientSilent \/ CtrlTraps
  PROVE  HardInv'
<1>1. CASE DeliverEvent \/ ClientInterrupts \/ ClientSilent
  <2>1. /\ run = "exit" /\ run' \in {"stub", "traps"}
        /\ UNCHANGED <<brk, brkDr7, db, step, bitmap, gdb, own, dr, dr7, shadow,
                       traps, filter, cr3>>
    BY <1>1 DEF DeliverEvent, ClientInterrupts, ClientSilent, dbgVars, ctrlVars, guestVars
  <2>2. ~event' /\ (run' = "stub" => gdb)
    BY <1>1 DEF DeliverEvent, ClientInterrupts, ClientSilent, ctrlVars, HardInv, StopsAtOnce
  <2> QED
    BY <2>1, <2>2
    DEF HardInv, HardStatus, IdleWhenDetached, StopsAtOnce, NoUpdateDue,
        OffIsBare, ArmedIsMasked, GuestAddrsKept
<1>2. CASE CtrlTraps
  <2>1. /\ run = "traps" /\ run' = "guest"
        /\ UNCHANGED <<brkDr7, db, step, gdb, own, dr, shadow, filter, cr3, event>>
    BY <1>2 DEF CtrlTraps
  <2>2. Active' = Active /\ ~event
    BY <2>1 DEF Active, HardInv, StopsAtOnce
  <2>3. brk'.on = brk.on /\ brk'.insn = brk.insn
    BY <1>2 DEF CtrlTraps, TrapsEnable, TrapsDisable, TypeOK
  <2>4. HardStatus' /\ IdleWhenDetached' /\ StopsAtOnce' /\ GuestAddrsKept'
    BY <2>1, <2>2, <2>3
    DEF HardInv, HardStatus, IdleWhenDetached, StopsAtOnce, GuestAddrsKept
  <2>5. CASE Active /\ (~traps.on \/ traps.up)
    <3>1. /\ dr7' = [slot |-> brkDr7, gd |-> FALSE]
          /\ bitmap' = db
          /\ traps' = [on |-> TRUE, up |-> FALSE]
      BY <1>2, <2>5 DEF CtrlTraps, TrapsEnable
    <3>2. gdb /\ HasAny(brkDr7) => db
      BY DEF HardInv, HardStatus
    <3>3. NoUpdateDue' /\ OffIsBare' /\ ArmedIsMasked'
      BY <2>1, <2>2, <2>5, <3>1, <3>2 DEF NoUpdateDue, OffIsBare, ArmedIsMasked
    <3> QED
      BY <2>4, <3>3 DEF HardInv
  <2>6. CASE ~Active /\ (traps.on \/ traps.up)
    <3>1. dr7' = Dr7Off /\ bitmap' = FALSE /\ traps' = [on |-> FALSE, up |-> FALSE]
      BY <1>2, <2>6 DEF CtrlTraps, TrapsDisable
    <3>2. ~HasAny(dr7'.slot)
      BY <3>1 DEF HasAny, Dr7Off, AllOff
    <3>3. NoUpdateDue' /\ OffIsBare' /\ ArmedIsMasked'
      BY <3>1, <3>2 DEF NoUpdateDue, OffIsBare, ArmedIsMasked
    <3> QED
      BY <2>4, <3>3 DEF HardInv
  <2>7. CASE /\ ~(Active /\ (~traps.on \/ traps.up))
             /\ ~(~Active /\ (traps.on \/ traps.up))
    <3>1. UNCHANGED <<dr7, brk, bitmap, traps>>
      BY <1>2, <2>7 DEF CtrlTraps
    <3>2. ~traps.up /\ (~Active => ~traps.on)
      BY <2>7
    <3>3. NoUpdateDue' /\ OffIsBare' /\ ArmedIsMasked'
      BY <2>1, <2>2, <3>1, <3>2 DEF HardInv, NoUpdateDue, OffIsBare, ArmedIsMasked
    <3> QED
      BY <2>4, <3>3 DEF HardInv
  <2> QED
    BY <2>5, <2>6, <2>7
<1> QED
  BY <1>1, <1>2

\* Guest steps that leave the debugger alone.
LEMMA GuestQuietInv ==
  ASSUME TypeOK, HardInv, NEW a, NEW D,
         \/ OtherExit
         \/ \E s \in Space : SwitchCr3(s)
         \/ Instruction(a, D) \/ GuestDb(a, D)
  PROVE  HardInv'
<1>1. /\ run = "guest" /\ run' \in {"guest", "exit"}
      /\ UNCHANGED <<brk, brkDr7, db, step, bitmap, event, gdb, own, dr, dr7, shadow,
                     traps, filter>>
      /\ run' = "guest" => cr3' = cr3
  BY DEF OtherExit, SwitchCr3, Instruction, Executes, GuestDb, dbgVars, ctrlVars, guestVars
<1>2. ~event
  BY <1>1 DEF HardInv, StopsAtOnce
<1> QED
  BY <1>1, <1>2
  DEF HardInv, HardStatus, IdleWhenDetached, StopsAtOnce, NoUpdateDue,
      OffIsBare, ArmedIsMasked, GuestAddrsKept, Active

LEMMA GuestRegsInv ==
  ASSUME TypeOK, HardInv,
         \/ \E n \in Slot, a \in GuestAddr : GuestDr(n, a)
         \/ \E c \in GuestDr7 : GuestWritesDr7(c)
  PROVE  HardInv'
<1>1. /\ run = "guest" /\ run' \in {"guest", "exit"}
      /\ UNCHANGED <<brk, brkDr7, db, step, bitmap, event, gdb, traps, filter, cr3>>
      /\ gdb => dr7' = dr7
  BY DEF GuestDr, GuestWritesDr7, dbgVars, ctrlVars
<1>2. ~event
  BY <1>1 DEF HardInv, StopsAtOnce
<1>3. GuestAddrsKept'
  <2>1. ASSUME NEW n \in Slot, NEW a \in GuestAddr, GuestDr(n, a)
        PROVE  GuestAddrsKept'
    BY <2>1 DEF GuestDr, HardInv, GuestAddrsKept, TypeOK, ctrlVars
  <2>2. ASSUME NEW c \in GuestDr7, GuestWritesDr7(c)
        PROVE  GuestAddrsKept'
    <3>1. own'.dr = own.dr /\ shadow'.dr = shadow.dr /\ dr' = dr /\ gdb' = gdb
      BY <2>2 DEF GuestWritesDr7, TypeOK, ctrlVars
    <3> QED
      BY <3>1 DEF HardInv, GuestAddrsKept
  <2> QED
    BY <2>1, <2>2
<1> QED
  BY <1>1, <1>2, <1>3
  DEF HardInv, HardStatus, IdleWhenDetached, StopsAtOnce, NoUpdateDue,
      OffIsBare, ArmedIsMasked, Active

\* Guest steps that the debugger takes: they need an intercepted #DB, which
\* only a debugged process with a client has.
LEMMA GuestStopsInv ==
  ASSUME TypeOK, HardInv, NEW a, NEW D,
         ExecBreak \/ SoftBreak \/ DataBreak(a, D) \/ StepTrap(a, D)
  PROVE  HardInv'
<1>1. /\ run = "guest" /\ run' = "exit"
      /\ UNCHANGED <<brk, brkDr7, bitmap, gdb, own, dr, dr7, shadow, filter, cr3>>
  BY DEF ExecBreak, SoftBreak, DataBreak, StepTrap, Executes, guestVars
<1>2. gdb /\ Active
  <2>1. CASE SoftBreak
    BY <2>1 DEF SoftBreak, SoftHere
  <2>2. CASE ExecBreak \/ DataBreak(a, D) \/ StepTrap(a, D)
    <3>1. bitmap /\ db
      BY <2>2 DEF ExecBreak, DataBreak, StepTrap, HardEvent
    <3> QED
      BY <1>1, <3>1 DEF HardInv, IdleWhenDetached, OffIsBare
  <2> QED
    BY <2>1, <2>2
<1>3. Active' = Active
  BY <1>1 DEF Active
<1>4. CASE ExecBreak \/ SoftBreak \/ DataBreak(a, D)
  <2>1. UNCHANGED <<db, step, traps>>
    BY <1>4 DEF ExecBreak, SoftBreak, DataBreak
  <2> QED
    BY <1>1, <1>2, <1>3, <2>1
    DEF HardInv, HardStatus, IdleWhenDetached, StopsAtOnce, NoUpdateDue,
        OffIsBare, ArmedIsMasked, GuestAddrsKept
<1>5. CASE StepTrap(a, D)
  <2>1. CASE UNCHANGED <<db, step, traps>>
    BY <1>1, <1>2, <1>3, <2>1
    DEF HardInv, HardStatus, IdleWhenDetached, StopsAtOnce, NoUpdateDue,
        OffIsBare, ArmedIsMasked, GuestAddrsKept
  <2>2. CASE StepEnds
    <3>1. ~step'.on /\ traps'.up /\ db' = brk.on
      BY <2>2 DEF StepEnds, TypeOK
    <3>2. HardStatus'
      BY <1>1, <3>1 DEF HardInv, HardStatus
    <3> QED
      BY <1>1, <1>2, <1>3, <3>1, <3>2
      DEF HardInv, IdleWhenDetached, StopsAtOnce, NoUpdateDue,
          OffIsBare, ArmedIsMasked, GuestAddrsKept
  <2> QED
    BY <1>5, <2>1, <2>2 DEF StepTrap
<1> QED
  BY <1>4, <1>5

LEMMA NextHardInv == TypeOK /\ HardInv /\ [Next]_vars => HardInv'
<1> SUFFICES ASSUME TypeOK, HardInv, [Next]_vars PROVE HardInv'
  OBVIOUS
<1>1. CASE ClientCommand
  BY <1>1, SetHardInv, DelHardInv, ResumeInv, FilterInv, SessionInv DEF ClientCommand
<1>2. CASE Controller
  BY <1>2, ControllerInv, SessionInv DEF Controller
<1>3. CASE Guest
  <2>1. ASSUME NEW a \in Addr, NEW D \in Accesses,
               Instruction(a, D) \/ DataBreak(a, D) \/ StepTrap(a, D) \/ GuestDb(a, D)
        PROVE  HardInv'
    BY <2>1, GuestQuietInv, GuestStopsInv
  <2>2. CASE ExecBreak \/ SoftBreak
    BY <2>2, GuestStopsInv
  <2>3. CASE OtherExit \/ \E s \in Space : SwitchCr3(s)
    BY <2>3, GuestQuietInv
  <2> QED
    BY <1>3, <2>1, <2>2, <2>3, GuestRegsInv DEF Guest
<1>4. CASE UNCHANGED vars
  BY <1>4 DEF vars, dbgVars, ctrlVars, guestVars, HardInv, HardStatus, IdleWhenDetached,
              StopsAtOnce, NoUpdateDue, OffIsBare, ArmedIsMasked, GuestAddrsKept, Active
<1> QED
  BY <1>1, <1>2, <1>3, <1>4 DEF Next

\* The invariant that relates brk.dr7, the status bits, the traps and the
\* guest's shadowed registers holds in every reachable state.
THEOREM HardSafe == Spec => []HardInv
<1>1. Init => TypeOK /\ HardInv
  BY InitTyped, InitHardInv
<1>2. TypeOK /\ HardInv /\ [Next]_vars => TypeOK' /\ HardInv'
  BY NextTyped, NextHardInv
<1> QED
  BY <1>1, <1>2, PTL DEF Spec

\* No process but the filtered one meets a hardware breakpoint, however the
\* client and the guest interleave (dbg_hard_brk_disarm).
THEOREM OthersNeverArmed == Spec => []OthersUnarmed
<1>1. HardInv => OthersUnarmed
  BY DEF HardInv, OffIsBare, OthersUnarmed
<1> QED
  BY <1>1, HardSafe, PTL

\* Every breakpoint the processor holds has its #DB taken by the VMM.
THEOREM ArmedAlwaysIntercepted == Spec => []ArmedIntercepted
<1>1. HardInv => ArmedIntercepted
  BY DEF HardInv, ArmedIsMasked, NoUpdateDue, ArmedIntercepted
<1> QED
  BY <1>1, HardSafe, PTL
=============================================================================
