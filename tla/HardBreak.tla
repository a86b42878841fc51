------------------------------- MODULE HardBreak -------------------------------
(***************************************************************************)
(* Hardware breakpoints and the debug registers they are made of           *)
(* (vmm/src/control/{dbg_hard,dbg_hard_brk,dbg_evt,dbg}.c, core/dr.c,      *)
(* vmx/vmx_exit_dr.c), with what they share with the rest of the debugger: *)
(* the step engine, the traps switched with the process and the record of  *)
(* the last debug event.                                                   *)
(*                                                                         *)
(* While a client is attached the guest's debug registers are shadowed and *)
(* the processor holds the debugger's.  dr7 is copied from brk.dr7 by      *)
(* ctrl_traps() only, so what the client set and what the processor has    *)
(* can differ.                                                             *)
(*                                                                         *)
(* Software breakpoints are those of module Debugger; here they are a set  *)
(* of addresses, which the client sets again when a change of filter drops *)
(* them, and the flag of the one being stepped over.                       *)
(* The length of a watched region and dr6, whose bits are read in the exit *)
(* that sets them and cleaned before the guest runs, are left out.         *)
(***************************************************************************)
EXTENDS Naturals, FiniteSets

CONSTANTS
  Space,            \* address spaces
  Addr,             \* linear addresses, of code and of data
  DBG_HARD_BRK_NR,  \* number of debug address registers
  SoftAt,           \* where a software breakpoint is set
  GuestAddr,        \* what the guest itself writes to dr0 .. dr3
  GuestDr7          \* what the guest itself writes to dr7

ASSUME HardBreakAssumption ==
  /\ Space # {}
  /\ Addr # {}
  /\ DBG_HARD_BRK_NR \in Nat \ {0}
  /\ SoftAt \subseteq Addr
  /\ GuestAddr \subseteq Addr

Slot == 0 .. DBG_HARD_BRK_NR - 1
Cond == {"X", "W"}
Ctl  == Cond \cup {"off"}
Dr7  == [slot : [Slot -> Ctl], gd : BOOLEAN]

ASSUME GuestDr7Assumption == GuestDr7 \subseteq Dr7

VARIABLES
  brk,     \* dbg.hard.brk.sts: insn, on, dis, saved rf
  brkDr7,  \* dbg.hard.brk.dr7, of which each slot's condition
  dr,      \* the processor's dr0 .. dr3
  dr7,     \* the guest's dr7, as the processor has it
  shadow,  \* vm.dr_shadow: dr0 .. dr3 and dr7
  db,      \* dbg.excp holds #DB
  bitmap,  \* the processor's exception bitmap holds #DB
  step,    \* dbg.hard.stp.sts
  rs,      \* dbg.soft.sts.rs: a soft breakpoint is being stepped over
  evt,     \* dbg.evt: type, and which member of its union was written last
  filter,  \* the cr3 filter
  traps,   \* ctrl.sts
  event,   \* a ctrl event is pending
  gdb,     \* the stub is enabled, hence mov dr intercepted
  run,
  cr3, rip, rflags, \* the guest: current address space, rip and flags of each
  own,     \* history: what the guest last wrote to its debug registers
  touched  \* history: registers set off by the data of the last instruction

dbgVars   == <<brk, brkDr7, db, step, rs, evt>>
ctrlVars  == <<filter, traps, bitmap, event, gdb>>
guestVars == <<cr3, rip, rflags, own, touched>>
vars == <<dbgVars, ctrlVars, guestVars, dr, dr7, shadow, run>>

EvtType == Cond \cup {"NONE", "SOFT_BRK", "HARD_SSTEP"}

TypeOK ==
  /\ brk \in [insn : BOOLEAN, on : BOOLEAN, dis : BOOLEAN, rf : BOOLEAN]
  /\ brkDr7 \in [Slot -> Ctl]
  /\ dr \in [Slot -> Addr]
  /\ dr7 \in Dr7
  /\ shadow \in [dr : [Slot -> Addr], dr7 : Dr7]
  /\ db \in BOOLEAN /\ bitmap \in BOOLEAN
  /\ step \in [on : BOOLEAN, tf : BOOLEAN, rq : {"USR", "VMM"}]
  /\ rs \in BOOLEAN
  /\ evt \in [type : EvtType, addr : Addr, slot : Slot, member : {"soft", "hard"}]
  /\ filter \in [on : BOOLEAN, cr3 : Space, keep : BOOLEAN]
  /\ traps \in [on : BOOLEAN, up : BOOLEAN]
  /\ event \in BOOLEAN /\ gdb \in BOOLEAN
  /\ run \in {"guest", "exit", "stub", "traps"}
  /\ cr3 \in Space
  /\ rip \in [Space -> Addr]
  /\ rflags \in [Space -> [tf : BOOLEAN, rf : BOOLEAN]]
  /\ own \in [dr : [Slot -> Addr], dr7 : Dr7]
  /\ touched \subseteq Slot

Addr0   == CHOOSE a \in Addr : TRUE
Space0  == CHOOSE s \in Space : TRUE
AllOff  == [n \in Slot |-> "off"]
Dr7Off  == [slot |-> AllOff, gd |-> FALSE]
Regs0   == [dr |-> [n \in Slot |-> Addr0], dr7 |-> Dr7Off]

Init ==
  /\ brk = [insn |-> FALSE, on |-> FALSE, dis |-> FALSE, rf |-> FALSE]
  /\ brkDr7 = AllOff
  /\ dr = Regs0.dr
  /\ dr7 = Dr7Off
  /\ shadow = Regs0
  /\ db = FALSE
  /\ bitmap = FALSE
  /\ step = [on |-> FALSE, tf |-> FALSE, rq |-> "USR"]
  /\ rs = FALSE
  /\ evt = [type |-> "NONE", addr |-> Addr0, slot |-> 0, member |-> "soft"]
  /\ filter = [on |-> FALSE, cr3 |-> Space0, keep |-> FALSE]
  /\ traps = [on |-> FALSE, up |-> FALSE]
  /\ event = FALSE
  /\ gdb = FALSE
  /\ run = "exit"
  /\ cr3 = Space0
  /\ rip = [s \in Space |-> Addr0]
  /\ rflags = [s \in Space |-> [tf |-> FALSE, rf |-> FALSE]]
  /\ own = Regs0
  /\ touched = {}

Active == filter.on => cr3 = filter.cr3

Enabled(n) == brkDr7[n] # "off"
HasInsn(ctl) == \E n \in Slot : ctl[n] = "X"
HasAny(ctl)  == \E n \in Slot : ctl[n] # "off"

-----------------------------------------------------------------------------
(***************************************************************************)
(* The client's commands.                                                  *)
(***************************************************************************)


FirstFree == {n \in Slot : ~Enabled(n) /\ \A m \in Slot : m < n => Enabled(m)}

(***************************************************************************)
(* Z1, Z2 and Z4 => dbg_hard_brk_set: the first free register is taken.    *)
(* The first execution breakpoint saves rflags.rf and clears it.           *)
(* dbg_hard_protect asks for a traps update only when #DB was not yet      *)
(* intercepted.                                                            *)
(***************************************************************************)
SetHard(a, t) ==
  /\ run = "stub"
  /\ \E n \in FirstFree :
       /\ brkDr7' = [m \in Slot \cup {n} |-> IF m = n THEN t ELSE brkDr7[m]]
       /\ dr' = [dr EXCEPT ![n] = a]
  /\ LET first == t = "X" /\ ~brk.insn
     IN  /\ brk' = [brk EXCEPT !.on = TRUE, !.insn = first \/ @,
                               !.rf = IF first THEN rflags[cr3].rf ELSE @]
         /\ rflags' = IF first THEN [rflags EXCEPT ![cr3].rf = FALSE] ELSE rflags
  /\ db' = TRUE
  /\ traps' = [traps EXCEPT !.up = ~db \/ @]
  /\ UNCHANGED <<step, rs, evt, filter, bitmap, event, gdb, cr3, rip, own, touched,
                 dr7, shadow, run>>


\* what dbg_hard_brk_del makes of the status: more_x and more
Remaining(left) ==
  [brk EXCEPT !.insn = HasInsn(left) /\ @, !.on = HasAny(left) /\ @]

\* z1, z2 and z4 => dbg_hard_brk_del: every register that matches is freed.
\* Without an execution breakpoint left the saved rf is given back, and
\* without any left #DB is released unless a step needs it.
DelHard(a, t) ==
  LET left == [n \in Slot |-> IF brkDr7[n] = t /\ dr[n] = a THEN "off" ELSE brkDr7[n]]
  IN  /\ run = "stub"
      /\ brkDr7' = left
      /\ brk' = Remaining(left)
      /\ rflags' = IF HasInsn(left) THEN rflags
                   ELSE [rflags EXCEPT ![cr3].rf = brk.rf]
      /\ LET release == ~HasAny(left) /\ ~step.on /\ db
         IN  /\ db' = (db /\ ~release)
             /\ traps' = [traps EXCEPT !.up = release \/ @]
      /\ UNCHANGED <<step, rs, evt, filter, bitmap, event, gdb, cr3, rip, own, touched,
                     dr, dr7, shadow, run>>

\* The soft breakpoints are reset each time a filter is removed.
SetFilter(s) ==
  /\ run = "stub"
  /\ filter' = [on |-> TRUE, cr3 |-> s, keep |-> ~filter.on /\ filter.keep]
  /\ rs' = (rs /\ ~filter.on)
  /\ traps' = [traps EXCEPT !.up = TRUE]
  /\ UNCHANGED <<brk, brkDr7, db, step, evt, bitmap, event, gdb, guestVars,
                 dr, dr7, shadow, run>>

DelFilter ==
  /\ run = "stub"
  /\ filter' = [filter EXCEPT !.on = FALSE, !.keep = FALSE]
  /\ rs' = FALSE
  /\ traps' = [traps EXCEPT !.up = TRUE]
  /\ UNCHANGED <<brk, brkDr7, db, step, evt, bitmap, event, gdb, guestVars,
                 dr, dr7, shadow, run>>

KeepFilter ==
  /\ run = "stub"
  /\ filter.on
  /\ filter' = [filter EXCEPT !.keep = TRUE]
  /\ UNCHANGED <<dbgVars, traps, bitmap, event, gdb, guestVars,
                 dr, dr7, shadow, run>>

\* c and s => dbg_resume.  Over an execution breakpoint the guest goes on
\* with rflags.rf; over a soft one, with its byte put back and a step.
Resume(stp) ==
  LET over == evt.type = "X" /\ Enabled(evt.slot)
      lift == evt.type = "SOFT_BRK" /\ evt.addr \in SoftAt
      arm  == (stp \/ lift) /\ ~step.on
  IN  /\ run = "stub"
      /\ rs' = (lift \/ rs)
      /\ step' = IF arm THEN [on |-> TRUE, tf |-> rflags[cr3].tf,
                              rq |-> IF stp THEN "USR" ELSE "VMM"]
                        ELSE step
      /\ rflags' = [rflags EXCEPT ![cr3].tf = arm \/ @, ![cr3].rf = over \/ @]
      /\ db' = (arm \/ db)
      /\ traps' = [traps EXCEPT !.up = arm \/ @]
      /\ run' = "traps"
      /\ UNCHANGED <<brk, brkDr7, evt, filter, bitmap, event, gdb, cr3, rip, own, touched,
                     dr, dr7, shadow>>

(***************************************************************************)
(* The first '+' => gdb_enable, dbg_hard_protect_dr: the guest's registers *)
(* are shadowed, dr7 and brk.dr7 cleaned, mov dr denied.                   *)
(***************************************************************************)
Attach ==
  /\ run = "exit"
  /\ ~(event /\ Active)
  /\ ~gdb
  /\ gdb' = TRUE
  /\ shadow' = [dr |-> dr, dr7 |-> dr7]
  /\ brkDr7' = AllOff
  /\ dr7' = Dr7Off
  /\ run' = "stub"
  /\ UNCHANGED <<brk, db, step, rs, evt, filter, traps, bitmap, event,
                 guestVars, dr>>

ReleaseDr_OnlyDr7 ==       \* mutant: the address registers are forgotten
  dr' = dr /\ dr7' = shadow.dr7

\* dbg_hard_release_dr
ReleaseDr == dr' = shadow.dr /\ dr7' = shadow.dr7

\* D and k => gdb_disable: filters, soft breakpoints, hardware breakpoints
\* and step are reset and the guest has its registers back.  brk.dr7 stays.
Detach ==
  /\ run = "stub"
  /\ filter' = IF filter.keep THEN filter
               ELSE [filter EXCEPT !.on = FALSE, !.keep = FALSE]
  /\ bitmap' = db
  /\ rs' = FALSE
  /\ brk' = [insn |-> FALSE, on |-> FALSE, dis |-> FALSE, rf |-> FALSE]
  /\ step' = [on |-> FALSE, tf |-> FALSE, rq |-> "USR"]
  /\ rflags' = IF step.on THEN [rflags EXCEPT ![cr3].tf = step.tf] ELSE rflags
  /\ db' = FALSE
  /\ ReleaseDr
  /\ traps' = [traps EXCEPT !.up = TRUE]
  /\ gdb' = FALSE
  /\ run' = "traps"
  /\ UNCHANGED <<brkDr7, evt, event, cr3, rip, own, touched, shadow>>

-----------------------------------------------------------------------------
(***************************************************************************)
(* controller()                                                            *)
(***************************************************************************)
DeliverEvent ==
  /\ run = "exit"
  /\ event /\ Active
  /\ event' = FALSE
  /\ run' = "stub"
  /\ UNCHANGED <<dbgVars, filter, traps, bitmap, gdb, guestVars, dr, dr7, shadow>>

ClientInterrupts ==
  /\ run = "exit"
  /\ ~(event /\ Active)
  /\ gdb
  /\ run' = "stub"
  /\ UNCHANGED <<dbgVars, ctrlVars, guestVars, dr, dr7, shadow>>

ClientSilent ==
  /\ run = "exit"
  /\ ~(event /\ Active)
  /\ run' = "traps"
  /\ UNCHANGED <<dbgVars, ctrlVars, guestVars, dr, dr7, shadow>>

\* dbg_hard_brk_rearm and dbg_hard_brk_disarm, within ctrl_traps_enable and
\* ctrl_traps_disable
TrapsEnable ==
  /\ dr7' = [slot |-> brkDr7, gd |-> FALSE]
  /\ brk' = [brk EXCEPT !.dis = FALSE]
  /\ bitmap' = db
  /\ traps' = [on |-> TRUE, up |-> FALSE]

TrapsDisable_StaysArmed ==   \* mutant: dr7 is not cleaned
  /\ dr7' = dr7
  /\ brk' = [brk EXCEPT !.dis = TRUE]
  /\ bitmap' = FALSE
  /\ traps' = [on |-> FALSE, up |-> FALSE]

TrapsDisable ==
  /\ dr7' = Dr7Off
  /\ brk' = [brk EXCEPT !.dis = TRUE]
  /\ bitmap' = FALSE
  /\ traps' = [on |-> FALSE, up |-> FALSE]

CtrlTraps ==
  /\ run = "traps"
  /\ CASE Active  /\ (~traps.on \/ traps.up) -> TrapsEnable
       [] ~Active /\ (traps.on \/ traps.up)  -> TrapsDisable
       [] OTHER -> UNCHANGED <<dr7, brk, bitmap, traps>>
  /\ run' = "guest"
  /\ touched' = {}
  /\ UNCHANGED <<brkDr7, db, step, rs, evt, filter, event, gdb,
                 cr3, rip, rflags, own, dr, shadow>>

-----------------------------------------------------------------------------
(***************************************************************************)
(* The guest.                                                              *)
(***************************************************************************)
OtherExit ==
  /\ run = "guest"
  /\ run' = "exit"
  /\ UNCHANGED <<dbgVars, ctrlVars, guestVars, dr, dr7, shadow>>

SwitchCr3(s) ==
  /\ run = "guest"
  /\ s # cr3
  /\ cr3' = s
  /\ run' = "exit"
  /\ UNCHANGED <<dbgVars, ctrlVars, rip, rflags, own, touched, dr, dr7, shadow>>

\* mov to dr0 .. dr3: denied and resolved on the shadow during a session.
GuestDr(n, a) ==
  /\ run = "guest"
  /\ own' = [own EXCEPT !.dr[n] = a]
  /\ IF gdb THEN /\ shadow' = [shadow EXCEPT !.dr[n] = a]
                 /\ run' = "exit"
                 /\ UNCHANGED dr
            ELSE /\ dr' = [dr EXCEPT ![n] = a]
                 /\ UNCHANGED <<shadow, run>>
  /\ UNCHANGED <<dbgVars, ctrlVars, cr3, rip, rflags, touched, dr7>>

\* mov to dr7, which general detect turns into a #DB for the guest, whether
\* the VMM or the processor finds it set.
GuestWritesDr7(c) ==
  LET regs == IF gdb THEN shadow.dr7 ELSE dr7
      val  == IF regs.gd THEN [regs EXCEPT !.gd = FALSE] ELSE c
  IN  /\ run = "guest"
      /\ own' = [own EXCEPT !.dr7 = IF regs.gd THEN [@ EXCEPT !.gd = FALSE] ELSE c]
      /\ IF gdb THEN /\ shadow' = [shadow EXCEPT !.dr7 = val]
                     /\ run' = "exit"
                     /\ UNCHANGED dr7
                ELSE /\ dr7' = val
                     /\ UNCHANGED <<shadow, run>>
      /\ UNCHANGED <<dbgVars, ctrlVars, cr3, rip, rflags, touched, dr>>

Here == rip[cr3]

\* the registers that an instruction here, or its access to d, sets off
ExecHits  == {n \in Slot : dr7.slot[n] = "X" /\ dr[n] = Here /\ ~rflags[cr3].rf}
DataHits(D) == {n \in Slot : dr7.slot[n] = "W" /\ dr[n] \in D}

SoftHere == gdb /\ Active /\ Here \in SoftAt /\ ~rs


\* dbg_hard_brk_event: the first raised register that is enabled
Reported(hits) ==
  {n \in hits : Enabled(n) /\ \A m \in hits : Enabled(m) => n <= m}

HardEvent(hits) ==
  /\ db /\ brk.on
  /\ \E n \in Reported(hits) :
       evt' = [type |-> brkDr7[n], addr |-> dr[n], slot |-> n, member |-> "hard"]
  /\ event' = TRUE

\* A fault before the instruction at an execution breakpoint.
ExecBreak ==
  /\ run = "guest"
  /\ bitmap
  /\ HardEvent(ExecHits)
  /\ run' = "exit"
  /\ UNCHANGED <<brk, brkDr7, db, step, rs, filter, traps, bitmap, gdb,
                 guestVars, dr, dr7, shadow>>

\* The byte of a soft breakpoint is reached: dbg_soft_event.
SoftBreak ==
  /\ run = "guest"
  /\ ~(bitmap /\ ExecHits # {})
  /\ SoftHere
  /\ evt' = [evt EXCEPT !.type = "SOFT_BRK", !.addr = Here, !.member = "soft"]
  /\ event' = TRUE
  /\ rflags' = [rflags EXCEPT ![cr3].rf = FALSE]
  /\ run' = "exit"
  /\ UNCHANGED <<brk, brkDr7, db, step, rs, filter, traps, bitmap, gdb,
                 cr3, rip, own, touched, dr, dr7, shadow>>

\* The instruction here is executed, with accesses to the addresses D.
Executes(a, D) ==
  /\ run = "guest"
  /\ ~(bitmap /\ ExecHits # {})
  /\ ~SoftHere
  /\ rip' = [rip EXCEPT ![cr3] = a]
  /\ touched' = DataHits(D)

Stepping == rflags[cr3].tf

Instruction(a, D) ==
  /\ Executes(a, D)
  /\ bitmap => ~Stepping /\ DataHits(D) = {}
  /\ rflags' = [rflags EXCEPT ![cr3].rf = FALSE]
  /\ UNCHANGED <<dbgVars, ctrlVars, cr3, own, dr, dr7, shadow, run>>

\* A trap after the instruction at a data breakpoint.
DataBreak(a, D) ==
  /\ Executes(a, D)
  /\ bitmap /\ ~Stepping
  /\ HardEvent(DataHits(D))
  /\ rflags' = [rflags EXCEPT ![cr3].rf = FALSE]
  /\ run' = "exit"
  /\ UNCHANGED <<brk, brkDr7, db, step, rs, filter, traps, bitmap, gdb,
                 cr3, own, dr, dr7, shadow>>

\* The step ends: dbg_hard_stp_disable, and #DB is released unless hardware
\* breakpoints need it.

StepEnds ==
  /\ step' = [step EXCEPT !.on = FALSE]
  /\ rflags' = [rflags EXCEPT ![cr3] = [tf |-> step.tf, rf |-> FALSE]]
  /\ db' = brk.on
  /\ traps' = [traps EXCEPT !.up = TRUE]

(***************************************************************************)
(* dr6.bs => dbg_hard_stp_event, whatever data breakpoint was met as well. *)
(* dbg_soft_resume_post writes through dbg.evt.soft; when the union was    *)
(* since written as dbg.evt.hard the write may succeed or not, and in the  *)
(* latter case nothing more is done.                                       *)
(***************************************************************************)
StepTrap(a, D) ==
  /\ Executes(a, D)
  /\ bitmap /\ db /\ Stepping /\ step.on
  /\ \/ /\ rs' = FALSE
        /\ StepEnds
        /\ event' = (step.rq = "USR" \/ event)
        /\ evt' = IF step.rq = "USR"
                    THEN [evt EXCEPT !.type = "HARD_SSTEP", !.addr = a]
                    ELSE evt
     \/ /\ rs /\ evt.member = "hard"
        /\ rflags' = [rflags EXCEPT ![cr3].rf = FALSE]
        /\ UNCHANGED <<rs, step, db, traps, event, evt>>
  /\ run' = "exit"
  /\ UNCHANGED <<brk, brkDr7, filter, bitmap, gdb, cr3, own, dr, dr7, shadow>>

\* An intercepted #DB that nothing of the debugger explains is injected to
\* the guest, whose handler goes on anywhere.
GuestDb(a, D) ==
  /\ run = "guest"
  /\ bitmap
  /\ \/ ExecHits # {} /\ ~(db /\ brk.on /\ Reported(ExecHits) # {})
     \/ /\ ExecHits = {} /\ ~SoftHere
        /\ IF Stepping THEN ~(db /\ step.on)
                       ELSE /\ DataHits(D) # {}
                            /\ ~(db /\ brk.on /\ Reported(DataHits(D)) # {})
  /\ rip' = [rip EXCEPT ![cr3] = a]
  /\ touched' = IF ExecHits = {} THEN DataHits(D) ELSE {}
  /\ rflags' = [rflags EXCEPT ![cr3].rf = FALSE]
  /\ run' = "exit"
  /\ UNCHANGED <<dbgVars, ctrlVars, cr3, own, dr, dr7, shadow>>

-----------------------------------------------------------------------------
ClientCommand ==
  \/ \E a \in Addr, t \in Cond : SetHard(a, t) \/ DelHard(a, t)
  \/ \E s \in Space : SetFilter(s)
  \/ DelFilter \/ KeepFilter
  \/ Resume(TRUE) \/ Resume(FALSE)
  \/ Detach

Controller == Attach \/ DeliverEvent \/ ClientInterrupts \/ ClientSilent \/ CtrlTraps

Accesses == {{}} \cup {{d} : d \in Addr}

Guest ==
  \/ OtherExit
  \/ \E s \in Space : SwitchCr3(s)
  \/ \E n \in Slot, a \in GuestAddr : GuestDr(n, a)
  \/ \E c \in GuestDr7 : GuestWritesDr7(c)
  \/ ExecBreak \/ SoftBreak
  \/ \E a \in Addr, D \in Accesses :
       Instruction(a, D) \/ DataBreak(a, D) \/ StepTrap(a, D) \/ GuestDb(a, D)

Next == ClientCommand \/ Controller \/ Guest

Spec == Init /\ [][Next]_vars

-----------------------------------------------------------------------------
(***************************************************************************)
(* Properties.                                                             *)
(***************************************************************************)

\* The status bits say what brk.dr7 holds, and #DB is asked for exactly as
\* long as a breakpoint or a step needs it: dbg_hard_brk_del recomputes two
\* flags in one pass, and the breakpoints and the step release #DB for one
\* another (dbg_hard_protect, dbg_hard_release).
HardStatus ==
  gdb => /\ brk.insn <=> HasInsn(brkDr7)
         /\ brk.on <=> HasAny(brkDr7)
         /\ db <=> brk.on \/ step.on

\* The guest reads in dr0 .. dr3 what it wrote there, across sessions that
\* use the same registers (dbg_hard_protect_dr, dbg_hard_release_dr).
GuestAddrsKept == (IF gdb THEN shadow.dr ELSE dr) = own.dr

\* With a cr3 filter, no other process meets a hardware breakpoint
\* (ctrl_traps_disable, dbg_hard_brk_disarm).
OthersUnarmed == run = "guest" /\ gdb /\ ~Active => ~HasAny(dr7.slot) /\ ~bitmap

\* A breakpoint the processor has is one whose #DB the VMM takes.
ArmedIntercepted == run = "guest" /\ gdb /\ HasAny(dr7.slot) => bitmap /\ db

-----------------------------------------------------------------------------
(***************************************************************************)
(* What makes the properties above inductive.                              *)
(***************************************************************************)
IdleWhenDetached == ~gdb => ~brk.on /\ ~brk.insn /\ ~step.on /\ ~db

\* A stop is delivered in the exit that raised it, to a client that is there.
StopsAtOnce ==
  /\ run = "stub" => gdb /\ ~event
  /\ run = "exit" /\ event => gdb /\ Active
  /\ run \in {"traps", "guest"} => ~event

NoUpdateDue == run = "guest" => ~traps.up

\* Traps that are off, with no update due, left neither mask nor breakpoint.
OffIsBare ==
  (~traps.on /\ ~traps.up) \/ (run = "guest" /\ ~Active) =>
     ~bitmap /\ (gdb => ~HasAny(dr7.slot))

ArmedIsMasked == gdb /\ HasAny(dr7.slot) => bitmap /\ (db \/ traps.up)

\* The stub's answers depend on all of this between a stop and the next: the
\* guest's addresses stay safe because commands reach the debug registers
\* only after dbg_hard_protect_dr, and nobody else's process is trapped
\* because what is recorded as off is off.
HardInv ==
  /\ HardStatus
  /\ IdleWhenDetached
  /\ StopsAtOnce
  /\ NoUpdateDue
  /\ OffIsBare
  /\ ArmedIsMasked
  /\ GuestAddrsKept
=============================================================================
