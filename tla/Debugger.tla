------------------------------- MODULE Debugger -------------------------------
(***************************************************************************)
(* The debugging core of the VMM: software breakpoints, the single-step    *)
(* engine, the cr3 filter and the traps that are switched on and off with  *)
(* the running process (vmm/src/control/{ctrl,dbg,dbg_evt,dbg_soft,        *)
(* dbg_hard_stp}.c), driven by a remote client (gdbstub_cmd.c) and by the  *)
(* guest.                                                                  *)
(*                                                                         *)
(* There is one physical core.  `run' says where it is:                    *)
(*   "guest"  the guest runs;                                              *)
(*   "exit"   a vm-exit was resolved, controller() is entered;             *)
(*   "stub"   gdb_recv_packet() loops with the stub locked;                *)
(*   "traps"  ctrl_traps() is about to run, then the guest resumes;        *)
(*   "failed" the VMM gave up (vmx_vmexit_failure).                        *)
(*                                                                         *)
(* Guest code is user code of one thread per address space; `code' is what *)
(* the guest itself put in memory and exists for the properties only, as   *)
(* does `seen'.                                                            *)
(***************************************************************************)
EXTENDS SoftBreak, FiniteSets

CONSTANTS
  Code0,     \* the guest's code when the debugger starts
  Pageable,  \* cells whose page the guest may unmap and map again
  Refused,   \* cells the VMM cannot access (VM_FAIL)
  Writable,  \* cells the guest itself may modify
  Habits     \* what the client may do beyond disciplined use of the stub

ASSUME DebuggerAssumption ==
  /\ Code0 \in [Cell -> Byte]
  /\ Pageable \subseteq Cell /\ Refused \subseteq Cell /\ Writable \subseteq Cell
  /\ Pageable \cap Refused = {}
  /\ Habits \subseteq {"duplicate", "deleteResumed"}

VARIABLES
  bp,       \* dbg.soft.list
  cnt,      \* dbg.soft.cnt
  soft,     \* dbg.soft.sts: on, rs ("resume over bp"), dis ("disarm all bp")
  evt,      \* dbg.evt: type, addr and the slot of the last soft breakpoint
  excp,     \* dbg.excp: exceptions the debugger wants to intercept
  step,     \* dbg.hard.stp.sts: on, saved tf, requestor
  filter,   \* ctrl cr3 filter: on, stored_cr3, keep
  traps,    \* ctrl.sts: traps enabled, and in need of an update
  bitmap,   \* the processor's exception bitmap
  event,    \* a ctrl event handler is pending
  gdb,      \* the gdb stub is enabled
  run,
  cr3, rip, tf,  \* the guest: current address space, rip and rflags.tf of each
  mem, acc,      \* guest bytes, and what a VMM access to each returns
  code, seen     \* history: the guest's own bytes; the client has been
                 \* stopped in that address space at its current rip

ctrlVars  == <<evt, excp, step, filter, traps, bitmap, event, gdb>>
tableVars == <<bp, cnt, soft>>
guestVars == <<cr3, rip, tf, acc, code, seen>>
vars == <<tableVars, ctrlVars, guestVars, mem, run>>

Requestor == {"USR", "VMM"}

TypeOK ==
  /\ bp \in [Slot -> Bp]
  /\ cnt \in 0 .. DBG_SOFT_NR
  /\ soft \in [on : BOOLEAN, rs : BOOLEAN, dis : BOOLEAN]
  /\ evt \in [type : {"NONE", "SOFT_BRK", "HARD_SSTEP"}, addr : Addr, slot : Slot]
  /\ excp \subseteq {"BP", "DB", "GP"}
  /\ step \in [on : BOOLEAN, tf : BOOLEAN, rq : Requestor]
  /\ filter \in [on : BOOLEAN, cr3 : Space, keep : BOOLEAN]
  /\ traps \in [on : BOOLEAN, up : BOOLEAN]
  /\ bitmap \subseteq {"BP", "DB", "GP"}
  /\ event \in BOOLEAN
  /\ gdb \in BOOLEAN
  /\ run \in {"guest", "exit", "stub", "traps", "failed"}
  /\ cr3 \in Space
  /\ rip \in [Space -> Addr]
  /\ tf \in [Space -> BOOLEAN]
  /\ mem \in [Cell -> Byte]
  /\ acc \in [Cell -> AccessCode]
  /\ code \in [Cell -> Byte]
  /\ seen \in [Space -> BOOLEAN]

NoEvent == [type |-> "NONE", addr |-> FreeBp.addr, slot |-> 0]

Init ==
  /\ bp = [i \in Slot |-> FreeBp]
  /\ cnt = 0
  /\ soft = [on |-> FALSE, rs |-> FALSE, dis |-> FALSE]
  /\ evt = NoEvent
  /\ excp = {}
  /\ step = [on |-> FALSE, tf |-> FALSE, rq |-> "USR"]
  /\ filter = [on |-> FALSE, cr3 |-> FreeBp.cr3, keep |-> FALSE]
  /\ traps = [on |-> FALSE, up |-> FALSE]
  /\ bitmap = {}
  /\ event = FALSE
  /\ gdb = FALSE
  /\ run = "guest"
  /\ cr3 = FreeBp.cr3
  /\ rip = [s \in Space |-> FreeBp.addr]
  /\ tf = [s \in Space |-> FALSE]
  /\ mem = Code0
  /\ acc = [c \in Cell |-> IF c \in Refused THEN "FAIL" ELSE "DONE"]
  /\ code = Code0
  /\ seen = [s \in Space |-> FALSE]

\* __ctrl_active_cr3_check: the filter is off or lets the running process by.
Active == filter.on => cr3 = filter.cr3

\* *info->vmm.ctrl.active_cr3
ActiveCr3 == IF filter.on THEN filter.cr3 ELSE cr3

-----------------------------------------------------------------------------
(***************************************************************************)
(* The client's commands, received while the stub is locked.               *)
(***************************************************************************)


\* Z0 => dbg_soft_set.  A disciplined client does not set an address twice.
SetBreak(a) ==
  LET rc    == acc[<<ActiveCr3, a>>]
      found == Installed(bp, a, rc) # {}
  IN  /\ run = "stub"
      /\ "duplicate" \in Habits \/ \A i \in Slot : bp[i].on => bp[i].addr # a
      /\ cnt # DBG_SOFT_NR
      /\ bp'  = Claim(bp, mem, a, ActiveCr3, rc)
      /\ cnt' = IF found THEN cnt + 1 ELSE cnt
      /\ soft' = [soft EXCEPT !.on = found \/ @]
      /\ excp' = IF found THEN excp \cup {"BP"} ELSE excp
      /\ traps' = [traps EXCEPT !.up = found \/ @]
      /\ UNCHANGED <<evt, step, filter, bitmap, event, gdb, guestVars, mem, run>>

\* z0 => dbg_soft_del.  A disciplined client does not delete the breakpoint
\* that an unfinished step is passing over.
DelBreak(a) ==
  /\ run = "stub"
  /\ "deleteResumed" \in Habits \/ ~(soft.rs /\ evt.addr = a)
  /\ cnt # 0
  /\ \E i \in FirstAt(bp, a) :
       /\ bp'  = Release(bp, acc, {i})
       /\ mem' = SavedBytes(bp, mem, Restorable(bp, acc, {i}))
  /\ cnt' = cnt - 1
  /\ soft' = [soft EXCEPT !.on = @ /\ cnt' # 0]
  /\ excp' = IF cnt' = 0 THEN excp \ {"BP"} ELSE excp
  /\ traps' = [traps EXCEPT !.up = @ \/ cnt' = 0]
  /\ UNCHANGED <<evt, step, filter, bitmap, event, gdb, guestVars, run>>

SoftReset_KeepsBytes ==    \* mutant: the guest's bytes are not restored
  /\ bp' = Release(bp, acc, ActiveSet(bp))
  /\ mem' = mem
  /\ cnt' = 0
  /\ soft' = [on |-> FALSE, rs |-> FALSE, dis |-> FALSE]


SoftReset_KeepsRs ==       \* mutant: the status is not cleared
  /\ bp' = Release(bp, acc, ActiveSet(bp))
  /\ mem' = SavedBytes(bp, mem, Restorable(bp, acc, ActiveSet(bp)))
  /\ cnt' = 0
  /\ soft' = [soft EXCEPT !.on = FALSE]

\* dbg_soft_reset, on the table and the memory
SoftReset ==
  /\ bp' = Release(bp, acc, ActiveSet(bp))
  /\ mem' = SavedBytes(bp, mem, Restorable(bp, acc, ActiveSet(bp)))
  /\ cnt' = 0
  /\ soft' = [on |-> FALSE, rs |-> FALSE, dis |-> FALSE]

\* ctrl_active_cr3_enable: a filter already on is first disabled.
SetFilter(s) ==
  /\ run = "stub"
  /\ IF filter.on
       THEN SoftReset /\ excp' = excp \ {"BP"}
       ELSE UNCHANGED <<tableVars, mem, excp>>
  /\ filter' = [on |-> TRUE, cr3 |-> s, keep |-> ~filter.on /\ filter.keep]
  /\ traps' = [traps EXCEPT !.up = TRUE]
  /\ UNCHANGED <<evt, step, bitmap, event, gdb, guestVars, run>>

\* ctrl_active_cr3_disable
DelFilter ==
  /\ run = "stub"
  /\ SoftReset
  /\ excp' = excp \ {"BP"}
  /\ filter' = [filter EXCEPT !.on = FALSE, !.keep = FALSE]
  /\ traps' = [traps EXCEPT !.up = TRUE]
  /\ UNCHANGED <<evt, step, bitmap, event, gdb, guestVars, run>>

\* gdb_vmm_keep_active_cr3
KeepFilter ==
  /\ run = "stub"
  /\ filter.on
  /\ filter' = [filter EXCEPT !.keep = TRUE]
  /\ UNCHANGED <<tableVars, evt, excp, step, traps, bitmap, event, gdb,
                 guestVars, mem, run>>


\* dbg_hard_stp_enable: the running process is stepped.
StepOn(rq) ==
  /\ step' = [on |-> TRUE, tf |-> tf[cr3], rq |-> rq]
  /\ tf' = [tf EXCEPT ![cr3] = TRUE]
  /\ excp' = excp \cup {"GP", "DB"}
  /\ traps' = [traps EXCEPT !.up = TRUE]

\* dbg_hard_stp_disable: the tf that was saved goes to the running process.
StepOff ==
  /\ step' = [step EXCEPT !.on = FALSE]
  /\ tf' = IF step.on THEN [tf EXCEPT ![cr3] = step.tf] ELSE tf

StepReset ==
  /\ step' = [on |-> FALSE, tf |-> FALSE, rq |-> "USR"]
  /\ tf' = IF step.on THEN [tf EXCEPT ![cr3] = step.tf] ELSE tf

(***************************************************************************)
(* D and k => gdb_disable: the filter goes unless it is to be kept, the    *)
(* user filters go (the bitmap is written at that point), then the soft    *)
(* breakpoints and the step.  The stub is unlocked.                        *)
(***************************************************************************)
Detach ==
  /\ run = "stub"
  /\ filter' = IF filter.keep THEN filter
               ELSE [filter EXCEPT !.on = FALSE, !.keep = FALSE]
  /\ bitmap' = IF filter.keep THEN excp ELSE excp \ {"BP"}
  /\ SoftReset
  /\ StepReset
  /\ excp' = {}
  /\ traps' = [traps EXCEPT !.up = TRUE]
  /\ gdb' = FALSE
  /\ run' = "traps"
  /\ UNCHANGED <<evt, event, cr3, rip, acc, code, seen>>

\* dbg_soft_resume: the last breakpoint raised is lifted when it is still
\* there.
Liftable ==
  /\ evt.type = "SOFT_BRK"
  /\ bp[evt.slot].on
  /\ bp[evt.slot].addr = evt.addr

\* c and s => dbg_resume.  A step already on keeps its requestor.
Resume(stp) ==
  LET here == Liftable
      rc   == IF here THEN acc[CellOf(bp[evt.slot])] ELSE "IGNORE"
      arm  == (stp \/ rc = "DONE") /\ ~step.on
  IN  /\ run = "stub"
      /\ rc \in {"DONE", "IGNORE"}
      /\ bp' = IF here THEN SetSt(bp, {evt.slot}, FALSE) ELSE bp
      /\ mem' = IF here THEN SavedBytes(bp, mem, {evt.slot}) ELSE mem
      /\ soft' = [soft EXCEPT !.rs = here \/ @]
      /\ IF arm
           THEN StepOn(IF stp THEN "USR" ELSE "VMM")
           ELSE UNCHANGED <<step, tf, excp, traps>>
      /\ run' = "traps"
      /\ UNCHANGED <<cnt, evt, filter, bitmap, event, gdb, cr3, rip, acc, code, seen>>

-----------------------------------------------------------------------------
(***************************************************************************)
(* controller(): the pending event, the stub, then the traps.              *)
(***************************************************************************)

\* ctrl_event with the gdb stub's handlers: report the stop and lock.
DeliverEvent ==
  /\ run = "exit"
  /\ event /\ Active
  /\ event' = FALSE
  /\ run' = "stub"
  /\ seen' = [seen EXCEPT ![cr3] = TRUE]
  /\ UNCHANGED <<tableVars, evt, excp, step, filter, traps, bitmap, gdb,
                 cr3, rip, tf, acc, code, mem>>

\* gdb_recv_packet finds the client's interrupt, or its first '+'.
ClientInterrupts ==
  /\ run = "exit"
  /\ ~(event /\ Active)
  /\ gdb' = TRUE
  /\ run' = "stub"
  /\ seen' = [seen EXCEPT ![cr3] = TRUE]
  /\ UNCHANGED <<tableVars, evt, excp, step, filter, traps, bitmap, event,
                 cr3, rip, tf, acc, code, mem>>

ClientSilent ==
  /\ run = "exit"
  /\ ~(event /\ Active)
  /\ run' = "traps"
  /\ UNCHANGED <<tableVars, ctrlVars, guestVars, mem>>



\* ctrl_traps_enable
TrapsEnable ==
  LET S == RearmSet(bp, soft.rs, evt.addr)
      W == Written(bp, acc, S)
  IN  /\ bp' = SetSt(bp, W, TRUE)
      /\ mem' = TrapBytes(bp, mem, W)
      /\ soft' = IF Failed(bp, acc, S) THEN soft ELSE [soft EXCEPT !.dis = FALSE]
      /\ bitmap' = excp
      /\ traps' = [on |-> TRUE, up |-> FALSE]


\* ctrl_traps_disable
TrapsDisable ==
  LET S == IF soft.dis THEN {} ELSE DisarmSet(bp)
      W == Written(bp, acc, S)
  IN  /\ bp' = SetSt(bp, W, FALSE)
      /\ mem' = SavedBytes(bp, mem, W)
      /\ soft' = IF Failed(bp, acc, S) THEN soft ELSE [soft EXCEPT !.dis = TRUE]
      /\ bitmap' = {}
      /\ traps' = [on |-> FALSE, up |-> FALSE]


CtrlTraps ==
  /\ run = "traps"
  /\ CASE Active  /\ (~traps.on \/ traps.up) -> TrapsEnable
       [] ~Active /\ (traps.on \/ traps.up)  -> TrapsDisable
       [] OTHER -> UNCHANGED <<bp, mem, soft, bitmap, traps>>
  /\ run' = "guest"
  /\ UNCHANGED <<cnt, evt, excp, step, filter, event, gdb, guestVars>>

-----------------------------------------------------------------------------
(***************************************************************************)
(* The guest.  It runs at its rip, which then moves to any address.        *)
(***************************************************************************)
Here == <<cr3, rip[cr3]>>

Moves(a) ==
  /\ rip' = [rip EXCEPT ![cr3] = a]
  /\ seen' = [seen EXCEPT ![cr3] = FALSE]

\* A vm-exit that concerns neither debugger nor cr3 (interrupts, I/O ...).
OtherExit ==
  /\ run = "guest"
  /\ run' = "exit"
  /\ UNCHANGED <<tableVars, ctrlVars, guestVars, mem>>

SwitchCr3_NoExit(s) ==     \* mutant: mov cr3 is not intercepted
  /\ run = "guest"
  /\ s # cr3
  /\ cr3' = s
  /\ UNCHANGED <<tableVars, ctrlVars, rip, tf, acc, code, seen, mem, run>>

\* mov cr3 always exits.
SwitchCr3(s) ==
  /\ run = "guest"
  /\ s # cr3
  /\ cr3' = s
  /\ run' = "exit"
  /\ UNCHANGED <<tableVars, ctrlVars, rip, tf, acc, code, seen, mem>>

\* #BP on a breakpoint of the table => dbg_evt_soft
Breakpoint ==
  /\ run = "guest"
  /\ acc[Here] = "DONE"
  /\ mem[Here] = BREAKPOINT_INSN
  /\ "BP" \in bitmap /\ "BP" \in excp /\ soft.on
  /\ \E i \in FirstAt(bp, rip[cr3]) :
       evt' = [type |-> "SOFT_BRK", addr |-> bp[i].addr, slot |-> i]
  /\ event' = TRUE
  /\ run' = "exit"
  /\ UNCHANGED <<tableVars, excp, step, filter, traps, bitmap, gdb, guestVars, mem>>

\* An int3 the VMM gives back to the guest, or never intercepts.
GuestInt3(a) ==
  /\ run = "guest"
  /\ acc[Here] = "DONE"
  /\ mem[Here] = BREAKPOINT_INSN
  /\ ~( /\ "BP" \in bitmap /\ "BP" \in excp /\ soft.on
        /\ FirstAt(bp, rip[cr3]) # {} )
  /\ Moves(a)
  /\ UNCHANGED <<tableVars, ctrlVars, cr3, tf, acc, code, mem, run>>

\* the processor raises #DB after the instruction and the VMM takes it
StepExits == tf[cr3] /\ "DB" \in bitmap /\ "DB" \in excp /\ step.on

Instruction(a) ==
  /\ run = "guest"
  /\ acc[Here] = "DONE"
  /\ mem[Here] # BREAKPOINT_INSN
  /\ ~StepExits
  /\ Moves(a)
  /\ UNCHANGED <<tableVars, ctrlVars, cr3, tf, acc, code, mem, run>>

(***************************************************************************)
(* One instruction with rflags.tf => dbg_hard_stp_event.  A breakpoint     *)
(* being stepped over is written back first, without looking at its slot's *)
(* status; when that fails the step stays on.                              *)
(***************************************************************************)
StepTrap(a) ==
  LET at   == CellOf(bp[evt.slot])
      rc   == IF soft.rs THEN acc[at] ELSE "DONE"
      post == soft.rs /\ rc = "DONE"
  IN  /\ run = "guest"
      /\ acc[Here] = "DONE"
      /\ mem[Here] # BREAKPOINT_INSN
      /\ StepExits
      /\ Moves(a)
      /\ bp' = IF post THEN SetSt(bp, {evt.slot}, TRUE) ELSE bp
      /\ mem' = IF post THEN TrapBytes(bp, mem, {evt.slot}) ELSE mem
      /\ soft' = [soft EXCEPT !.rs = @ /\ ~post]
      /\ IF rc = "DONE"
           THEN /\ StepOff
                /\ excp' = excp \ {"GP", "DB"}
                /\ traps' = [traps EXCEPT !.up = TRUE]
                /\ event' = (step.rq = "USR" \/ event)
                /\ evt' = IF step.rq = "USR"
                            THEN [evt EXCEPT !.type = "HARD_SSTEP", !.addr = a]
                            ELSE evt
           ELSE UNCHANGED <<step, tf, excp, traps, event, evt>>
      /\ run' = IF rc = "FAIL" THEN "failed" ELSE "exit"
      /\ UNCHANGED <<cnt, filter, bitmap, gdb, cr3, acc, code>>

\* The guest's kernel unmaps a page, or maps it again; a page read again
\* from its file has lost the bytes the VMM wrote to it.
PageOut(c) ==
  /\ run = "guest"
  /\ c \in Pageable /\ acc[c] = "DONE"
  /\ acc' = [acc EXCEPT ![c] = "PARTIAL"]
  /\ UNCHANGED <<tableVars, ctrlVars, cr3, rip, tf, code, seen, mem, run>>

PageIn(c) ==
  /\ run = "guest"
  /\ c \in Pageable /\ acc[c] = "PARTIAL"
  /\ acc' = [acc EXCEPT ![c] = "DONE"]
  /\ \E b \in {mem[c], code[c]} : mem' = [mem EXCEPT ![c] = b]
  /\ UNCHANGED <<tableVars, ctrlVars, cr3, rip, tf, code, seen, run>>

\* Self modifying code, or a program loaded over another.
GuestWrite(c, b) ==
  /\ run = "guest"
  /\ c \in Writable /\ acc[c] = "DONE"
  /\ mem' = [mem EXCEPT ![c] = b]
  /\ code' = [code EXCEPT ![c] = b]
  /\ UNCHANGED <<tableVars, ctrlVars, cr3, rip, tf, acc, seen, run>>

-----------------------------------------------------------------------------
ClientCommand ==
  \/ \E a \in Addr : SetBreak(a) \/ DelBreak(a)
  \/ \E s \in Space : SetFilter(s)
  \/ DelFilter \/ KeepFilter \/ Detach
  \/ Resume(TRUE) \/ Resume(FALSE)

Controller == DeliverEvent \/ ClientInterrupts \/ ClientSilent \/ CtrlTraps

Guest ==
  \/ OtherExit
  \/ \E s \in Space : SwitchCr3(s)
  \/ Breakpoint
  \/ \E a \in Addr : GuestInt3(a) \/ Instruction(a) \/ StepTrap(a)
  \/ \E c \in Cell : PageOut(c) \/ PageIn(c)
  \/ \E c \in Cell, b \in Byte : GuestWrite(c, b)

Next == ClientCommand \/ Controller \/ Guest

Spec == Init /\ [][Next]_vars

-----------------------------------------------------------------------------
(***************************************************************************)
(* Properties.                                                             *)
(***************************************************************************)
OwnedTrap(c) == \E i \in Slot : bp[i].on /\ bp[i].st /\ CellOf(bp[i]) = c

\* Every byte of guest code that differs from what the guest put there is
\* the trap byte of an active, installed breakpoint: nothing the client
\* does between two stops leaves a stray 0xcc behind (dbg_soft.c).
TrapBytesOwned == \A c \in Cell : mem[c] # code[c] => OwnedTrap(c)

\* The byte a breakpoint will put back is the guest's own (dbg_soft.h:47).
SavedByteIsCode == \A i \in Slot : bp[i].on => bp[i].byte = code[CellOf(bp[i])]

\* With a cr3 filter, another process never sees a trap byte: the traps are
\* taken away before it runs (ctrl_traps_disable, dbg_soft_disarm).
OthersUndisturbed == run = "guest" /\ ~Active => mem = code

\* Breakpoints are neither passed unnoticed nor given to the guest: when the
\* rip of the running process is on an active one, the trap byte is there or
\* the client has just been stopped at that very place; and a trap byte it
\* can reach is intercepted and resolves to a slot, so that the guest never
\* receives a #BP the VMM caused.
NoMissedBreak ==
  run = "guest" =>
    /\ Active => \A i \in Slot :
         bp[i].on /\ CellOf(bp[i]) = Here => mem[Here] = BREAKPOINT_INSN \/ seen[cr3]
    /\ \A a \in Addr :
         mem[<<cr3, a>>] # code[<<cr3, a>>] =>
           "BP" \in bitmap /\ "BP" \in excp /\ soft.on /\ FirstAt(bp, a) # {}

\* After a detach in any state of steps, resumes and breakpoints the guest
\* runs on its own code, with nothing intercepted and no process stepping
\* (gdb_disable, dbg_soft_reset, dbg_hard_stp_release).
DetachedClean ==
  ~gdb /\ run = "guest" => mem = code /\ bitmap = {} /\ \A s \in Space : ~tf[s]

\* Lifting a breakpoint is always bound to a step that puts it back, however
\* the client and the guest's paging get in between (dbg_soft_resume,
\* dbg_hard_stp_event).
LiftedIsStepping == soft.rs => step.on /\ evt.type = "SOFT_BRK"

\* While the guest runs, the traps are on exactly for the filtered process.
TrapsFollowProcess ==
  run = "guest" /\ (gdb \/ traps.on) =>
    /\ traps.on <=> Active
    /\ bitmap = IF traps.on THEN excp ELSE {}

-----------------------------------------------------------------------------
(***************************************************************************)
(* Inductive invariants, for a client that is disciplined and a guest      *)
(* whose code pages stay as they are.                                      *)
(***************************************************************************)
Disciplined == Habits = {} /\ Pageable = {} /\ Refused = {} /\ Writable = {}

AllAccessible == \A c \in Cell : acc[c] = "DONE"

OneSlotPerAddress ==
  \A i, j \in Slot : bp[i].on /\ bp[j].on /\ bp[i].addr = bp[j].addr => i = j

FreeSlotsBare == \A i \in Slot : bp[i].st => bp[i].on

ResumedSlotActive ==
  soft.rs => bp[evt.slot].on /\ bp[evt.slot].addr = evt.addr

\* What the table needs to remember for TrapBytesOwned to be inductive: an
\* address has one slot, a released slot holds no trap, and the slot that a
\* step will write back is still the one it was lifted from.
TableInv ==
  /\ AllAccessible
  /\ OneSlotPerAddress
  /\ FreeSlotsBare
  /\ ResumedSlotActive
  /\ SavedByteIsCode
  /\ TrapBytesOwned

NoneArmed == \A i \in Slot : ~bp[i].st

\* Why disarmed traps stay disarmed until ctrl_traps_enable: what records
\* that they are (soft.dis, or traps off with no update due) implies both
\* an empty table of installed traps and no exception intercepted, and the
\* step that could install one needs an intercepted exception.
FilterInv ==
  /\ soft.dis => NoneArmed /\ bitmap = {}
  /\ ~traps.on /\ ~traps.up => NoneArmed /\ bitmap = {}
  /\ run = "guest" /\ ~Active => NoneArmed /\ bitmap = {}

(***************************************************************************)
(* Inductive invariants that ask nothing of the client or of the guest.    *)
(***************************************************************************)

\* The exception bitmap is what the debugger wants unless an update is due,
\* and one is never due while the guest runs.
TrapInv ==
  /\ ~traps.up => bitmap = IF traps.on THEN excp ELSE {}
  /\ run = "guest" => ~traps.up /\ ((gdb \/ traps.on) => (traps.on <=> Active))

\* Nobody but an attached client owns breakpoints, steps and exceptions, and
\* an event is only pending on the way to the stub it is for.
DetachInv ==
  /\ ~gdb => excp = {} /\ ~step.on /\ ActiveSet(bp) = {}
  /\ run = "stub" => gdb
  /\ event => run = "exit" /\ gdb /\ Active

(***************************************************************************)
(* Inductive invariants for one process: a step belongs to the process     *)
(* that runs when it is asked for, and another one neither has the flag    *)
(* nor stops after the instruction it executes in its place.               *)
(***************************************************************************)
OneProcess == \A s, t \in Space : s = t

\* rflags.tf is set exactly while a step is on, and the one that the step
\* will give back is clear.
StepInv ==
  /\ step.on => ~step.tf /\ {"DB", "GP"} \subseteq excp
  /\ \A s \in Space : tf[s] <=> step.on

\* dbg.soft.cnt counts the active slots; #BP is wanted as long as there is
\* one.
CountInv ==
  /\ cnt = Cardinality(ActiveSet(bp))
  /\ cnt # 0 => soft.on /\ "BP" \in excp

PlainCode0 == \A c \in Cell : Code0[c] # BREAKPOINT_INSN

\* What the status of a slot says is in memory is there.
TrapsWritten ==
  \A i \in Slot : bp[i].on /\ bp[i].st => mem[CellOf(bp[i])] = BREAKPOINT_INSN

\* An active slot without its trap is one that an update of the traps or
\* the end of a step is about to write back; the process has not moved
\* since the client saw it there.
ArmedInv ==
  /\ code = Code0
  /\ TrapsWritten
  /\ ~soft.rs /\ ~traps.up => \A i \in Slot : bp[i].on => bp[i].st
  /\ soft.rs \/ run = "stub" => seen[cr3]
=============================================================================
