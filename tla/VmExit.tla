------------------------------- MODULE VmExit -------------------------------
(***************************************************************************)
(* The life of one vm-exit on Intel VMX: the guest runs and exits, the     *)
(* VMM reads the VMCS fields it needs through its cache, resolves the      *)
(* exit, resumes an event whose delivery the exit interrupted, takes care  *)
(* of the pending single-step trap, commits what it modified and enters    *)
(* the guest again.  vmx_vmexit_handler runs to completion with interrupts *)
(* off, so one exit is one action.                                         *)
(*                                                                         *)
(* Sources: src/vmm/src/vmx/vmx_exit*.c, vmx_vmcs_acc.c, src/vmm/src/core/ *)
(* cr.c, msr.c, excp.c, insn.c, emulate*.c, src/include/vmx_vm.h and the   *)
(* initial state of src/setup/src/vmx/.                                    *)
(*                                                                         *)
(* External interrupts and NMIs do not exit: setup leaves pin.eint and     *)
(* pin.nmi at 0 (vmx_vmcs.c:129), so the interrupt and interrupt-window    *)
(* handlers never run and the guest is never halted at an exit.            *)
(***************************************************************************)
EXTENDS Naturals, FiniteSets

CONSTANTS RmodeLimit,    \* info->vm.idt_limit_rmode
          Limits,        \* limits the guest loads with lidt
          EventTypes     \* types of the events the guest may be delivering

ASSUME LimitsAssumption == /\ RmodeLimit \notin Limits /\ 0 \notin Limits
                           /\ Limits # {}
                           /\ EventTypes \subseteq {"HW_INT", "SW_INT", "HW_EXCP"}

VARIABLES
  vmcs,     \* the VMCS fields, in the processor
  mem,      \* the copies in info->vm.vmcs that are current: none once committed
  efer,     \* info->vm.efer: what the guest reads of EFER
  saved,    \* info->vm.idt_limit_saved
  phase,    \* "guest" (it exits next), "entered" (committed and entered again),
            \* "stopped" (vmx_vmexit_failure) or "refused" (vm-entry failed)
  own,      \* ghost: the IDT limit the guest loaded last, 0 before the first
  misled,   \* ghost: the guest wrote an EFER that the processor would refuse
            \* or whose LMA bit it would ignore
  last      \* ghost: what happened at the last exit

vars == <<vmcs, mem, efer, saved, phase, own, misled, last>>

-----------------------------------------------------------------------------
(* The fields of the VMCS that the handlers tell apart.                    *)

NoEvent == [type |-> "none", vec |-> "none", dec |-> FALSE]

\* In real mode a vector below int 15h is within the reduced IDT limit.
WithinLimit == {"low"}
Vectors == [HW_INT |-> {"low", "high"}, SW_INT |-> {"low", "int15", "high"},
            HW_EXCP |-> {"GP", "PF", "UD"}]

\* __vmx_vmexit_inject_exception: these push an error code.
HasErrorCode == {"DF", "TS", "NP", "SS", "GP", "PF", "AC"}

Event(type, vec) == [type |-> type, vec |-> vec,
                     dec |-> type = "HW_EXCP" /\ vec \in HasErrorCode]
Events == UNION {{Event(t, v) : v \in Vectors[t]} : t \in EventTypes}

InterruptState == [shadow : BOOLEAN]
PendingDbg == [bs : BOOLEAN]
EntryControls == [ia32e : BOOLEAN]
SecondaryControls == [dt : BOOLEAN]
Cr0 == [pe : BOOLEAN, pg : BOOLEAN]
Cr4 == [pae : BOOLEAN]
Efer == [lme : BOOLEAN, lma : BOOLEAN]
Segment == [rpl : {0, 3}, l : BOOLEAN]
Rflags == [tf : BOOLEAN, ie : BOOLEAN]

Vmcs == [int_info : {NoEvent} \cup {Event(t, v) : t \in DOMAIN Vectors,
                       v \in UNION {Vectors[u] : u \in DOMAIN Vectors}},
         insn_len : {0, 2}, interrupt : InterruptState, rflags : Rflags,
         dbg_excp : PendingDbg, dbgctl : [btf : BOOLEAN], cr0 : Cr0, cr4 : Cr4,
         cs : Segment, entry : EntryControls, ia32_efer : Efer,
         idtr_limit : Limits \cup {RmodeLimit, 0}, proc2 : SecondaryControls]

GuestFields == {"interrupt", "rflags", "dbg_excp", "dbgctl", "cr0", "cr4", "cs",
                "ia32_efer", "idtr_limit"}
ControlFields == {"int_info", "insn_len", "entry", "proc2"}

vmx_vmcs_guest_state_init ==
  [interrupt |-> [shadow |-> FALSE], rflags |-> [tf |-> FALSE, ie |-> TRUE],
   dbg_excp |-> [bs |-> FALSE], dbgctl |-> [btf |-> FALSE],
   cr0 |-> [pe |-> FALSE, pg |-> FALSE], cr4 |-> [pae |-> FALSE],
   cs |-> [rpl |-> 0, l |-> FALSE], ia32_efer |-> [lme |-> FALSE, lma |-> FALSE],
   idtr_limit |-> RmodeLimit]

vmx_vmcs_entry_controls_init ==
  [int_info |-> NoEvent, insn_len |-> 0, entry |-> [ia32e |-> FALSE]]

\* __deny_soft_int: the guest starts in real mode
vmx_vmcs_exec_controls_init == [proc2 |-> [dt |-> TRUE]]

\* Values for the fields of m, and those of n for the others.
Over(m, n) == [f \in DOMAIN m \cup DOMAIN n |-> IF f \in DOMAIN m THEN m[f] ELSE n[f]]

\* The last thing setup does before vmlaunch: every field is written.
vmx_vmcs_init ==
  Over(vmx_vmcs_guest_state_init,
       Over(vmx_vmcs_entry_controls_init, vmx_vmcs_exec_controls_init))

-----------------------------------------------------------------------------
(* The VMCS accessors.  A handler's state s holds the processor's fields   *)
(* (hw), the copies that are current (mem), those that were modified (dt)  *)
(* and the VMM's own variables.  A copy that is not current has no value,  *)
(* so a handler that used one unread would have no meaning here.           *)

Copy(m, f, v) == [g \in DOMAIN m \cup {f} |-> IF g = f THEN v ELSE m[g]]

vmcs_read(s, f) ==
  IF f \in DOMAIN s.mem THEN s ELSE [s EXCEPT !.mem = Copy(@, f, s.hw[f])]

vmcs_dirty(s, f) == [s EXCEPT !.dt = @ \cup {f}]

Write(s, f, v) == vmcs_dirty([s EXCEPT !.mem = Copy(@, f, v)], f)

vmcs_flush(s, f) == IF f \in s.dt THEN s.mem[f] ELSE s.hw[f]

vmx_vmcs_commit(s) ==
  [s EXCEPT !.hw = [f \in GuestFields \cup ControlFields |-> vmcs_flush(s, f)],
            !.mem = <<>>, !.dt = {}]

\* vmx_vmcs_collect, before the state is shown: every field becomes current.
vmx_vmcs_collect(s) ==
  [s EXCEPT !.mem = [f \in GuestFields \cup ControlFields |-> vmcs_read(s, f).mem[f]]]

vmx_vmexit_pre_hdl(g) ==
  LET s == [hw |-> g, mem |-> mem, dt |-> {}, efer |-> efer,
            saved |-> saved, emu |-> FALSE, rc |-> "VM_DONE"]
  IN vmcs_read(vmcs_read(vmcs_read(s, "rflags"), "cr0"), "cs")

-----------------------------------------------------------------------------
(* Helpers of the handlers: modes, events, instruction emulation.          *)

rmode(s) == ~ s.efer.lma /\ ~ s.mem.cr0.pe

Return(s, rc) == [s EXCEPT !.rc = rc]

inject_exception(s, vec) == Write(s, "int_info", Event("HW_EXCP", vec))

Fault(s, vec) == Return(inject_exception(s, vec), "VM_FAULT")

clear_interrupt_shadow(s) ==
  Write(vmcs_read(s, "interrupt"), "interrupt", [shadow |-> FALSE])

\* mutated: the shadow survives the instruction
emulate_done_keeps_shadow(s) ==
  IF s.rc \in {"VM_DONE", "VM_DONE_LET_RIP"} THEN [s EXCEPT !.emu = TRUE] ELSE s

emulate_done(s) ==
  IF s.rc \in {"VM_DONE", "VM_DONE_LET_RIP"}
  THEN clear_interrupt_shadow([s EXCEPT !.emu = TRUE]) ELSE s

\* __allow_soft_int and __deny_soft_int: the guest's own IDT in protected
\* mode, a reduced limit that makes int 15h fault in real mode.
vm_enter_pmode(s) ==
  LET t == Write(vmcs_read(s, "proc2"), "proc2", [dt |-> FALSE])
  IN Write(t, "idtr_limit", t.saved)

\* mutated: the limit is saved after it was replaced
vm_enter_rmode_swapped(s) ==
  LET t == Write(Write(vmcs_read(s, "proc2"), "proc2", [dt |-> TRUE]),
                 "idtr_limit", RmodeLimit)
  IN [t EXCEPT !.saved = t.mem.idtr_limit]

vm_enter_rmode(s) ==
  LET t == vmcs_read(Write(vmcs_read(s, "proc2"), "proc2", [dt |-> TRUE]), "idtr_limit")
  IN Write([t EXCEPT !.saved = t.mem.idtr_limit], "idtr_limit", RmodeLimit)

-----------------------------------------------------------------------------
(* Control registers.                                                      *)

update_efer_lma(s) ==
  LET t == Write(vmcs_read(s, "entry"), "entry", [ia32e |-> s.efer.lma])
  IN Write(t, "ia32_efer", [lme |-> s.efer.lma, lma |-> s.efer.lma])

efer_update(s, pg) ==
  CASE pg /\ s.mem.cr4.pae /\ s.efer.lme -> update_efer_lma([s EXCEPT !.efer.lma = TRUE])
    [] ~ pg /\ s.efer.lma -> update_efer_lma([s EXCEPT !.efer.lma = FALSE])
    [] OTHER -> s

invalid_cr0_setup(guest, cacheOk) == (guest.pg /\ ~ guest.pe) \/ ~ cacheOk

invalid_cr0_lmode_check(s, guest) ==
  /\ guest.pg /\ ~ s.mem.cr0.pg
  /\ s.efer.lme /\ (~ s.mem.cr4.pae \/ s.mem.cs.l)

\* The last test of the three writes: the page directory pointers of PAE
\* paging are loaded again, after the register itself was modified.
PdpeUpdate(s, updated, pdpeOk) ==
  IF ~ s.efer.lma /\ updated /\ s.mem.cr0.pg /\ s.mem.cr4.pae /\ ~ pdpeOk
  THEN Fault(s, "GP") ELSE Return(s, "VM_DONE")

resolve_cr0_wr(s, guest, cacheOk, pdpeOk) ==
  LET s0 == vmcs_read(s, "cr4")
      pg == guest.pg # s0.mem.cr0.pg
      pe == guest.pe # s0.mem.cr0.pe
      s1 == IF pg THEN efer_update(s0, guest.pg) ELSE s0
      s2 == CASE pe /\ ~ guest.pe -> vm_enter_rmode(s1)
              [] pe /\ guest.pe -> vm_enter_pmode(s1)
              [] OTHER -> s1
  IN IF invalid_cr0_setup(guest, cacheOk) \/ invalid_cr0_lmode_check(s0, guest)
     THEN Fault(s0, "GP")
     ELSE PdpeUpdate(Write(s2, "cr0", guest), pg, pdpeOk)

resolve_cr3_wr(s, pdpeOk) == PdpeUpdate(vmcs_read(s, "cr4"), TRUE, pdpeOk)

\* mutated: PAE may be cleared in long mode
resolve_cr4_wr_unchecked(s, guest, other, pdpeOk) ==
  LET s0 == vmcs_read(s, "cr4")
      updated == other \/ guest.pae # s0.mem.cr4.pae
  IN PdpeUpdate(Write(s0, "cr4", guest), updated, pdpeOk)

resolve_cr4_wr(s, guest, other, pdpeOk) ==
  LET s0 == vmcs_read(s, "cr4")
      updated == other \/ guest.pae # s0.mem.cr4.pae
  IN IF s0.efer.lma /\ s0.mem.cr4.pae /\ ~ guest.pae
     THEN Fault(s0, "GP")
     ELSE PdpeUpdate(Write(s0, "cr4", guest), updated, pdpeOk)

valid_cr_access(s) == rmode(s) \/ s.mem.cs.rpl = 0

\* __resolve_cr: MOV to a control register
resolve_cr_wr(s, t) == IF valid_cr_access(s) THEN t ELSE Fault(s, "GP")

\* LMSW replaces PE and keeps PG
resolve_lmsw(s, pe, pdpeOk) ==
  resolve_cr0_wr(s, [pe |-> pe, pg |-> s.mem.cr0.pg], TRUE, pdpeOk)

emulate_clts(s) ==
  IF s.mem.cs.rpl # 0 THEN Fault(s, "GP")
  ELSE Return(Write(s, "cr0", s.mem.cr0), "VM_DONE")

-----------------------------------------------------------------------------
(* MSRs, descriptor tables, other instructions.                            *)

resolve_msr_efer(s, value) ==
  LET s0 == vmcs_read(s, "entry")
      ia32e == s0.mem.entry.ia32e
      s1 == Write([s0 EXCEPT !.efer = [lme |-> value.lme, lma |-> value.lma /\ value.lme]],
                  "ia32_efer", [lme |-> ia32e, lma |-> ia32e])
  IN IF value.lme # s.efer.lme /\ s.mem.cr0.pg THEN Fault(s1, "GP")
     ELSE Return(s1, "VM_DONE")

\* EFER is read from the shadow; the other MSRs the bitmap denies go to the
\* hardware (VM_NATIVE) and leave these fields alone.
resolve_msr_other(s) == Return(s, "VM_DONE")

lidt(s, limit) ==
  IF s.mem.cs.rpl # 0 THEN Return(s, "VM_FAIL")
  ELSE Return([s EXCEPT !.saved = limit], "VM_DONE")

lgdt(s) == Return(s, IF s.mem.cs.rpl # 0 THEN "VM_FAIL" ELSE "VM_DONE")

\* sgdt and sidt store the base and, for the IDT, the saved limit
store_dt(s) == Return(s, "VM_DONE")

\* memOk: the operand is in memory the guest may access
resolve_dt(s, memOk, t) ==
  IF ~ rmode(s) \/ ~ memOk THEN Return(s, "VM_FAIL") ELSE emulate_done(t)

resolve_hypercall(s, handled) ==
  IF handled THEN emulate_done(Return(s, "VM_DONE"))
  ELSE Return(inject_exception(s, "UD"), "VM_DONE")

resolve_xsetbv(s, valid) ==
  IF valid THEN emulate_done(Return(s, "VM_DONE")) ELSE Fault(s, "GP")

resolve_cpuid(s) == emulate_done(Return(s, "VM_DONE"))

-----------------------------------------------------------------------------
(* Events: exceptions, real-mode interrupts, EPT violations.               *)

\* The interrupt table of the guest is used: IF and TF are cleared.
emulate_rmode_interrupt(s) ==
  Return(Write(s, "rflags", [tf |-> FALSE, ie |-> FALSE]), "VM_DONE_LET_RIP")

\* int 15h may be served by the VMM; int15 says whether it was.
emulate_interrupt(s, vec, int15) ==
  IF vec = "int15" /\ int15 THEN Return(s, "VM_DONE") ELSE emulate_rmode_interrupt(s)

\* disasm: the instruction could be read and decoded
resolve_rmode_gp(s, idt, int15, disasm) ==
  CASE idt.type = "SW_INT" /\ disasm -> emulate_done(emulate_interrupt(s, idt.vec, int15))
    [] idt.type = "HW_INT" -> emulate_interrupt(s, idt.vec, int15)
    [] OTHER -> Return(s, "VM_FAIL")

\* ctrl_evt_excp: handled by the debugger or a filter, or injected again
resolve_exception(s, vec, handled) ==
  IF handled THEN Return(s, "VM_DONE") ELSE Return(inject_exception(s, vec), "VM_IGNORE")

resolve_excp(s, vec, idt, handled, int15, disasm) ==
  IF vec = "GP" /\ rmode(s) THEN resolve_rmode_gp(s, idt, int15, disasm)
  ELSE resolve_exception(s, vec, handled)

resolve_ept_viol(s, handled) == Return(s, IF handled THEN "VM_DONE" ELSE "VM_FAIL")

\* Every other reason of the table: the exit is not expected.
resolve_default(s) == Return(s, "VM_FAIL")

-----------------------------------------------------------------------------
(* After the resolver: resume an interrupted delivery, look after the      *)
(* single-step trap, commit.  fate says what became of the delivery.       *)

Delivery(s, rc, fate) == [s |-> s, rc |-> rc, fate |-> fate]

\* emulated: the resolver served the event itself
idt_deliver_rmode(s, idt, emulated) ==
  IF idt.type \in {"SW_INT", "HW_INT"}
  THEN Delivery(s, "VM_DONE", CASE emulated -> "emulated"
                                [] ~ emulated /\ idt.type = "SW_INT" -> "executed again"
                                [] OTHER -> "lost")
  ELSE Delivery(s, "VM_FAIL", "lost")

\* mutated: what the resolver injects is replaced
idt_deliver_pmode_over(s, idt) ==
  Delivery(Write(vmcs_read(s, "int_info"), "int_info", idt), "VM_DONE", "injected")

idt_deliver_pmode(s, idt) ==
  LET t == vmcs_read(s, "int_info")
      u == IF idt.type = "SW_INT" THEN Write(t, "insn_len", 2) ELSE t
  IN IF t.mem.int_info = NoEvent
     THEN Delivery(Write(u, "int_info", idt), "VM_DONE", "injected")
     ELSE Delivery(t, "VM_FAIL", "lost")

idt_deliver(s, idt, emulated) ==
  CASE idt = NoEvent -> Delivery(s, "VM_DONE", "none")
    [] idt # NoEvent /\ rmode(s) -> idt_deliver_rmode(s, idt, emulated)
    [] OTHER -> idt_deliver_pmode(s, idt)

vmexit_on_insn(s, reason) == reason \notin {"excp", "ept"} \/ s.emu

db_check_pending(s, reason) ==
  LET t == vmcs_read(s, "dbg_excp")
  IN IF vmexit_on_insn(s, reason) /\ t.mem.rflags.tf
     THEN Write(Write(t, "rflags", [t.mem.rflags EXCEPT !.tf = FALSE]),
                "dbg_excp", [bs |-> TRUE])
     ELSE t

\* mutated: a stale trap is not removed
check_dbgctl_sets_only(s) ==
  LET t == vmcs_read(vmcs_read(vmcs_read(s, "interrupt"), "dbgctl"), "dbg_excp")
  IN IF t.mem.interrupt.shadow /\ t.mem.rflags.tf /\ ~ t.mem.dbgctl.btf
     THEN Write(t, "dbg_excp", [bs |-> TRUE]) ELSE t

check_dbgctl(s) ==
  LET t == vmcs_read(s, "interrupt")
      u == vmcs_read(vmcs_read(t, "dbgctl"), "dbg_excp")
  IN IF t.mem.interrupt.shadow
     THEN Write(u, "dbg_excp", [bs |-> u.mem.rflags.tf /\ ~ u.mem.dbgctl.btf])
     ELSE t

vmx_vmexit_post_hdl(s, reason) ==
  vmx_vmcs_commit(check_dbgctl(db_check_pending(s, reason)))

-----------------------------------------------------------------------------
(* What the processor requires of the guest state at vm-entry, as          *)
(* vmx_exit_invg.c looks for the culprit when an entry is refused.         *)

invg_cr_dr_msr(v) ==
  /\ v.entry.ia32e => v.cr0.pg /\ v.cr4.pae
  /\ v.ia32_efer.lma = v.entry.ia32e

invg_loc(v) == v.int_info.type = "HW_INT" => v.rflags.ie

invg_nonreg(v) ==
  /\ v.interrupt.shadow => v.int_info.type # "HW_INT"
  /\ v.interrupt.shadow => (v.dbg_excp.bs <=> v.rflags.tf /\ ~ v.dbgctl.btf)

ValidGuest(v) == invg_cr_dr_msr(v) /\ invg_loc(v) /\ invg_nonreg(v)

-----------------------------------------------------------------------------
(* The actions.                                                            *)

NoExit == [rmode |-> FALSE, idt |-> NoEvent, raised |-> NoEvent,
           rc |-> "VM_DONE", fate |-> "none", stepped |-> FALSE]

Init ==
  /\ vmcs = vmx_vmcs_init
  /\ mem = <<>>
  /\ efer = [lme |-> FALSE, lma |-> FALSE]
  /\ saved = 0
  /\ phase = "entered"
  /\ own = 0
  /\ misled = FALSE
  /\ last = NoExit

\* What the guest does until its next exit.  The event injected and the
\* pending trap were delivered; in protected mode LIDT does not exit.
GuestRuns ==
  /\ phase = "entered" /\ phase' = "guest"
  /\ \E r \in Rflags, i \in InterruptState, b \in BOOLEAN,
        c \in {d \in Segment : d.l => vmcs.entry.ia32e},
        l \in {vmcs.idtr_limit} \cup (IF vmcs.proc2.dt THEN {} ELSE Limits) :
       /\ vmcs' = [vmcs EXCEPT !.int_info = NoEvent, !.dbg_excp = [bs |-> FALSE],
                      !.rflags = r, !.interrupt = i, !.cs = c, !.dbgctl.btf = b,
                      !.idtr_limit = l]
       /\ own' = IF l # vmcs.idtr_limit THEN l ELSE own
  /\ last' = NoExit
  /\ UNCHANGED <<mem, efer, saved, misled>>

\* The state is collected to be shown and the VMM waits for ever.
vmx_vmexit_failure(s) ==
  /\ phase' = "stopped"
  /\ mem' = vmx_vmcs_collect(s).mem
  /\ UNCHANGED <<vmcs, efer, saved, last>>

vmx_vmresume(v) == IF ValidGuest(v) THEN "entered" ELSE "refused"

\* vmx_vmexit_handler once the resolver returned s.  The result of the
\* delivery is tested with !rc, which no return code satisfies.
Resume(reason, s, idt, emulated) ==
  LET raised == IF "int_info" \in s.dt THEN s.mem.int_info ELSE NoEvent
      d == idt_deliver(s, idt, emulated)
      p == vmx_vmexit_post_hdl(d.s, reason)
  IN IF s.rc = "VM_FAIL"
     THEN vmx_vmexit_failure(s)
     ELSE /\ vmcs' = p.hw /\ mem' = p.mem
          /\ efer' = p.efer /\ saved' = p.saved
          /\ phase' = vmx_vmresume(p.hw)
          /\ last' = [rmode |-> rmode(s), idt |-> idt, raised |-> raised,
                      rc |-> d.rc, fate |-> d.fate,
                      stepped |-> vmcs.rflags.tf /\ s.emu /\ s.mem.rflags.tf]

\* A privileged instruction exits at privilege 0 only; in real mode the low
\* bits of CS are anything.
Privileged == ~ vmcs.cr0.pe \/ vmcs.cs.rpl = 0

Exit == vmx_vmexit_pre_hdl(vmcs)

Instruction(s) ==
  /\ phase = "guest"
  /\ Resume("insn", s, NoEvent, FALSE)

WriteCr0 == \E v \in Cr0, cacheOk, pdpeOk \in BOOLEAN :
  /\ Privileged
  /\ Instruction(emulate_done(resolve_cr_wr(Exit, resolve_cr0_wr(Exit, v, cacheOk, pdpeOk))))
  /\ UNCHANGED <<own, misled>>

WriteCr3 == \E pdpeOk \in BOOLEAN :
  /\ Privileged
  /\ Instruction(emulate_done(resolve_cr_wr(Exit, resolve_cr3_wr(Exit, pdpeOk))))
  /\ UNCHANGED <<own, misled>>

WriteCr4 == \E v \in Cr4, other, pdpeOk \in BOOLEAN :
  /\ Privileged
  /\ Instruction(emulate_done(resolve_cr_wr(Exit, resolve_cr4_wr(Exit, v, other, pdpeOk))))
  /\ UNCHANGED <<own, misled>>

Lmsw == \E pe, pdpeOk, register \in BOOLEAN :
  /\ Privileged
  /\ Instruction(IF register THEN emulate_done(resolve_lmsw(Exit, pe, pdpeOk))
                 ELSE Return(Exit, "VM_FAIL"))
  /\ UNCHANGED <<own, misled>>

Clts == Privileged /\ Instruction(emulate_done(emulate_clts(Exit))) /\ UNCHANGED <<own, misled>>

WriteEfer == \E v \in Efer :
  /\ Privileged
  /\ Instruction(emulate_done(resolve_msr_efer(Exit, v)))
  /\ misled' = (misled \/ v.lma # efer.lma \/ (v.lme # efer.lme /\ vmcs.cr0.pg))
  /\ UNCHANGED own

\* RDMSR, the other WRMSR, reads of the control registers
OtherMsr ==
  Privileged /\ Instruction(emulate_done(resolve_msr_other(Exit))) /\ UNCHANGED <<own, misled>>

Lidt == \E limit \in Limits, memOk \in BOOLEAN :
  LET t == resolve_dt(Exit, memOk, lidt(Exit, limit))
  IN /\ vmcs.proc2.dt /\ Privileged
     /\ Instruction(t)
     /\ own' = IF t.rc = "VM_DONE" THEN limit ELSE own
     /\ UNCHANGED misled

OtherDt == \E memOk, load \in BOOLEAN :
  /\ vmcs.proc2.dt /\ Privileged
  /\ Instruction(resolve_dt(Exit, memOk, IF load THEN lgdt(Exit) ELSE store_dt(Exit)))
  /\ UNCHANGED <<own, misled>>

Cpuid == Instruction(resolve_cpuid(Exit)) /\ UNCHANGED <<own, misled>>

Hypercall == \E handled \in BOOLEAN :
  Instruction(resolve_hypercall(Exit, handled)) /\ UNCHANGED <<own, misled>>

Xsetbv == \E valid \in BOOLEAN :
  Privileged /\ Instruction(resolve_xsetbv(Exit, valid)) /\ UNCHANGED <<own, misled>>

Unexpected == Instruction(resolve_default(Exit)) /\ UNCHANGED <<own, misled>>

\* The processor delivers events under the rules of the architecture: an
\* interrupt with IF set and no shadow.
Delivering ==
  {NoEvent} \cup
  {e \in Events : e.type = "HW_INT" => vmcs.rflags.ie /\ ~ vmcs.interrupt.shadow}

\* In real mode a vector beyond the reduced limit raises #GP, which is
\* intercepted and emulated.
RmodeGp(vec) == ~ vmcs.cr0.pe /\ vec = "GP"
Beyond(vec, idt) ==
  /\ RmodeGp(vec) /\ idt.type \in {"HW_INT", "SW_INT"}
  /\ vmcs.idtr_limit = RmodeLimit /\ idt.vec \notin WithinLimit

\* The other exceptions exit when a filter or the debugger asks for them.
Exception == \E vec \in Vectors["HW_EXCP"], idt \in Delivering, handled, int15, disasm \in BOOLEAN :
  /\ phase = "guest"
  /\ int15 \/ disasm => RmodeGp(vec)
  /\ ~ vmcs.cr0.pe /\ idt.type \in {"HW_INT", "SW_INT"} => Beyond(vec, idt)
  /\ Resume("excp", resolve_excp(Exit, vec, idt, handled, int15, disasm), idt,
            Beyond(vec, idt))
  /\ UNCHANGED <<own, misled>>

EptViolation == \E idt \in Delivering, handled \in BOOLEAN :
  /\ phase = "guest"
  /\ ~ vmcs.cr0.pe /\ idt.type \in {"HW_INT", "SW_INT"} => idt.vec \in WithinLimit
  /\ Resume("ept", resolve_ept_viol(Exit, handled), idt, FALSE)
  /\ UNCHANGED <<own, misled>>

Next == \/ GuestRuns
        \/ WriteCr0 \/ WriteCr3 \/ WriteCr4 \/ Lmsw \/ Clts
        \/ WriteEfer \/ OtherMsr \/ Lidt \/ OtherDt
        \/ Cpuid \/ Hypercall \/ Xsetbv \/ Unexpected
        \/ Exception \/ EptViolation

Spec == Init /\ [][Next]_vars

-----------------------------------------------------------------------------
(* Properties.                                                             *)

\* Whatever the guest does, the state the VMM commits is one the processor
\* accepts at vm-entry: the mode bits of EFER, CR0, CR4 and the entry
\* controls agree, an interrupt is injected only when it could be taken, and
\* a pending single-step agrees with TF in an interrupt shadow.  Long mode is
\* followed: the shadow of EFER.LMA, the entry control and the guest's LME
\* and CR0.PG agree after every exit, __efer_update being the only place that
\* moves them.  Both need a guest that writes no EFER hardware refuses.
EntryAccepted ==
  ~ misled =>
    /\ phase # "refused"
    /\ phase = "entered" => /\ efer.lma = (efer.lme /\ vmcs.cr0.pg)
                            /\ vmcs.entry.ia32e = efer.lma

\* The limit the guest loaded into its IDTR is what it finds again, through
\* any number of switches between real and protected mode: kept aside while
\* the reduced limit traps int 15h, in the register otherwise.
IdtLimitKept ==
  phase = "entered" /\ own # 0 =>
    IF vmcs.cr0.pe THEN vmcs.idtr_limit = own /\ ~ vmcs.proc2.dt
    ELSE saved = own /\ vmcs.idtr_limit = RmodeLimit /\ vmcs.proc2.dt

\* No event disappears without a reason: the exception a resolver raises is
\* the one injected, and an interrupted delivery is lost only when another
\* exception takes its place or, in real mode, when the exit is not the #GP
\* by which real-mode interrupts are emulated.
EventsAccounted ==
  phase = "entered" =>
    /\ last.raised # NoEvent => vmcs.int_info = last.raised
    /\ last.fate = "injected" => vmcs.int_info = last.idt
    /\ last.idt # NoEvent /\ last.fate \in {"none", "lost"} =>
         last.raised # NoEvent \/ last.rmode

\* An instruction emulated while the guest is single-stepped leaves the trap
\* pending when the guest is entered again: clearing the interrupt shadow
\* keeps vmx_check_dbgctl from taking it back.
StepKept == phase = "entered" /\ last.stepped => vmcs.dbg_excp.bs

-----------------------------------------------------------------------------
(* The inductive invariant.  While the guest runs, no copy of a field is   *)
(* current and no event is pending injection; what the VMM decides of the  *)
(* mode and of the IDT lies in several fields that move together.          *)

LimitValues == Limits \cup {RmodeLimit, 0}

\* The four places that know of long mode: the guest's EFER as the VMM keeps
\* it, the entry control, the EFER of the VMCS, CR0 and CR4.
ModesAgree(v, e) ==
  /\ e.lma <=> e.lme /\ v.cr0.pg
  /\ v.entry.ia32e <=> e.lma
  /\ v.ia32_efer.lma <=> e.lma
  /\ e.lma => v.cr4.pae

\* The reduced limit and the exits on the descriptor tables are those of real
\* mode; the limit o the guest loaded is aside in real mode, in place otherwise.
LimitKept(v, aside, o) ==
  /\ v.proc2.dt <=> ~ v.cr0.pe
  /\ ~ v.cr0.pe => v.idtr_limit = RmodeLimit
  /\ o # 0 => IF v.cr0.pe THEN v.idtr_limit = o ELSE aside = o

TypeOK ==
  /\ vmcs \in Vmcs /\ efer \in Efer
  /\ saved \in LimitValues /\ own \in LimitValues
  /\ phase \in {"entered", "guest", "stopped", "refused"}
  /\ misled \in BOOLEAN

Running == phase \in {"guest", "entered"}

IInv ==
  /\ TypeOK
  /\ Running => mem = <<>> /\ LimitKept(vmcs, saved, own)
  /\ Running /\ ~ misled => ModesAgree(vmcs, efer)
  /\ phase = "guest" => vmcs.int_info = NoEvent
  /\ ~ misled => phase # "refused"
  /\ EventsAccounted
  /\ StepKept
=============================================================================
