--------------------------- MODULE VmExitProofs ---------------------------
(***************************************************************************)
(* Proofs about the life of a vm-exit, for any limits and event types.     *)
(*                                                                         *)
(* The first part is about the VMCS accessors alone: whatever was read,    *)
(* written and modified, View(s), the fields as the guest will find them,  *)
(* changes only by Write, and committing makes it the processor's state.   *)
(* The resolvers are then reasoned about through View(s) and never through *)
(* the copies.  Each of them keeps Resolved, what the rest of the handler  *)
(* relies on; Resume takes Resolved to the inductive invariant.            *)
(***************************************************************************)
EXTENDS VmExit, TLAPS

Fields == GuestFields \cup ControlFields

TypeOf ==
  [int_info |-> {NoEvent} \cup {Event(t, v) : t \in DOMAIN Vectors,
                   v \in UNION {Vectors[u] : u \in DOMAIN Vectors}},
   insn_len |-> {0, 2}, interrupt |-> InterruptState, rflags |-> Rflags,
   dbg_excp |-> PendingDbg, dbgctl |-> [btf : BOOLEAN], cr0 |-> Cr0, cr4 |-> Cr4,
   cs |-> Segment, entry |-> EntryControls, ia32_efer |-> Efer,
   idtr_limit |-> LimitValues, proc2 |-> SecondaryControls]

Copies == UNION {[D -> UNION {TypeOf[f] : f \in Fields}] : D \in SUBSET Fields}

ReturnCodes == {"VM_DONE", "VM_DONE_LET_RIP", "VM_FAIL", "VM_FAULT", "VM_IGNORE"}

HandlerStates == [hw : Vmcs, mem : Copies, dt : SUBSET Fields, efer : Efer,
                  saved : LimitValues, emu : BOOLEAN, rc : ReturnCodes]

\* The state of a handler: every copy has the type of its field, and one
\* that was not modified is what the processor holds.
Good(s) ==
  /\ s \in HandlerStates
  /\ s.dt \subseteq DOMAIN s.mem
  /\ \A f \in DOMAIN s.mem : /\ f \in Fields /\ s.mem[f] \in TypeOf[f]
                             /\ f \notin s.dt => s.mem[f] = s.hw[f]

\* The fields as the guest finds them once s is committed.
View(s) == [f \in Fields |-> IF f \in DOMAIN s.mem THEN s.mem[f] ELSE s.hw[f]]

\* t is s but for the copies.
SameRest(s, t) ==
  /\ t.hw = s.hw /\ t.efer = s.efer /\ t.saved = s.saved
  /\ t.emu = s.emu /\ t.rc = s.rc

\* What reading f does: nothing that shows.
Reads(s, t, f) ==
  /\ Good(t) /\ SameRest(s, t) /\ View(t) = View(s)
  /\ DOMAIN t.mem = DOMAIN s.mem \cup {f}
  /\ t.dt = s.dt

\* What writing v to f does: f alone changes, and will be committed.
Writes(s, t, f, v) ==
  /\ Good(t) /\ SameRest(s, t)
  /\ View(t)[f] = v
  /\ \A g \in Fields \ {f} : View(t)[g] = View(s)[g]
  /\ DOMAIN t.mem = DOMAIN s.mem \cup {f}
  /\ t.dt = s.dt \cup {f}

-----------------------------------------------------------------------------
(* The accessors.                                                          *)

LEMMA FieldNames ==
  /\ "int_info" \in Fields /\ "insn_len" \in Fields /\ "interrupt" \in Fields
  /\ "rflags" \in Fields /\ "dbg_excp" \in Fields /\ "dbgctl" \in Fields
  /\ "cr0" \in Fields /\ "cr4" \in Fields /\ "cs" \in Fields
  /\ "entry" \in Fields /\ "ia32_efer" \in Fields
  /\ "idtr_limit" \in Fields /\ "proc2" \in Fields
BY DEF Fields, GuestFields, ControlFields

LEMMA FieldType ==
  ASSUME NEW v \in Vmcs, NEW f \in Fields
  PROVE  v[f] \in TypeOf[f]
<1>1. \/ f = "int_info" \/ f = "insn_len" \/ f = "interrupt" \/ f = "rflags"
      \/ f = "dbg_excp" \/ f = "dbgctl" \/ f = "cr0" \/ f = "cr4" \/ f = "cs"
      \/ f = "entry" \/ f = "ia32_efer" \/ f = "idtr_limit" \/ f = "proc2"
  BY DEF Fields, GuestFields, ControlFields
<1>2. /\ v["int_info"] \in TypeOf["int_info"] /\ v["insn_len"] \in TypeOf["insn_len"]
      /\ v["interrupt"] \in TypeOf["interrupt"] /\ v["rflags"] \in TypeOf["rflags"]
      /\ v["dbg_excp"] \in TypeOf["dbg_excp"] /\ v["dbgctl"] \in TypeOf["dbgctl"]
      /\ v["cr0"] \in TypeOf["cr0"] /\ v["cr4"] \in TypeOf["cr4"]
      /\ v["cs"] \in TypeOf["cs"] /\ v["entry"] \in TypeOf["entry"]
      /\ v["ia32_efer"] \in TypeOf["ia32_efer"]
      /\ v["idtr_limit"] \in TypeOf["idtr_limit"] /\ v["proc2"] \in TypeOf["proc2"]
  BY DEF Vmcs, TypeOf, LimitValues
<1> QED BY <1>1, <1>2

LEMMA VmcsOf ==
  ASSUME NEW v, v = [f \in Fields |-> v[f]], \A f \in Fields : v[f] \in TypeOf[f]
  PROVE  v \in Vmcs
<1>1. DOMAIN v = {"int_info", "insn_len", "interrupt", "rflags", "dbg_excp", "dbgctl",
                  "cr0", "cr4", "cs", "entry", "ia32_efer", "idtr_limit", "proc2"}
  BY DEF Fields, GuestFields, ControlFields
<1>2. /\ v["int_info"] \in TypeOf["int_info"] /\ v["insn_len"] \in TypeOf["insn_len"]
      /\ v["interrupt"] \in TypeOf["interrupt"] /\ v["rflags"] \in TypeOf["rflags"]
      /\ v["dbg_excp"] \in TypeOf["dbg_excp"] /\ v["dbgctl"] \in TypeOf["dbgctl"]
      /\ v["cr0"] \in TypeOf["cr0"] /\ v["cr4"] \in TypeOf["cr4"]
      /\ v["cs"] \in TypeOf["cs"] /\ v["entry"] \in TypeOf["entry"]
      /\ v["ia32_efer"] \in TypeOf["ia32_efer"]
      /\ v["idtr_limit"] \in TypeOf["idtr_limit"] /\ v["proc2"] \in TypeOf["proc2"]
  BY FieldNames
<1> QED BY <1>1, <1>2 DEF Vmcs, TypeOf, LimitValues

LEMMA CopyIs ==
  ASSUME NEW m \in Copies, NEW f \in Fields, NEW v \in TypeOf[f]
  PROVE  /\ Copy(m, f, v) \in Copies
         /\ DOMAIN Copy(m, f, v) = DOMAIN m \cup {f}
         /\ Copy(m, f, v)[f] = v
         /\ \A g \in DOMAIN m \ {f} : Copy(m, f, v)[g] = m[g]
<1> DEFINE All == UNION {TypeOf[g] : g \in Fields}
           c == Copy(m, f, v)
<1>1. PICK D \in SUBSET Fields : m \in [D -> All]
  BY DEF Copies
<1>2. v \in All
  OBVIOUS
<1>3. c = [g \in D \cup {f} |-> IF g = f THEN v ELSE m[g]]
  BY <1>1 DEF Copy
<1>4. c \in [D \cup {f} -> All]
  <2> HIDE DEF All, c
  <2> QED BY <1>1, <1>2, <1>3
<1>5. c \in Copies
  <2> HIDE DEF c
  <2> QED BY <1>4 DEF Copies
<1> QED BY <1>1, <1>3, <1>5

LEMMA ViewType ==
  ASSUME NEW s, Good(s)
  PROVE  /\ View(s) \in Vmcs
         /\ \A f \in DOMAIN s.mem : s.mem[f] = View(s)[f]
<1>1. \A f \in Fields : View(s)[f] \in TypeOf[f]
  BY FieldType DEF View, Good, HandlerStates
<1>2. View(s) = [f \in Fields |-> View(s)[f]]
  BY DEF View
<1>3. \A f \in DOMAIN s.mem : s.mem[f] = View(s)[f]
  BY DEF View, Good, HandlerStates
<1>4. View(s) \in Vmcs
  <2> DEFINE v == View(s)
  <2>1. v = [f \in Fields |-> v[f]] /\ \A f \in Fields : v[f] \in TypeOf[f]
    BY <1>1, <1>2
  <2> HIDE DEF v
  <2>2. v \in Vmcs
    BY <2>1, VmcsOf
  <2> QED BY <2>2 DEF v
<1> QED BY <1>3, <1>4

Replaces(s, t, f, v) ==
  /\ t.hw = s.hw /\ t.mem = Copy(s.mem, f, v)
  /\ t.dt = s.dt \cup {f} \/ (t.dt = s.dt /\ f \notin s.dt /\ v = s.hw[f])

\* A copy replaced, with all else kept, as both accessors do.
LEMMA CopyGood ==
  ASSUME NEW s, Good(s), NEW f \in Fields, NEW v \in TypeOf[f], NEW t,
         t \in HandlerStates,
         Replaces(s, t, f, v)
  PROVE  /\ Good(t)
         /\ View(t)[f] = v
         /\ \A g \in Fields \ {f} : View(t)[g] = View(s)[g]
         /\ DOMAIN t.mem = DOMAIN s.mem \cup {f}
<1>1. s.mem \in Copies /\ s.dt \subseteq DOMAIN s.mem
  BY DEF Good, HandlerStates
<1> USE DEF Replaces
<1>2. /\ DOMAIN t.mem = DOMAIN s.mem \cup {f}
      /\ t.mem[f] = v
      /\ \A g \in DOMAIN s.mem \ {f} : t.mem[g] = s.mem[g]
  <2> DEFINE m == s.mem
             c == Copy(m, f, v)
  <2>1. m \in Copies /\ t.mem = c
    BY <1>1
  <2> HIDE DEF m
  <2>2. /\ DOMAIN c = DOMAIN m \cup {f} /\ c[f] = v
        /\ \A g \in DOMAIN m \ {f} : c[g] = m[g]
    BY <2>1, CopyIs
  <2> HIDE DEF c
  <2> QED BY <2>1, <2>2 DEF m
<1>3. ASSUME NEW g \in DOMAIN t.mem
      PROVE  /\ g \in Fields /\ t.mem[g] \in TypeOf[g]
             /\ g \notin t.dt => t.mem[g] = t.hw[g]
  <2>1. CASE g = f BY <1>2, <2>1
  <2>2. CASE g # f BY <1>2, <2>2 DEF Good, HandlerStates
  <2> QED BY <2>1, <2>2
<1>4. Good(t)
  BY <1>1, <1>2, <1>3 DEF Good
<1>5. View(t)[f] = v
  BY <1>2 DEF View
<1>6. ASSUME NEW g \in Fields \ {f} PROVE View(t)[g] = View(s)[g]
  BY <1>2 DEF View
<1> QED BY <1>2, <1>4, <1>5, <1>6

LEMMA ReadGood ==
  ASSUME NEW s, Good(s), NEW f \in Fields
  PROVE  Reads(s, vmcs_read(s, f), f)
<1>1. CASE f \in DOMAIN s.mem
  BY <1>1 DEF vmcs_read, Reads, SameRest
<1>2. CASE f \notin DOMAIN s.mem
  <2> DEFINE t == vmcs_read(s, f)
             v == s.hw[f]
  <2>1. t = [s EXCEPT !.mem = Copy(s.mem, f, v)]
    BY <1>2 DEF vmcs_read
  <2>2. v \in TypeOf[f]
    BY FieldType DEF Good, HandlerStates
  <2>3. Copy(s.mem, f, v) \in Copies
    BY <2>2, CopyIs DEF Good, HandlerStates
  <2> HIDE DEF t
  <2>4. /\ t \in HandlerStates
        /\ SameRest(s, t) /\ t.mem = Copy(s.mem, f, v) /\ t.dt = s.dt
    BY <2>1, <2>3 DEF Good, SameRest, HandlerStates
  <2>5. f \notin s.dt
    BY <1>2 DEF Good
  <2>6. Replaces(s, t, f, v)
    BY <2>4, <2>5 DEF SameRest, Replaces
  <2>7. /\ Good(t) /\ View(t)[f] = v
        /\ \A g \in Fields \ {f} : View(t)[g] = View(s)[g]
        /\ DOMAIN t.mem = DOMAIN s.mem \cup {f}
    BY <2>2, <2>4, <2>6, CopyGood
  <2>8. View(s)[f] = v
    BY <1>2 DEF View
  <2>9. \A g \in Fields : View(t)[g] = View(s)[g]
    BY <2>7, <2>8
  <2>10. View(t) = View(s)
    BY <2>9 DEF View
  <2>11. Reads(s, t, f)
    BY <2>4, <2>7, <2>10 DEF Reads
  <2> QED BY <2>11 DEF t
<1> QED BY <1>1, <1>2

LEMMA WriteGood ==
  ASSUME NEW s, Good(s), NEW f \in Fields, NEW v \in TypeOf[f]
  PROVE  Writes(s, Write(s, f, v), f, v)
<1> DEFINE u == [s EXCEPT !.mem = Copy(s.mem, f, v)]
           t == Write(s, f, v)
<1>1. Copy(s.mem, f, v) \in Copies
  BY CopyIs DEF Good, HandlerStates
<1>2. t = [u EXCEPT !.dt = u.dt \cup {f}]
  BY DEF Write, vmcs_dirty
<1>3. /\ u \in HandlerStates
      /\ SameRest(s, u) /\ u.mem = Copy(s.mem, f, v) /\ u.dt = s.dt
  BY <1>1 DEF Good, SameRest, HandlerStates
<1> HIDE DEF u, t
<1>4. /\ t \in HandlerStates
      /\ SameRest(s, t) /\ t.mem = Copy(s.mem, f, v) /\ t.dt = s.dt \cup {f}
  BY <1>2, <1>3 DEF SameRest, HandlerStates
<1>5. Replaces(s, t, f, v)
  BY <1>4 DEF SameRest, Replaces
<1>6. /\ Good(t) /\ View(t)[f] = v
      /\ \A g \in Fields \ {f} : View(t)[g] = View(s)[g]
      /\ DOMAIN t.mem = DOMAIN s.mem \cup {f}
  <2>1. t \in HandlerStates
    BY <1>4
  <2> QED BY <2>1, <1>5, CopyGood
<1>7. Writes(s, t, f, v)
  BY <1>4, <1>6 DEF Writes
<1> QED BY <1>7 DEF t

\* Committing makes the view the processor's state, whatever was read.
LEMMA CommitView ==
  ASSUME NEW s, Good(s)
  PROVE  /\ vmx_vmcs_commit(s).hw = View(s)
         /\ vmx_vmcs_commit(s).mem = <<>>
         /\ vmx_vmcs_commit(s).efer = s.efer
         /\ vmx_vmcs_commit(s).saved = s.saved
<1>1. [f \in Fields |-> vmcs_flush(s, f)] = View(s)
  BY DEF View, vmcs_flush, Good, HandlerStates
<1>2. s \in HandlerStates
  BY DEF Good, HandlerStates
<1> DEFINE v == [f \in Fields |-> vmcs_flush(s, f)]
<1>3. vmx_vmcs_commit(s) = [s EXCEPT !.hw = v, !.mem = <<>>, !.dt = {}]
  BY DEF vmx_vmcs_commit, Fields
<1> HIDE DEF v
<1>4. /\ vmx_vmcs_commit(s).hw = v
      /\ vmx_vmcs_commit(s).mem = <<>>
      /\ vmx_vmcs_commit(s).efer = s.efer
      /\ vmx_vmcs_commit(s).saved = s.saved
  BY <1>2, <1>3 DEF HandlerStates
<1> QED BY <1>1, <1>4 DEF v

\* The fields of a handler's state that are not copies.
LEMMA SetRc ==
  ASSUME NEW s, Good(s), NEW rc \in ReturnCodes
  PROVE  /\ Good(Return(s, rc)) /\ View(Return(s, rc)) = View(s)
         /\ Return(s, rc).rc = rc /\ Return(s, rc).mem = s.mem
         /\ Return(s, rc).hw = s.hw /\ Return(s, rc).dt = s.dt
         /\ Return(s, rc).efer = s.efer /\ Return(s, rc).saved = s.saved
         /\ Return(s, rc).emu = s.emu
<1> DEFINE t == Return(s, rc)
<1>1. /\ t \in HandlerStates
      /\ t.rc = rc /\ t.mem = s.mem /\ t.hw = s.hw /\ t.dt = s.dt
      /\ t.efer = s.efer /\ t.saved = s.saved /\ t.emu = s.emu
  BY DEF Return, Good, HandlerStates
<1> HIDE DEF t
<1>2. Good(t)
  BY <1>1 DEF Good
<1>3. View(t) = View(s)
  BY <1>1 DEF View
<1> QED BY <1>1, <1>2, <1>3 DEF t

LEMMA SetEmu ==
  ASSUME NEW s, Good(s), NEW t, t = [s EXCEPT !.emu = TRUE]
  PROVE  /\ Good(t) /\ View(t) = View(s) /\ t.emu = TRUE
         /\ t.mem = s.mem /\ t.dt = s.dt /\ t.rc = s.rc
         /\ t.efer = s.efer /\ t.saved = s.saved
<1>1. /\ t \in HandlerStates /\ t.emu = TRUE
      /\ t.rc = s.rc /\ t.mem = s.mem /\ t.hw = s.hw /\ t.dt = s.dt
      /\ t.efer = s.efer /\ t.saved = s.saved
  BY DEF Good, HandlerStates
<1>2. Good(t)
  BY <1>1 DEF Good
<1>3. View(t) = View(s)
  BY <1>1 DEF View
<1> QED BY <1>1, <1>2, <1>3

LEMMA SetSaved ==
  ASSUME NEW s, Good(s), NEW x \in LimitValues, NEW t, t = [s EXCEPT !.saved = x]
  PROVE  /\ Good(t) /\ View(t) = View(s) /\ t.saved = x
         /\ t.mem = s.mem /\ t.dt = s.dt /\ t.rc = s.rc
         /\ t.efer = s.efer /\ t.emu = s.emu
<1>1. /\ t \in HandlerStates /\ t.saved = x
      /\ t.rc = s.rc /\ t.mem = s.mem /\ t.hw = s.hw /\ t.dt = s.dt
      /\ t.efer = s.efer /\ t.emu = s.emu
  BY DEF Good, HandlerStates
<1>2. Good(t)
  BY <1>1 DEF Good
<1>3. View(t) = View(s)
  BY <1>1 DEF View
<1> QED BY <1>1, <1>2, <1>3

LEMMA SetEfer ==
  ASSUME NEW s, Good(s), NEW x \in Efer, NEW t, t = [s EXCEPT !.efer = x]
  PROVE  /\ Good(t) /\ View(t) = View(s) /\ t.efer = x
         /\ t.mem = s.mem /\ t.dt = s.dt /\ t.rc = s.rc
         /\ t.saved = s.saved /\ t.emu = s.emu
<1>1. /\ t \in HandlerStates /\ t.efer = x
      /\ t.rc = s.rc /\ t.mem = s.mem /\ t.hw = s.hw /\ t.dt = s.dt
      /\ t.saved = s.saved /\ t.emu = s.emu
  BY DEF Good, HandlerStates
<1>2. Good(t)
  BY <1>1 DEF Good
<1>3. View(t) = View(s)
  BY <1>1 DEF View
<1> QED BY <1>1, <1>2, <1>3

-----------------------------------------------------------------------------
(* What every resolver returns, and the steps that keep it.                *)

\* sane: the guest misled nobody; o: the limit it loaded last.
Resolved(s, sane, o) ==
  /\ Good(s)
  /\ {"rflags", "cr0", "cs"} \subseteq DOMAIN s.mem
  /\ View(s).int_info # NoEvent =>
       "int_info" \in s.dt /\ View(s).int_info.type = "HW_EXCP"
  /\ s.emu => ~ View(s).interrupt.shadow
  /\ sane => ModesAgree(View(s), s.efer)
  /\ LimitKept(View(s), s.saved, o)

\* t differs from s in nothing that Resolved is about, but may raise an
\* exception.
Keeps(s, t) ==
  /\ Good(t) /\ t.efer = s.efer /\ t.saved = s.saved /\ t.emu = s.emu
  /\ \A f \in {"cr0", "cr4", "entry", "ia32_efer", "idtr_limit", "proc2", "interrupt"} :
       View(t)[f] = View(s)[f]
  /\ DOMAIN s.mem \subseteq DOMAIN t.mem /\ s.dt \subseteq t.dt
  /\ \/ View(t).int_info = View(s).int_info
     \/ "int_info" \in t.dt /\ View(t).int_info.type = "HW_EXCP"

LEMMA KeepsResolved ==
  ASSUME NEW s, NEW t, NEW sane, NEW o, Resolved(s, sane, o), Keeps(s, t)
  PROVE  Resolved(t, sane, o)
<1>1. /\ View(t).cr0 = View(s).cr0 /\ View(t).cr4 = View(s).cr4
      /\ View(t).entry = View(s).entry /\ View(t).ia32_efer = View(s).ia32_efer
      /\ View(t).idtr_limit = View(s).idtr_limit /\ View(t).proc2 = View(s).proc2
      /\ View(t).interrupt = View(s).interrupt
  BY DEF Keeps
<1>2. sane => ModesAgree(View(t), t.efer)
  BY <1>1 DEF Keeps, Resolved, ModesAgree
<1>3. LimitKept(View(t), t.saved, o)
  BY <1>1 DEF Keeps, Resolved, LimitKept
<1> QED BY <1>1, <1>2, <1>3 DEF Keeps, Resolved

LEMMA KeepsTwice ==
  ASSUME NEW s, NEW t, NEW u, Keeps(s, t), Keeps(t, u)
  PROVE  Keeps(s, u)
BY DEF Keeps

LEMMA ReadKeeps ==
  ASSUME NEW s, Good(s), NEW f \in Fields
  PROVE  Keeps(s, vmcs_read(s, f))
BY ReadGood DEF Reads, SameRest, Keeps

LEMMA ReturnKeeps ==
  ASSUME NEW s, Good(s), NEW rc \in ReturnCodes
  PROVE  Keeps(s, Return(s, rc)) /\ Return(s, rc).rc = rc
BY SetRc DEF Keeps

Raisable == {"GP", "PF", "UD"}

LEMMA EventTypeOf ==
  ASSUME NEW t \in {"HW_INT", "SW_INT", "HW_EXCP"}, NEW vec \in Vectors[t]
  PROVE  /\ Event(t, vec) \in TypeOf["int_info"]
         /\ Event(t, vec).type = t /\ Event(t, vec) # NoEvent
<1>1. DOMAIN Vectors = {"HW_INT", "SW_INT", "HW_EXCP"}
  BY DEF Vectors
<1>2. vec \in UNION {Vectors[u] : u \in DOMAIN Vectors}
  BY <1>1
<1>3. Event(t, vec) \in TypeOf["int_info"]
  BY <1>1, <1>2 DEF TypeOf
<1>4. Event(t, vec).type = t /\ NoEvent.type = "none"
  BY DEF Event, NoEvent
<1> QED BY <1>3, <1>4

LEMMA InjectGood ==
  ASSUME NEW s, Good(s), NEW vec \in Raisable
  PROVE  /\ Writes(s, inject_exception(s, vec), "int_info", Event("HW_EXCP", vec))
         /\ Keeps(s, inject_exception(s, vec))
<1> DEFINE t == inject_exception(s, vec)
           e == Event("HW_EXCP", vec)
<1>1. vec \in Vectors["HW_EXCP"]
  BY DEF Raisable, Vectors
<1>2. e \in TypeOf["int_info"] /\ e.type = "HW_EXCP"
  BY <1>1, EventTypeOf
<1> HIDE DEF e
<1>3. Writes(s, t, "int_info", e)
  BY <1>2, FieldNames, WriteGood DEF inject_exception, e
<1> HIDE DEF t
<1>4. Keeps(s, t)
  BY <1>2, <1>3, FieldNames DEF Writes, SameRest, Keeps
<1> QED BY <1>3, <1>4 DEF t, e

LEMMA FaultKeeps ==
  ASSUME NEW s, Good(s), NEW vec \in Raisable
  PROVE  Keeps(s, Fault(s, vec)) /\ Fault(s, vec).rc = "VM_FAULT"
<1> DEFINE t == inject_exception(s, vec)
<1>1. Keeps(s, t) /\ Good(t)
  BY InjectGood DEF Keeps
<1> HIDE DEF t
<1>2. Keeps(t, Return(t, "VM_FAULT")) /\ Return(t, "VM_FAULT").rc = "VM_FAULT"
  <2>1. "VM_FAULT" \in ReturnCodes
    BY DEF ReturnCodes
  <2> QED BY <1>1, <2>1, ReturnKeeps
<1>3. Keeps(s, Return(t, "VM_FAULT"))
  BY <1>1, <1>2, KeepsTwice
<1> QED BY <1>2, <1>3 DEF Fault, t

\* emulate_done: an instruction that was emulated leaves no shadow.
LEMMA DoneResolved ==
  ASSUME NEW s, NEW sane, NEW o, Resolved(s, sane, o)
  PROVE  /\ Resolved(emulate_done(s), sane, o)
         /\ emulate_done(s).rc = s.rc
<1>1. CASE s.rc \notin {"VM_DONE", "VM_DONE_LET_RIP"}
  BY <1>1 DEF emulate_done
<1>2. CASE s.rc \in {"VM_DONE", "VM_DONE_LET_RIP"}
  <2> DEFINE t == [s EXCEPT !.emu = TRUE]
             u == vmcs_read(t, "interrupt")
             w == Write(u, "interrupt", [shadow |-> FALSE])
  <2>1. /\ Good(t) /\ View(t) = View(s) /\ t.emu = TRUE
        /\ t.mem = s.mem /\ t.dt = s.dt /\ t.rc = s.rc
        /\ t.efer = s.efer /\ t.saved = s.saved
    BY SetEmu DEF Resolved
  <2>2. emulate_done(s) = w
    BY <1>2 DEF emulate_done, clear_interrupt_shadow
  <2> HIDE DEF t
  <2>3. Reads(t, u, "interrupt")
    BY <2>1, FieldNames, ReadGood
  <2> HIDE DEF u
  <2>4. [shadow |-> FALSE] \in TypeOf["interrupt"]
    BY DEF TypeOf, InterruptState
  <2>5. Writes(u, w, "interrupt", [shadow |-> FALSE])
    BY <2>3, <2>4, FieldNames, WriteGood DEF Reads
  <2> HIDE DEF w
  <2>6. /\ Good(w) /\ w.efer = s.efer /\ w.saved = s.saved /\ w.rc = s.rc
        /\ DOMAIN s.mem \subseteq DOMAIN w.mem /\ s.dt \subseteq w.dt
        /\ w.emu = TRUE /\ View(w).interrupt = [shadow |-> FALSE]
        /\ \A f \in Fields \ {"interrupt"} : View(w)[f] = View(s)[f]
    BY <2>1, <2>3, <2>5 DEF Reads, Writes, SameRest
  <2>7. /\ View(w).cr0 = View(s).cr0 /\ View(w).cr4 = View(s).cr4
        /\ View(w).entry = View(s).entry /\ View(w).ia32_efer = View(s).ia32_efer
        /\ View(w).idtr_limit = View(s).idtr_limit /\ View(w).proc2 = View(s).proc2
        /\ View(w).int_info = View(s).int_info
    BY <2>6, FieldNames
  <2>8. sane => ModesAgree(View(w), w.efer)
    BY <2>6, <2>7 DEF Resolved, ModesAgree
  <2>9. LimitKept(View(w), w.saved, o)
    BY <2>6, <2>7 DEF Resolved, LimitKept
  <2>10. ~ View(w).interrupt.shadow
    BY <2>6
  <2>11. Resolved(w, sane, o)
    BY <2>6, <2>7, <2>8, <2>9, <2>10 DEF Resolved
  <2> QED BY <2>2, <2>6, <2>11
<1> QED BY <1>1, <1>2

-----------------------------------------------------------------------------
(* Control registers.                                                      *)

\* From s to t the fields outside W look the same.
Moves(s, t, W) ==
  /\ Good(t) /\ t.emu = s.emu
  /\ DOMAIN s.mem \subseteq DOMAIN t.mem /\ s.dt \subseteq t.dt
  /\ \A f \in Fields \ W : View(t)[f] = View(s)[f]

LEMMA PmodeMoves ==
  ASSUME NEW s, Good(s)
  PROVE  /\ Moves(s, vm_enter_pmode(s), {"proc2", "idtr_limit"})
         /\ View(vm_enter_pmode(s)).proc2.dt = FALSE
         /\ View(vm_enter_pmode(s)).idtr_limit = s.saved
         /\ vm_enter_pmode(s).efer = s.efer /\ vm_enter_pmode(s).saved = s.saved
<1> DEFINE a == vmcs_read(s, "proc2")
           b == Write(a, "proc2", [dt |-> FALSE])
           c == Write(b, "idtr_limit", b.saved)
<1>1. Reads(s, a, "proc2")
  BY FieldNames, ReadGood
<1>2. [dt |-> FALSE] \in TypeOf["proc2"]
  BY DEF TypeOf, SecondaryControls
<1>3. c = vm_enter_pmode(s)
  BY DEF vm_enter_pmode
<1> HIDE DEF a
<1>4. Writes(a, b, "proc2", [dt |-> FALSE])
  BY <1>1, <1>2, FieldNames, WriteGood DEF Reads
<1> HIDE DEF b
<1>5. b.saved \in TypeOf["idtr_limit"] /\ Good(b)
  BY <1>4 DEF Writes, Good, HandlerStates, TypeOf
<1>6. Writes(b, c, "idtr_limit", b.saved)
  BY <1>5, FieldNames, WriteGood
<1> HIDE DEF c
<1>7. View(c)["proc2"] = [dt |-> FALSE]
  BY <1>4, <1>6, FieldNames DEF Writes
<1>8. Moves(s, c, {"proc2", "idtr_limit"})
  BY <1>1, <1>4, <1>6 DEF Reads, Writes, SameRest, Moves
<1>9. View(c).idtr_limit = s.saved /\ c.efer = s.efer /\ c.saved = s.saved
  BY <1>1, <1>4, <1>6 DEF Reads, Writes, SameRest
<1> QED BY <1>3, <1>7, <1>8, <1>9

LEMMA RmodeMoves ==
  ASSUME NEW s, Good(s)
  PROVE  /\ Moves(s, vm_enter_rmode(s), {"proc2", "idtr_limit"})
         /\ View(vm_enter_rmode(s)).proc2.dt = TRUE
         /\ View(vm_enter_rmode(s)).idtr_limit = RmodeLimit
         /\ vm_enter_rmode(s).efer = s.efer
         /\ vm_enter_rmode(s).saved = View(s).idtr_limit
<1> DEFINE a == vmcs_read(s, "proc2")
           b == Write(a, "proc2", [dt |-> TRUE])
           c == vmcs_read(b, "idtr_limit")
           x == c.mem.idtr_limit
           d == [c EXCEPT !.saved = x]
           e == Write(d, "idtr_limit", RmodeLimit)
<1>1. Reads(s, a, "proc2")
  BY FieldNames, ReadGood
<1>2. [dt |-> TRUE] \in TypeOf["proc2"] /\ RmodeLimit \in TypeOf["idtr_limit"]
  BY DEF TypeOf, SecondaryControls, LimitValues
<1>3. e = vm_enter_rmode(s)
  BY DEF vm_enter_rmode
<1> HIDE DEF a
<1>4. Writes(a, b, "proc2", [dt |-> TRUE])
  BY <1>1, <1>2, FieldNames, WriteGood DEF Reads
<1> HIDE DEF b
<1>5. Reads(b, c, "idtr_limit")
  BY <1>4, FieldNames, ReadGood DEF Writes
<1> HIDE DEF c
<1>6. x = View(s)["idtr_limit"] /\ x \in LimitValues
  <2>1. c.mem["idtr_limit"] = View(c)["idtr_limit"] /\ View(c) \in Vmcs
    BY <1>5, ViewType DEF Reads
  <2>2. View(c)["idtr_limit"] = View(s)["idtr_limit"]
    BY <1>1, <1>4, <1>5, FieldNames DEF Reads, Writes
  <2> QED BY <2>1, <2>2 DEF Vmcs, LimitValues
<1> HIDE DEF x
<1>7. /\ Good(d) /\ View(d) = View(c) /\ d.saved = x
      /\ d.mem = c.mem /\ d.dt = c.dt /\ d.rc = c.rc
      /\ d.efer = c.efer /\ d.emu = c.emu
  BY <1>5, <1>6, SetSaved DEF Reads
<1> HIDE DEF d
<1>8. Writes(d, e, "idtr_limit", RmodeLimit)
  BY <1>2, <1>7, FieldNames, WriteGood
<1> HIDE DEF e
<1>9. View(e)["proc2"] = [dt |-> TRUE]
  BY <1>4, <1>5, <1>7, <1>8, FieldNames DEF Reads, Writes
<1>10. Moves(s, e, {"proc2", "idtr_limit"})
  BY <1>1, <1>4, <1>5, <1>7, <1>8 DEF Reads, Writes, SameRest, Moves
<1>11. /\ View(e).idtr_limit = RmodeLimit /\ e.efer = s.efer
       /\ e.saved = View(s).idtr_limit
  BY <1>1, <1>4, <1>5, <1>6, <1>7, <1>8 DEF Reads, Writes, SameRest
<1> QED BY <1>3, <1>9, <1>10, <1>11

LEMMA LmaMoves ==
  ASSUME NEW s, Good(s)
  PROVE  /\ Moves(s, update_efer_lma(s), {"entry", "ia32_efer"})
         /\ View(update_efer_lma(s)).entry.ia32e = s.efer.lma
         /\ View(update_efer_lma(s)).ia32_efer.lma = s.efer.lma
         /\ update_efer_lma(s).efer = s.efer
         /\ update_efer_lma(s).saved = s.saved
<1> DEFINE l == s.efer.lma
           a == vmcs_read(s, "entry")
           b == Write(a, "entry", [ia32e |-> l])
           c == Write(b, "ia32_efer", [lme |-> l, lma |-> l])
<1>1. c = update_efer_lma(s)
  BY DEF update_efer_lma
<1>2. l \in BOOLEAN
  BY DEF Good, HandlerStates, Efer
<1> HIDE DEF l
<1>3. /\ [ia32e |-> l] \in TypeOf["entry"]
      /\ [lme |-> l, lma |-> l] \in TypeOf["ia32_efer"]
  BY <1>2 DEF TypeOf, EntryControls, Efer
<1>4. Reads(s, a, "entry")
  BY FieldNames, ReadGood
<1> HIDE DEF a
<1>5. Writes(a, b, "entry", [ia32e |-> l])
  BY <1>3, <1>4, FieldNames, WriteGood DEF Reads
<1> HIDE DEF b
<1>6. Writes(b, c, "ia32_efer", [lme |-> l, lma |-> l])
  BY <1>3, <1>5, FieldNames, WriteGood DEF Writes
<1> HIDE DEF c
<1>7. /\ View(c)["entry"] = [ia32e |-> l]
      /\ View(c)["ia32_efer"] = [lme |-> l, lma |-> l]
  BY <1>5, <1>6, FieldNames DEF Writes
<1>8. Moves(s, c, {"entry", "ia32_efer"})
  BY <1>4, <1>5, <1>6 DEF Reads, Writes, SameRest, Moves
<1>9. c.efer = s.efer /\ c.saved = s.saved
  BY <1>4, <1>5, <1>6 DEF Reads, Writes, SameRest
<1> QED BY <1>1, <1>7, <1>8, <1>9 DEF l

\* __efer_update: LMA follows paging when LME is set, and the entry control
\* and the EFER of the VMCS follow LMA.
LEMMA EferMoves ==
  ASSUME NEW s, Good(s), "cr4" \in DOMAIN s.mem, NEW pg \in BOOLEAN,
         NEW t, t = efer_update(s, pg)
  PROVE  /\ Moves(s, t, {"entry", "ia32_efer"})
         /\ t.saved = s.saved /\ t.efer \in Efer /\ t.efer.lme = s.efer.lme
         /\ \/ /\ t.efer.lma = pg /\ View(t).entry.ia32e = pg
               /\ View(t).ia32_efer.lma = pg
               /\ pg => s.efer.lme /\ View(s).cr4.pae
               /\ ~ pg => s.efer.lma
            \/ /\ t.efer = s.efer /\ View(t) = View(s)
               /\ pg => ~ s.efer.lme \/ ~ View(s).cr4.pae
               /\ ~ pg => ~ s.efer.lma
<1>1. s.efer \in Efer /\ s.mem.cr4 = View(s).cr4 /\ View(s).cr4 \in Cr4
  BY ViewType DEF Good, HandlerStates, Vmcs
<1>2. ASSUME pg, s.mem.cr4.pae, s.efer.lme PROVE t = update_efer_lma([s EXCEPT !.efer.lma = TRUE])
  BY <1>2 DEF efer_update
<1>3. ASSUME ~ pg, s.efer.lma PROVE t = update_efer_lma([s EXCEPT !.efer.lma = FALSE])
  BY <1>3 DEF efer_update
<1>4. ASSUME ~ (pg /\ s.mem.cr4.pae /\ s.efer.lme), ~ (~ pg /\ s.efer.lma) PROVE t = s
  BY <1>4 DEF efer_update
<1>5. ASSUME NEW u, u = [s EXCEPT !.efer.lma = pg], t = update_efer_lma(u)
      PROVE  /\ Moves(s, t, {"entry", "ia32_efer"})
             /\ t.saved = s.saved /\ t.efer \in Efer /\ t.efer.lme = s.efer.lme
             /\ t.efer.lma = pg /\ View(t).entry.ia32e = pg
             /\ View(t).ia32_efer.lma = pg
  <2> DEFINE x == [s.efer EXCEPT !.lma = pg]
  <2>1. u = [s EXCEPT !.efer = x]
    BY <1>5
  <2>2. x \in Efer /\ x.lma = pg /\ x.lme = s.efer.lme
    BY <1>1 DEF Efer
  <2> HIDE DEF x
  <2>3. /\ Good(u) /\ View(u) = View(s) /\ u.efer = x
        /\ u.mem = s.mem /\ u.dt = s.dt /\ u.saved = s.saved /\ u.emu = s.emu
    BY <2>1, <2>2, SetEfer
  <2>4. /\ Moves(u, t, {"entry", "ia32_efer"})
        /\ View(t).entry.ia32e = u.efer.lma /\ View(t).ia32_efer.lma = u.efer.lma
        /\ t.efer = u.efer /\ t.saved = u.saved
    BY <1>5, <2>3, LmaMoves
  <2>5. Moves(s, t, {"entry", "ia32_efer"})
    BY <2>3, <2>4 DEF Moves
  <2> QED BY <2>2, <2>3, <2>4, <2>5
<1>6. CASE pg /\ s.mem.cr4.pae /\ s.efer.lme
  <2>1. pg = TRUE
    BY <1>6
  <2> QED BY <1>1, <1>2, <1>5, <1>6, <2>1
<1>7. CASE ~ pg /\ s.efer.lma
  <2>1. pg = FALSE
    BY <1>7
  <2> QED BY <1>1, <1>3, <1>5, <1>7, <2>1
<1>8. CASE ~ (pg /\ s.mem.cr4.pae /\ s.efer.lme) /\ ~ (~ pg /\ s.efer.lma)
  <2>1. t = s
    BY <1>4, <1>8
  <2>2. Moves(s, t, {"entry", "ia32_efer"})
    BY <2>1 DEF Moves
  <2> QED BY <1>1, <1>8, <2>1, <2>2
<1> QED BY <1>6, <1>7, <1>8

LEMMA PdpeKeeps ==
  ASSUME NEW s, Good(s), NEW updated \in BOOLEAN, NEW pdpeOk \in BOOLEAN
  PROVE  Keeps(s, PdpeUpdate(s, updated, pdpeOk))
<1>1. "GP" \in Raisable /\ "VM_DONE" \in ReturnCodes
  BY DEF Raisable, ReturnCodes
<1> QED BY <1>1, FaultKeeps, ReturnKeeps DEF PdpeUpdate

LEMMA FaultResolved ==
  ASSUME NEW s, NEW sane, NEW o, Resolved(s, sane, o)
  PROVE  Resolved(Fault(s, "GP"), sane, o)
<1>1. Good(s) /\ "GP" \in Raisable
  BY DEF Resolved, Raisable
<1> QED BY <1>1, FaultKeeps, KeepsResolved

LEMMA ReturnResolved ==
  ASSUME NEW s, NEW sane, NEW o, Resolved(s, sane, o), NEW rc \in ReturnCodes
  PROVE  Resolved(Return(s, rc), sane, o) /\ Return(s, rc).rc = rc
<1>1. Keeps(s, Return(s, rc)) /\ Return(s, rc).rc = rc
  BY ReturnKeeps DEF Resolved
<1> QED BY <1>1, KeepsResolved

LEMMA ReadResolved ==
  ASSUME NEW s, NEW sane, NEW o, Resolved(s, sane, o), NEW f \in Fields
  PROVE  /\ Resolved(vmcs_read(s, f), sane, o)
         /\ Reads(s, vmcs_read(s, f), f)
<1>1. Keeps(s, vmcs_read(s, f)) /\ Reads(s, vmcs_read(s, f), f)
  BY ReadKeeps, ReadGood DEF Resolved
<1> QED BY <1>1, KeepsResolved

\* __resolve_cr0_wr moves the mode and the IDT together with CR0.
LEMMA Cr0Resolved ==
  ASSUME NEW s, NEW sane \in BOOLEAN, NEW o, Resolved(s, sane, o),
         NEW guest \in Cr0, NEW cacheOk \in BOOLEAN, NEW pdpeOk \in BOOLEAN
  PROVE  Resolved(resolve_cr0_wr(s, guest, cacheOk, pdpeOk), sane, o)
<1> DEFINE s0 == vmcs_read(s, "cr4")
           pg == guest.pg # s0.mem.cr0.pg
           pe == guest.pe # s0.mem.cr0.pe
           s1 == IF pg THEN efer_update(s0, guest.pg) ELSE s0
           s2 == CASE pe /\ ~ guest.pe -> vm_enter_rmode(s1)
                   [] pe /\ guest.pe -> vm_enter_pmode(s1)
                   [] OTHER -> s1
           s3 == Write(s2, "cr0", guest)
           refused == invalid_cr0_setup(guest, cacheOk) \/ invalid_cr0_lmode_check(s0, guest)
<1>1. resolve_cr0_wr(s, guest, cacheOk, pdpeOk) =
        IF refused THEN Fault(s0, "GP") ELSE PdpeUpdate(s3, pg, pdpeOk)
  BY DEF resolve_cr0_wr
<1>2. Resolved(s0, sane, o) /\ Reads(s, s0, "cr4")
  BY ReadResolved, FieldNames
<1> HIDE DEF s0
<1>3. /\ Good(s0) /\ View(s0) \in Vmcs
      /\ s0.mem["cr0"] = View(s0)["cr0"] /\ s0.mem["cr4"] = View(s0)["cr4"]
      /\ "cr4" \in DOMAIN s0.mem
  BY <1>2, ViewType DEF Resolved, Reads
<1>4. /\ View(s0).cr0 \in Cr0 /\ View(s0).cr4 \in Cr4 /\ s0.efer \in Efer
      /\ View(s0).proc2 \in SecondaryControls /\ View(s0).entry \in EntryControls
      /\ View(s0).ia32_efer \in Efer
  BY <1>3 DEF Vmcs, Good, HandlerStates
<1>5. CASE refused
  BY <1>1, <1>2, <1>5, FaultResolved
<1>6. CASE ~ refused
  <2>1. ~ (guest.pg /\ ~ guest.pe)
    BY <1>6 DEF invalid_cr0_setup
  <2>2. ~ (guest.pg /\ ~ View(s0).cr0.pg /\ s0.efer.lme /\ ~ View(s0).cr4.pae)
    BY <1>6, <1>3 DEF invalid_cr0_lmode_check
  <2>3. pg = (guest.pg # View(s0).cr0.pg) /\ pe = (guest.pe # View(s0).cr0.pe)
    BY <1>3
  <2>4. pg \in BOOLEAN /\ guest.pg \in BOOLEAN /\ guest.pe \in BOOLEAN
    BY DEF Cr0
  <2> HIDE DEF refused, pg, pe
  <2>5. /\ Moves(s0, s1, {"entry", "ia32_efer"}) /\ s1.saved = s0.saved
        /\ s1.efer.lme = s0.efer.lme
        /\ \/ /\ pg /\ s1.efer.lma = guest.pg /\ View(s1).entry.ia32e = guest.pg
              /\ View(s1).ia32_efer.lma = guest.pg
              /\ guest.pg => s0.efer.lme /\ View(s0).cr4.pae
              /\ ~ guest.pg => s0.efer.lma
           \/ /\ s1.efer = s0.efer /\ View(s1) = View(s0)
              /\ pg /\ guest.pg => ~ s0.efer.lme \/ ~ View(s0).cr4.pae
              /\ pg /\ ~ guest.pg => ~ s0.efer.lma
    <3>1. CASE pg
      <4> DEFINE g == guest.pg
      <4>1. g \in BOOLEAN /\ s1 = efer_update(s0, g)
        BY <3>1, <2>4
      <4> HIDE DEF g, s1
      <4>2. /\ Moves(s0, s1, {"entry", "ia32_efer"}) /\ s1.saved = s0.saved
            /\ s1.efer.lme = s0.efer.lme
            /\ \/ /\ s1.efer.lma = g /\ View(s1).entry.ia32e = g
                  /\ View(s1).ia32_efer.lma = g
                  /\ g => s0.efer.lme /\ View(s0).cr4.pae
                  /\ ~ g => s0.efer.lma
               \/ /\ s1.efer = s0.efer /\ View(s1) = View(s0)
                  /\ g => ~ s0.efer.lme \/ ~ View(s0).cr4.pae
                  /\ ~ g => ~ s0.efer.lma
        BY <4>1, <1>3, EferMoves
      <4> QED BY <4>2, <3>1 DEF g
    <3>2. CASE ~ pg
      <4>1. s1 = s0
        BY <3>2
      <4> QED BY <4>1, <3>2, <1>3 DEF Moves
    <3> QED BY <3>1, <3>2
  <2> HIDE DEF s1
  <2>6. Good(s1) /\ \A f \in Fields \ {"entry", "ia32_efer"} : View(s1)[f] = View(s0)[f]
    BY <2>5 DEF Moves
  <2>7. /\ Moves(s1, s2, {"proc2", "idtr_limit"}) /\ s2.efer = s1.efer
        /\ \/ /\ pe /\ ~ guest.pe /\ View(s2).proc2.dt = TRUE
              /\ View(s2).idtr_limit = RmodeLimit
              /\ s2.saved = View(s0).idtr_limit
           \/ /\ pe /\ guest.pe /\ View(s2).proc2.dt = FALSE
              /\ View(s2).idtr_limit = s0.saved
           \/ /\ ~ pe /\ View(s2).proc2 = View(s0).proc2
              /\ View(s2).idtr_limit = View(s0).idtr_limit /\ s2.saved = s0.saved
    <3>1. View(s1).idtr_limit = View(s0).idtr_limit /\ View(s1).proc2 = View(s0).proc2
      BY <2>6, FieldNames
    <3>2. CASE pe /\ ~ guest.pe
      <4>1. s2 = vm_enter_rmode(s1)
        BY <3>2
      <4> QED BY <4>1, <3>1, <3>2, <2>6, RmodeMoves
    <3>3. CASE pe /\ guest.pe
      <4>1. s2 = vm_enter_pmode(s1)
        BY <3>3
      <4> QED BY <4>1, <3>1, <3>3, <2>5, <2>6, PmodeMoves
    <3>4. CASE ~ pe
      <4>1. s2 = s1
        BY <3>4
      <4> QED BY <4>1, <3>1, <3>4, <2>5, <2>6 DEF Moves
    <3> QED BY <3>2, <3>3, <3>4
  <2> HIDE DEF s2
  <2>8. guest \in TypeOf["cr0"] /\ Good(s2)
    BY <2>7 DEF Moves, TypeOf
  <2>9. Writes(s2, s3, "cr0", guest)
    BY <2>8, FieldNames, WriteGood
  <2> HIDE DEF s3
  <2>10. /\ View(s3).cr0 = guest /\ View(s3).cr4 = View(s0).cr4
         /\ View(s3).entry = View(s1).entry /\ View(s3).ia32_efer = View(s1).ia32_efer
         /\ View(s3).proc2 = View(s2).proc2 /\ View(s3).idtr_limit = View(s2).idtr_limit
         /\ View(s3).int_info = View(s0).int_info
         /\ View(s3).interrupt = View(s0).interrupt
    BY <2>6, <2>7, <2>9, FieldNames DEF Moves, Writes
  <2>11. /\ s3.efer = s1.efer /\ s3.saved = s2.saved /\ s3.emu = s0.emu /\ Good(s3)
         /\ DOMAIN s0.mem \subseteq DOMAIN s3.mem /\ s0.dt \subseteq s3.dt
    BY <2>5, <2>7, <2>9 DEF Moves, Writes, SameRest
  <2>12. sane => ModesAgree(View(s3), s3.efer)
    <3>1. SUFFICES ASSUME sane PROVE ModesAgree(View(s3), s3.efer)
      OBVIOUS
    <3>2. ModesAgree(View(s0), s0.efer)
      BY <1>2, <3>1 DEF Resolved
    <3>3. /\ s0.efer.lma \in BOOLEAN /\ s0.efer.lme \in BOOLEAN
          /\ View(s0).cr0.pg \in BOOLEAN /\ View(s0).cr4.pae \in BOOLEAN
      BY <1>4 DEF Efer, Cr0, Cr4
    <3>4. /\ s1.efer.lma <=> s1.efer.lme /\ guest.pg
          /\ View(s1).entry.ia32e <=> s1.efer.lma
          /\ View(s1).ia32_efer.lma <=> s1.efer.lma
          /\ s1.efer.lma => View(s0).cr4.pae
      BY <3>2, <3>3, <2>2, <2>3, <2>4, <2>5 DEF ModesAgree
    <3> QED BY <3>4, <2>10, <2>11 DEF ModesAgree
  <2>13. LimitKept(View(s3), s3.saved, o)
    <3>1. LimitKept(View(s0), s0.saved, o)
      BY <1>2 DEF Resolved
    <3>2. View(s0).cr0.pe \in BOOLEAN /\ View(s0).proc2.dt \in BOOLEAN
      BY <1>4 DEF Cr0, SecondaryControls
    <3>3. /\ View(s2).proc2.dt <=> ~ guest.pe
          /\ ~ guest.pe => View(s2).idtr_limit = RmodeLimit
          /\ o # 0 => IF guest.pe THEN View(s2).idtr_limit = o ELSE s2.saved = o
      BY <3>1, <3>2, <2>3, <2>4, <2>7 DEF LimitKept
    <3> QED BY <3>3, <2>10, <2>11 DEF LimitKept
  <2>14. Resolved(s3, sane, o)
    BY <1>2, <2>10, <2>11, <2>12, <2>13 DEF Resolved
  <2>15. Keeps(s3, PdpeUpdate(s3, pg, pdpeOk))
    BY <2>11, <2>4, PdpeKeeps
  <2>16. Resolved(PdpeUpdate(s3, pg, pdpeOk), sane, o)
    BY <2>14, <2>15, KeepsResolved
  <2> QED BY <1>1, <1>6, <2>16 DEF s3
<1> QED BY <1>5, <1>6

LEMMA Cr3Resolved ==
  ASSUME NEW s, NEW sane, NEW o, Resolved(s, sane, o), NEW pdpeOk \in BOOLEAN
  PROVE  Resolved(resolve_cr3_wr(s, pdpeOk), sane, o)
<1> DEFINE s0 == vmcs_read(s, "cr4")
<1>1. Resolved(s0, sane, o) /\ Good(s0)
  BY ReadResolved, FieldNames DEF Resolved
<1> HIDE DEF s0
<1>2. Keeps(s0, PdpeUpdate(s0, TRUE, pdpeOk))
  BY <1>1, PdpeKeeps
<1>3. Resolved(PdpeUpdate(s0, TRUE, pdpeOk), sane, o)
  BY <1>1, <1>2, KeepsResolved
<1> QED BY <1>3 DEF resolve_cr3_wr, s0

\* __resolve_cr4_wr: PAE stays while long mode is active.
LEMMA Cr4Resolved ==
  ASSUME NEW s, NEW sane \in BOOLEAN, NEW o, Resolved(s, sane, o), NEW guest \in Cr4,
         NEW other \in BOOLEAN, NEW pdpeOk \in BOOLEAN
  PROVE  Resolved(resolve_cr4_wr(s, guest, other, pdpeOk), sane, o)
<1> DEFINE s0 == vmcs_read(s, "cr4")
           updated == other \/ guest.pae # s0.mem.cr4.pae
           s1 == Write(s0, "cr4", guest)
           refused == s0.efer.lma /\ s0.mem.cr4.pae /\ ~ guest.pae
<1>1. resolve_cr4_wr(s, guest, other, pdpeOk) =
        IF refused THEN Fault(s0, "GP") ELSE PdpeUpdate(s1, updated, pdpeOk)
  BY DEF resolve_cr4_wr
<1>2. Resolved(s0, sane, o) /\ Reads(s, s0, "cr4")
  BY ReadResolved, FieldNames
<1> HIDE DEF s0
<1>3. Good(s0) /\ s0.mem["cr4"] = View(s0)["cr4"]
  BY <1>2, ViewType DEF Resolved, Reads
<1>4. CASE refused
  BY <1>1, <1>2, <1>4, FaultResolved
<1>5. CASE ~ refused
  <2>1. ~ (s0.efer.lma /\ View(s0).cr4.pae /\ ~ guest.pae)
    BY <1>5, <1>3
  <2>2. updated \in BOOLEAN /\ guest \in TypeOf["cr4"]
    BY DEF TypeOf
  <2> HIDE DEF refused, updated
  <2>3. Writes(s0, s1, "cr4", guest)
    BY <1>3, <2>2, FieldNames, WriteGood
  <2> HIDE DEF s1
  <2>4. /\ View(s1).cr4 = guest /\ View(s1).cr0 = View(s0).cr0
        /\ View(s1).entry = View(s0).entry /\ View(s1).ia32_efer = View(s0).ia32_efer
        /\ View(s1).proc2 = View(s0).proc2 /\ View(s1).idtr_limit = View(s0).idtr_limit
        /\ View(s1).int_info = View(s0).int_info
        /\ View(s1).interrupt = View(s0).interrupt
    BY <2>3, FieldNames DEF Writes
  <2>5. /\ s1.efer = s0.efer /\ s1.saved = s0.saved /\ s1.emu = s0.emu /\ Good(s1)
        /\ DOMAIN s0.mem \subseteq DOMAIN s1.mem /\ s0.dt \subseteq s1.dt
    BY <2>3 DEF Writes, SameRest
  <2>6. sane => ModesAgree(View(s1), s1.efer)
    BY <1>2, <2>1, <2>4, <2>5 DEF Resolved, ModesAgree
  <2>7. LimitKept(View(s1), s1.saved, o)
    BY <1>2, <2>4, <2>5 DEF Resolved, LimitKept
  <2>8. Resolved(s1, sane, o)
    BY <1>2, <2>4, <2>5, <2>6, <2>7 DEF Resolved
  <2>9. Keeps(s1, PdpeUpdate(s1, updated, pdpeOk))
    BY <2>2, <2>5, PdpeKeeps
  <2>10. Resolved(PdpeUpdate(s1, updated, pdpeOk), sane, o)
    BY <2>8, <2>9, KeepsResolved
  <2> QED BY <1>1, <1>5, <2>10
<1> QED BY <1>4, <1>5

LEMMA CrResolved ==
  ASSUME NEW s, NEW t, NEW sane, NEW o, Resolved(s, sane, o), Resolved(t, sane, o)
  PROVE  Resolved(resolve_cr_wr(s, t), sane, o)
BY FaultResolved DEF resolve_cr_wr

LEMMA LmswResolved ==
  ASSUME NEW s, NEW sane \in BOOLEAN, NEW o, Resolved(s, sane, o),
         NEW pe \in BOOLEAN, NEW pdpeOk \in BOOLEAN
  PROVE  Resolved(resolve_lmsw(s, pe, pdpeOk), sane, o)
<1> DEFINE guest == [pe |-> pe, pg |-> s.mem.cr0.pg]
<1>1. s.mem["cr0"] = View(s)["cr0"] /\ View(s) \in Vmcs
  BY ViewType DEF Resolved
<1>2. guest \in Cr0
  BY <1>1 DEF Vmcs, Cr0
<1> HIDE DEF guest
<1>3. Resolved(resolve_cr0_wr(s, guest, TRUE, pdpeOk), sane, o)
  BY <1>2, Cr0Resolved
<1> QED BY <1>3 DEF resolve_lmsw, guest

LEMMA CltsResolved ==
  ASSUME NEW s, NEW sane, NEW o, Resolved(s, sane, o)
  PROVE  Resolved(emulate_clts(s), sane, o)
<1> DEFINE v == s.mem.cr0
           t == Write(s, "cr0", v)
<1>1. Good(s) /\ v = View(s)["cr0"] /\ View(s) \in Vmcs
  BY ViewType DEF Resolved
<1>2. v \in TypeOf["cr0"]
  BY <1>1, FieldNames, FieldType
<1> HIDE DEF v
<1>3. Writes(s, t, "cr0", v)
  BY <1>1, <1>2, FieldNames, WriteGood
<1> HIDE DEF t
<1>4. Keeps(s, t)
  BY <1>1, <1>3, FieldNames DEF Writes, SameRest, Keeps
<1>5. Resolved(t, sane, o)
  BY <1>4, KeepsResolved
<1>6. Resolved(Return(t, "VM_DONE"), sane, o)
  <2>1. "VM_DONE" \in ReturnCodes
    BY DEF ReturnCodes
  <2> QED BY <1>5, <2>1, ReturnResolved
<1> QED BY <1>6, FaultResolved DEF emulate_clts, t, v

-----------------------------------------------------------------------------
(* MSRs, descriptor tables, other instructions.                            *)

\* __vmx_vmexit_resolve_msr_efer: now is whether the guest still misled
\* nobody once the write is done.
LEMMA EferResolved ==
  ASSUME NEW s, NEW sane \in BOOLEAN, NEW now \in BOOLEAN, NEW o, Resolved(s, sane, o),
         NEW value \in Efer,
         now => /\ sane /\ value.lma = s.efer.lma
                /\ value.lme = s.efer.lme \/ ~ View(s).cr0.pg
  PROVE  Resolved(resolve_msr_efer(s, value), now, o)
<1> DEFINE s0 == vmcs_read(s, "entry")
           ia32e == s0.mem.entry.ia32e
           e == [lme |-> value.lme, lma |-> value.lma /\ value.lme]
           i == [lme |-> ia32e, lma |-> ia32e]
           u == [s0 EXCEPT !.efer = e]
           s1 == Write(u, "ia32_efer", i)
<1>1. resolve_msr_efer(s, value) =
        IF value.lme # s.efer.lme /\ s.mem.cr0.pg THEN Fault(s1, "GP")
        ELSE Return(s1, "VM_DONE")
  BY DEF resolve_msr_efer
<1>2. Resolved(s0, sane, o) /\ Reads(s, s0, "entry")
  BY ReadResolved, FieldNames
<1> HIDE DEF s0
<1>3. /\ Good(s0) /\ s0.mem["entry"] = View(s0)["entry"] /\ View(s0) \in Vmcs
      /\ View(s0) = View(s) /\ s0.efer = s.efer /\ s0.saved = s.saved
  BY <1>2, ViewType DEF Resolved, Reads, SameRest
<1>4. /\ ia32e \in BOOLEAN /\ ia32e = View(s).entry.ia32e
      /\ View(s).cr0.pg \in BOOLEAN
  BY <1>3 DEF Vmcs, EntryControls, Cr0
<1>5. s.efer.lma \in BOOLEAN /\ s.efer.lme \in BOOLEAN
  BY <1>3 DEF Good, HandlerStates, Efer
<1> HIDE DEF ia32e
<1>6. /\ i \in TypeOf["ia32_efer"] /\ i.lma = ia32e
      /\ e \in Efer /\ e.lme = value.lme /\ e.lma = (value.lma /\ value.lme)
  BY <1>4 DEF TypeOf, Efer
<1> HIDE DEF i, e
<1>7. /\ Good(u) /\ View(u) = View(s0) /\ u.efer = e
      /\ u.mem = s0.mem /\ u.dt = s0.dt /\ u.saved = s0.saved /\ u.emu = s0.emu
  BY <1>3, <1>6, SetEfer
<1> HIDE DEF u
<1>8. Writes(u, s1, "ia32_efer", i)
  BY <1>6, <1>7, FieldNames, WriteGood
<1> HIDE DEF s1
<1>9. /\ View(s1).cr4 = View(s0).cr4 /\ View(s1).cr0 = View(s0).cr0
      /\ View(s1).entry = View(s0).entry /\ View(s1).ia32_efer = i
      /\ View(s1).proc2 = View(s0).proc2 /\ View(s1).idtr_limit = View(s0).idtr_limit
      /\ View(s1).int_info = View(s0).int_info
      /\ View(s1).interrupt = View(s0).interrupt
  BY <1>7, <1>8, FieldNames DEF Writes
<1>10. /\ s1.efer = e /\ s1.saved = s0.saved /\ s1.emu = s0.emu /\ Good(s1)
       /\ DOMAIN s0.mem \subseteq DOMAIN s1.mem /\ s0.dt \subseteq s1.dt
  BY <1>7, <1>8 DEF Writes, SameRest
<1>11. now => ModesAgree(View(s1), s1.efer)
  <2>1. SUFFICES ASSUME now PROVE ModesAgree(View(s1), s1.efer)
    OBVIOUS
  <2>2. ModesAgree(View(s), s.efer)
    BY <2>1 DEF Resolved
  <2>3. value.lma \in BOOLEAN /\ value.lme \in BOOLEAN
    BY DEF Efer
  <2>4. e.lma = s.efer.lma /\ (e.lma <=> e.lme /\ View(s).cr0.pg)
    BY <2>1, <2>2, <2>3, <1>4, <1>5, <1>6 DEF ModesAgree
  <2> QED BY <2>2, <2>4, <1>3, <1>4, <1>6, <1>9, <1>10 DEF ModesAgree
<1>12. LimitKept(View(s1), s1.saved, o)
  BY <1>2, <1>9, <1>10 DEF Resolved, LimitKept
<1>13. Resolved(s1, now, o)
  BY <1>2, <1>9, <1>10, <1>11, <1>12 DEF Resolved
<1>14. "VM_DONE" \in ReturnCodes
  BY DEF ReturnCodes
<1> QED BY <1>1, <1>13, <1>14, FaultResolved, ReturnResolved

\* LIDT exits in real mode, where the limit is the one kept aside.
LEMMA LidtResolved ==
  ASSUME NEW s, NEW sane, NEW o, Resolved(s, sane, o), ~ View(s).cr0.pe,
         NEW limit \in Limits, s.mem.cs.rpl = 0
  PROVE  Resolved(lidt(s, limit), sane, limit) /\ lidt(s, limit).rc = "VM_DONE"
<1> DEFINE t == [s EXCEPT !.saved = limit]
<1>1. limit \in LimitValues /\ Good(s)
  BY DEF LimitValues, Resolved
<1>2. /\ Good(t) /\ View(t) = View(s) /\ t.saved = limit
      /\ t.mem = s.mem /\ t.dt = s.dt /\ t.rc = s.rc
      /\ t.efer = s.efer /\ t.emu = s.emu
  BY <1>1, SetSaved
<1>3. lidt(s, limit) = Return(t, "VM_DONE")
  BY DEF lidt
<1> HIDE DEF t
<1>4. LimitKept(View(t), t.saved, limit)
  BY <1>2 DEF Resolved, LimitKept
<1>5. Resolved(t, sane, limit)
  BY <1>2, <1>4 DEF Resolved
<1>6. "VM_DONE" \in ReturnCodes
  BY DEF ReturnCodes
<1> QED BY <1>3, <1>5, <1>6, ReturnResolved

-----------------------------------------------------------------------------
(* Before and after the resolver.                                          *)

LEMMA ExitResolved ==
  ASSUME IInv, phase = "guest"
  PROVE  /\ Resolved(Exit, ~ misled, own)
         /\ View(Exit) = vmcs /\ Exit.emu = FALSE /\ Exit.dt = {}
         /\ Exit.efer = efer /\ Exit.saved = saved
<1> DEFINE a == [hw |-> vmcs, mem |-> mem, dt |-> {}, efer |-> efer,
                 saved |-> saved, emu |-> FALSE, rc |-> "VM_DONE"]
           b == vmcs_read(a, "rflags")
           c == vmcs_read(b, "cr0")
           d == vmcs_read(c, "cs")
<1>1. d = Exit
  BY DEF Exit, vmx_vmexit_pre_hdl
<1>2. /\ mem = <<>> /\ vmcs \in Vmcs /\ efer \in Efer /\ saved \in LimitValues
      /\ vmcs.int_info = NoEvent /\ misled \in BOOLEAN
      /\ LimitKept(vmcs, saved, own)
      /\ ~ misled => ModesAgree(vmcs, efer)
  BY DEF IInv, TypeOK, Running
<1>3. mem \in Copies /\ DOMAIN mem = {}
  <2> DEFINE All == UNION {TypeOf[f] : f \in Fields}
  <2>1. DOMAIN mem = {}
    BY <1>2
  <2> HIDE DEF All
  <2>2. mem \in [{} -> All]
    BY <1>2
  <2>3. {} \in SUBSET Fields
    OBVIOUS
  <2>4. mem \in Copies
    BY <2>2, <2>3 DEF Copies, All
  <2> QED BY <2>1, <2>4
<1>4. /\ a \in HandlerStates /\ a.hw = vmcs /\ a.mem = mem /\ a.dt = {} /\ a.emu = FALSE
      /\ a.efer = efer /\ a.saved = saved
  BY <1>2, <1>3 DEF HandlerStates, ReturnCodes
<1> HIDE DEF a
<1>5. Good(a)
  BY <1>3, <1>4 DEF Good
<1>6. View(a) = vmcs
  <2>1. View(a) = [f \in Fields |-> vmcs[f]]
    BY <1>3, <1>4 DEF View
  <2>2. vmcs = [f \in Fields |-> vmcs[f]]
    BY <1>2 DEF Vmcs, Fields, GuestFields, ControlFields
  <2> QED BY <2>1, <2>2
<1>7. Reads(a, b, "rflags")
  BY <1>5, FieldNames, ReadGood
<1> HIDE DEF b
<1>8. Reads(b, c, "cr0")
  BY <1>7, FieldNames, ReadGood DEF Reads
<1> HIDE DEF c
<1>9. Reads(c, d, "cs")
  BY <1>8, FieldNames, ReadGood DEF Reads
<1> HIDE DEF d
<1>10. /\ Good(d) /\ View(d) = vmcs /\ d.emu = FALSE /\ d.dt = {}
       /\ d.efer = efer /\ d.saved = saved
       /\ {"rflags", "cr0", "cs"} \subseteq DOMAIN d.mem
  BY <1>4, <1>6, <1>7, <1>8, <1>9 DEF Reads, SameRest
<1>11. Resolved(d, ~ misled, own)
  BY <1>2, <1>10 DEF Resolved
<1> QED BY <1>1, <1>10, <1>11

\* What became of the event idt whose delivery the exit interrupted.
Delivered(s, d, idt) ==
  /\ Moves(s, d.s, {"int_info", "insn_len"})
  /\ d.s.efer = s.efer /\ d.s.saved = s.saved
  /\ View(s).int_info # NoEvent => View(d.s).int_info = View(s).int_info
  /\ d.fate = "injected" => View(d.s).int_info = idt
  /\ idt # NoEvent /\ d.fate \in {"none", "lost"} =>
       View(s).int_info # NoEvent \/ rmode(s)
  /\ View(d.s).int_info.type = "HW_INT" =>
       View(s).rflags.ie /\ ~ View(s).interrupt.shadow

\* vmx_vmexit_idt_deliver gives way to what the resolver raised.
LEMMA DeliverMoves ==
  ASSUME NEW s, Good(s), NEW idt \in {NoEvent} \cup Events, NEW emulated \in BOOLEAN,
         View(s).int_info # NoEvent => View(s).int_info.type = "HW_EXCP",
         idt.type = "HW_INT" /\ ~ rmode(s) =>
           View(s).rflags.ie /\ ~ View(s).interrupt.shadow,
         NEW d, d = idt_deliver(s, idt, emulated)
  PROVE  Delivered(s, d, idt)
<1>1. NoEvent.type = "none"
  BY DEF NoEvent
<1>2. ASSUME d.s = s, d.fate # "injected",
             idt = NoEvent \/ rmode(s) \/ d.fate \notin {"none", "lost"}
      PROVE  Delivered(s, d, idt)
  BY <1>1, <1>2 DEF Moves, Delivered
<1>3. CASE idt = NoEvent
  <2>1. d = Delivery(s, "VM_DONE", "none")
    BY <1>3 DEF idt_deliver
  <2>2. d.s = s /\ d.fate = "none"
    BY <2>1 DEF Delivery
  <2> QED BY <1>2, <1>3, <2>2
<1>4. CASE idt # NoEvent /\ rmode(s)
  <2>1. d = idt_deliver_rmode(s, idt, emulated)
    BY <1>4 DEF idt_deliver
  <2>2. d.s = s /\ d.fate # "injected"
    <3> DEFINE fate == CASE emulated -> "emulated"
                         [] ~ emulated /\ idt.type = "SW_INT" -> "executed again"
                         [] OTHER -> "lost"
    <3>1. fate # "injected"
      <4>1. CASE emulated /\ idt.type # "SW_INT" BY <4>1
      <4>2. CASE emulated /\ idt.type = "SW_INT" BY <4>2
      <4>3. CASE ~ emulated /\ idt.type = "SW_INT" BY <4>3
      <4>4. CASE ~ emulated /\ idt.type # "SW_INT" BY <4>4
      <4> QED BY <4>1, <4>2, <4>3, <4>4
    <3>2. d = IF idt.type \in {"SW_INT", "HW_INT"} THEN Delivery(s, "VM_DONE", fate)
              ELSE Delivery(s, "VM_FAIL", "lost")
      BY <2>1 DEF idt_deliver_rmode
    <3> HIDE DEF fate
    <3> QED BY <3>1, <3>2 DEF Delivery
  <2> QED BY <1>2, <1>4, <2>2
<1>5. CASE idt # NoEvent /\ ~ rmode(s)
  <2> DEFINE t == vmcs_read(s, "int_info")
             u == IF idt.type = "SW_INT" THEN Write(t, "insn_len", 2) ELSE t
             w == Write(u, "int_info", idt)
  <2>1. d = IF t.mem.int_info = NoEvent THEN Delivery(w, "VM_DONE", "injected")
            ELSE Delivery(t, "VM_FAIL", "lost")
    <3>1. d = idt_deliver_pmode(s, idt)
      BY <1>5 DEF idt_deliver
    <3> QED BY <3>1 DEF idt_deliver_pmode
  <2>2. Reads(s, t, "int_info")
    BY FieldNames, ReadGood
  <2> HIDE DEF t
  <2>3. t.mem["int_info"] = View(s)["int_info"] /\ Good(t)
    BY <2>2, ViewType DEF Reads
  <2>4. CASE View(s).int_info # NoEvent
    <3>1. d = Delivery(t, "VM_FAIL", "lost")
      BY <2>1, <2>3, <2>4
    <3>2. d.s = t /\ d.fate = "lost"
      BY <3>1 DEF Delivery
    <3>3. Moves(s, t, {"int_info", "insn_len"}) /\ View(t) = View(s)
          /\ t.efer = s.efer /\ t.saved = s.saved
      BY <2>2 DEF Moves, Reads, SameRest
    <3> QED BY <1>1, <2>4, <3>2, <3>3 DEF Delivered
  <2>5. CASE View(s).int_info = NoEvent
    <3>1. d = Delivery(w, "VM_DONE", "injected")
      BY <2>1, <2>3, <2>5
    <3>2. d.s = w /\ d.fate = "injected"
      BY <3>1 DEF Delivery
    <3>3. Moves(t, u, {"insn_len"}) /\ u.efer = t.efer /\ u.saved = t.saved
      <4>1. CASE idt.type = "SW_INT"
        <5>1. 2 \in TypeOf["insn_len"] /\ u = Write(t, "insn_len", 2)
          BY <4>1 DEF TypeOf
        <5> HIDE DEF u
        <5>2. Writes(t, u, "insn_len", 2)
          BY <5>1, <2>3, FieldNames, WriteGood
        <5> QED BY <5>2 DEF Writes, Moves, SameRest
      <4>2. CASE idt.type # "SW_INT"
        BY <4>2, <2>3 DEF Moves
      <4> QED BY <4>1, <4>2
    <3> HIDE DEF u
    <3>4. idt \in TypeOf["int_info"]
      <4>1. PICK e \in EventTypes : \E v \in Vectors[e] : idt = Event(e, v)
        BY <1>5 DEF Events
      <4>2. PICK v \in Vectors[e] : idt = Event(e, v)
        BY <4>1
      <4>3. e \in {"HW_INT", "SW_INT", "HW_EXCP"}
        BY LimitsAssumption
      <4> QED BY <4>2, <4>3, EventTypeOf
    <3>5. Writes(u, w, "int_info", idt)
      BY <3>3, <3>4, FieldNames, WriteGood DEF Moves
    <3> HIDE DEF w
    <3>6. Moves(s, w, {"int_info", "insn_len"})
      BY <2>2, <3>3, <3>5 DEF Moves, Reads, Writes, SameRest
    <3>7. View(w).int_info = idt /\ w.efer = s.efer /\ w.saved = s.saved
      BY <2>2, <3>3, <3>5 DEF Reads, Writes, SameRest
    <3> QED BY <1>5, <2>5, <3>2, <3>6, <3>7 DEF Delivered
  <2> QED BY <2>4, <2>5
<1> QED BY <1>3, <1>4, <1>5

\* vmx_vmexit_post_hdl: the single-step trap is made to agree with TF and the
\* shadow, and all the rest is committed as it was left.
LEMMA PostCommits ==
  ASSUME NEW s, Good(s), "rflags" \in DOMAIN s.mem, NEW reason,
         NEW p, p = vmx_vmexit_post_hdl(s, reason)
  PROVE  /\ p.hw \in Vmcs /\ p.mem = <<>> /\ p.efer = s.efer /\ p.saved = s.saved
         /\ \A f \in Fields \ {"rflags", "dbg_excp"} : p.hw[f] = View(s)[f]
         /\ p.hw.rflags.ie = View(s).rflags.ie
         /\ p.hw.interrupt.shadow =>
              (p.hw.dbg_excp.bs <=> p.hw.rflags.tf /\ ~ p.hw.dbgctl.btf)
         /\ s.emu /\ View(s).rflags.tf /\ ~ View(s).interrupt.shadow =>
              p.hw.dbg_excp.bs
<1> DEFINE a == db_check_pending(s, reason)
           c == check_dbgctl(a)
<1>1. p = vmx_vmcs_commit(c)
  BY DEF vmx_vmexit_post_hdl
<1>2. /\ Moves(s, a, {"rflags", "dbg_excp"}) /\ a.efer = s.efer /\ a.saved = s.saved
      /\ "rflags" \in DOMAIN a.mem
      /\ View(a).rflags.ie = View(s).rflags.ie
      /\ s.emu /\ View(s).rflags.tf => View(a).dbg_excp.bs
  <2> DEFINE t == vmcs_read(s, "dbg_excp")
             r == [t.mem.rflags EXCEPT !.tf = FALSE]
             u == Write(t, "rflags", r)
             w == Write(u, "dbg_excp", [bs |-> TRUE])
  <2>1. a = IF vmexit_on_insn(s, reason) /\ t.mem.rflags.tf THEN w ELSE t
    BY DEF db_check_pending
  <2>2. s.emu => vmexit_on_insn(s, reason)
    BY DEF vmexit_on_insn
  <2>3. Reads(s, t, "dbg_excp")
    BY FieldNames, ReadGood
  <2> HIDE DEF a, t
  <2>4. /\ t.mem["rflags"] = View(s)["rflags"] /\ Good(t) /\ View(s) \in Vmcs
        /\ "rflags" \in DOMAIN t.mem
    BY <2>3, ViewType DEF Reads
  <2>5. r \in TypeOf["rflags"] /\ r.ie = View(s).rflags.ie
    <3> DEFINE v == View(s)["rflags"]
    <3>1. v \in Rflags
      BY <2>4 DEF Vmcs
    <3>2. Rflags = TypeOf["rflags"]
      BY DEF TypeOf
    <3>3. r = [v EXCEPT !.tf = FALSE]
      BY <2>4
    <3> HIDE DEF v, r
    <3>4. r \in Rflags /\ r.ie = v.ie
      BY <3>1, <3>3 DEF Rflags
    <3> QED BY <3>2, <3>4 DEF v
  <2>6. [bs |-> TRUE] \in TypeOf["dbg_excp"]
    BY DEF TypeOf, PendingDbg
  <2> HIDE DEF r
  <2>7. Writes(t, u, "rflags", r)
    BY <2>4, <2>5, FieldNames, WriteGood
  <2> HIDE DEF u
  <2>8. Writes(u, w, "dbg_excp", [bs |-> TRUE])
    BY <2>6, <2>7, FieldNames, WriteGood DEF Writes
  <2> HIDE DEF w
  <2>9. CASE vmexit_on_insn(s, reason) /\ t.mem.rflags.tf
    <3>1. a = w
      BY <2>1, <2>9
    <3>2. View(w)["rflags"] = r /\ View(w)["dbg_excp"] = [bs |-> TRUE]
      BY <2>7, <2>8, FieldNames DEF Writes
    <3>3. Moves(s, w, {"rflags", "dbg_excp"}) /\ w.efer = s.efer /\ w.saved = s.saved
      BY <2>3, <2>7, <2>8 DEF Moves, Reads, Writes, SameRest
    <3>4. "rflags" \in DOMAIN w.mem
      BY <2>7, <2>8 DEF Writes
    <3> QED BY <2>5, <3>1, <3>2, <3>3, <3>4
  <2>10. CASE ~ (vmexit_on_insn(s, reason) /\ t.mem.rflags.tf)
    <3>1. a = t
      BY <2>1, <2>10
    <3>2. Moves(s, t, {"rflags", "dbg_excp"}) /\ t.efer = s.efer /\ t.saved = s.saved
          /\ View(t) = View(s)
      BY <2>3 DEF Moves, Reads, SameRest
    <3>3. ~ (s.emu /\ View(s).rflags.tf)
      BY <2>2, <2>4, <2>10
    <3> QED BY <2>4, <3>1, <3>2, <3>3
  <2> QED BY <2>9, <2>10
<1> HIDE DEF a
<1>3. /\ Moves(a, c, {"dbg_excp"}) /\ c.efer = a.efer /\ c.saved = a.saved
      /\ View(c).interrupt.shadow =>
           (View(c).dbg_excp.bs <=> View(c).rflags.tf /\ ~ View(c).dbgctl.btf)
      /\ ~ View(a).interrupt.shadow => View(c).dbg_excp = View(a).dbg_excp
  <2> DEFINE t == vmcs_read(a, "interrupt")
             b == vmcs_read(t, "dbgctl")
             u == vmcs_read(b, "dbg_excp")
             x == [bs |-> u.mem.rflags.tf /\ ~ u.mem.dbgctl.btf]
             w == Write(u, "dbg_excp", x)
  <2>1. c = IF t.mem.interrupt.shadow THEN w ELSE t
    BY DEF check_dbgctl
  <2>2. Good(a)
    BY <1>2 DEF Moves
  <2>3. Reads(a, t, "interrupt")
    BY <2>2, FieldNames, ReadGood
  <2> HIDE DEF c, t
  <2>4. Reads(t, b, "dbgctl")
    BY <2>3, FieldNames, ReadGood DEF Reads
  <2> HIDE DEF b
  <2>5. Reads(b, u, "dbg_excp")
    BY <2>4, FieldNames, ReadGood DEF Reads
  <2> HIDE DEF u
  <2>6. t.mem["interrupt"] = View(a)["interrupt"]
    BY <2>3, ViewType DEF Reads
  <2>7. Good(u) /\ View(u) = View(a) /\ {"rflags", "dbgctl"} \subseteq DOMAIN u.mem
    BY <1>2, <2>3, <2>4, <2>5 DEF Reads
  <2>8. /\ u.mem["rflags"] = View(a)["rflags"] /\ u.mem["dbgctl"] = View(a)["dbgctl"]
        /\ View(a) \in Vmcs
    BY <2>7, ViewType
  <2>9. x \in TypeOf["dbg_excp"] /\ x.bs = (View(a).rflags.tf /\ ~ View(a).dbgctl.btf)
    BY <2>8 DEF Vmcs, Rflags, PendingDbg, TypeOf
  <2> HIDE DEF x
  <2>10. Writes(u, w, "dbg_excp", x)
    BY <2>7, <2>9, FieldNames, WriteGood
  <2> HIDE DEF w
  <2>11. CASE View(a).interrupt.shadow
    <3>1. c = w
      BY <2>1, <2>6, <2>11
    <3>2. Moves(a, w, {"dbg_excp"}) /\ w.efer = a.efer /\ w.saved = a.saved
      BY <2>3, <2>4, <2>5, <2>10 DEF Moves, Reads, Writes, SameRest
    <3>3. /\ View(w).dbg_excp = x /\ View(w).rflags = View(a).rflags
          /\ View(w).dbgctl = View(a).dbgctl
      BY <2>7, <2>10, FieldNames DEF Writes
    <3> QED BY <2>9, <2>11, <3>1, <3>2, <3>3
  <2>12. CASE ~ View(a).interrupt.shadow
    <3>1. c = t
      BY <2>1, <2>6, <2>12
    <3>2. Moves(a, t, {"dbg_excp"}) /\ t.efer = a.efer /\ t.saved = a.saved
          /\ View(t) = View(a)
      BY <2>3 DEF Moves, Reads, SameRest
    <3> QED BY <2>12, <3>1, <3>2
  <2> QED BY <2>11, <2>12
<1> HIDE DEF c
<1>4. Good(c)
  BY <1>3 DEF Moves
<1>5. p.hw = View(c) /\ p.mem = <<>> /\ p.efer = c.efer /\ p.saved = c.saved
  BY <1>1, <1>4, CommitView
<1>6. p.hw \in Vmcs
  BY <1>4, <1>5, ViewType
<1>7. \A f \in Fields \ {"rflags", "dbg_excp"} : View(c)[f] = View(s)[f]
  BY <1>2, <1>3 DEF Moves
<1>8. /\ View(c).rflags = View(a).rflags
      /\ View(a).interrupt = View(s).interrupt
  BY <1>2, <1>3, FieldNames DEF Moves
<1> QED BY <1>2, <1>3, <1>5, <1>6, <1>7, <1>8

-----------------------------------------------------------------------------
(* The invariant is inductive.                                             *)

\* An interrupt is delivered again only where the processor could take it.
Takable(s, idt) ==
  idt.type = "HW_INT" /\ ~ rmode(s) =>
    View(s).rflags.ie /\ ~ View(s).interrupt.shadow

\* The rest of vmx_vmexit_handler, once the resolver has returned.
LEMMA ResumeInv ==
  ASSUME IInv, NEW s, NEW sane, NEW o, Resolved(s, sane, o), sane = ~ misled', o = own',
         misled' \in BOOLEAN, own' \in LimitValues, NEW reason,
         NEW idt \in {NoEvent} \cup Events, NEW emulated \in BOOLEAN, Takable(s, idt),
         Resume(reason, s, idt, emulated)
  PROVE  IInv'
<1> DEFINE raised == IF "int_info" \in s.dt THEN s.mem.int_info ELSE NoEvent
           d == idt_deliver(s, idt, emulated)
           p == vmx_vmexit_post_hdl(d.s, reason)
<1>1. CASE s.rc = "VM_FAIL"
  <2>1. phase' = "stopped" /\ vmcs' = vmcs /\ efer' = efer /\ saved' = saved
    BY <1>1 DEF Resume, vmx_vmexit_failure
  <2> QED BY <2>1 DEF IInv, TypeOK, Running, EventsAccounted, StepKept
<1>2. CASE s.rc # "VM_FAIL"
  <2>1. /\ vmcs' = p.hw /\ mem' = p.mem /\ efer' = p.efer /\ saved' = p.saved
        /\ phase' = vmx_vmresume(p.hw)
        /\ last' = [rmode |-> rmode(s), idt |-> idt, raised |-> raised,
                    rc |-> d.rc, fate |-> d.fate,
                    stepped |-> vmcs.rflags.tf /\ s.emu /\ s.mem.rflags.tf]
    BY <1>2 DEF Resume
  <2>2. /\ last'.rmode = rmode(s) /\ last'.idt = idt /\ last'.raised = raised
        /\ last'.fate = d.fate
        /\ last'.stepped = (vmcs.rflags.tf /\ s.emu /\ s.mem.rflags.tf)
    BY <2>1
  <2>3. /\ Good(s) /\ View(s) \in Vmcs /\ "rflags" \in DOMAIN s.mem
        /\ s.mem["rflags"] = View(s)["rflags"]
        /\ "int_info" \in s.dt => s.mem["int_info"] = View(s)["int_info"]
    <3>1. Good(s) /\ {"rflags", "cr0", "cs"} \subseteq DOMAIN s.mem
      BY DEF Resolved
    <3>2. s.dt \subseteq DOMAIN s.mem
      BY <3>1 DEF Good
    <3> QED BY <3>1, <3>2, ViewType
  <2>4. /\ raised # NoEvent => raised = View(s).int_info
        /\ View(s).int_info # NoEvent => raised = View(s).int_info
    BY <2>3 DEF Resolved
  <2>5. View(s).int_info # NoEvent => View(s).int_info.type = "HW_EXCP"
    BY DEF Resolved
  <2> HIDE DEF raised
  <2>6. Delivered(s, d, idt)
    BY <2>3, <2>5, DeliverMoves DEF Takable
  <2> DEFINE x == d.s
  <2>7. /\ Good(x) /\ x.emu = s.emu /\ x.efer = s.efer /\ x.saved = s.saved
        /\ "rflags" \in DOMAIN x.mem
        /\ \A f \in Fields \ {"int_info", "insn_len"} : View(x)[f] = View(s)[f]
    BY <2>3, <2>6 DEF Delivered, Moves
  <2>8. /\ View(s).int_info # NoEvent => View(x).int_info = View(s).int_info
        /\ d.fate = "injected" => View(x).int_info = idt
        /\ idt # NoEvent /\ d.fate \in {"none", "lost"} =>
              View(s).int_info # NoEvent \/ rmode(s)
        /\ View(x).int_info.type = "HW_INT" =>
              View(s).rflags.ie /\ ~ View(s).interrupt.shadow
    BY <2>6 DEF Delivered
  <2>9. p = vmx_vmexit_post_hdl(x, reason)
    OBVIOUS
  <2> HIDE DEF d, x, p
  <2>10. /\ p.hw \in Vmcs /\ p.mem = <<>> /\ p.efer = x.efer /\ p.saved = x.saved
         /\ \A f \in Fields \ {"rflags", "dbg_excp"} : p.hw[f] = View(x)[f]
         /\ p.hw.rflags.ie = View(x).rflags.ie
         /\ p.hw.interrupt.shadow =>
              (p.hw.dbg_excp.bs <=> p.hw.rflags.tf /\ ~ p.hw.dbgctl.btf)
         /\ x.emu /\ View(x).rflags.tf /\ ~ View(x).interrupt.shadow =>
              p.hw.dbg_excp.bs
    BY <2>7, <2>9, PostCommits
  <2>11. /\ p.hw.cr0 = View(s).cr0 /\ p.hw.cr4 = View(s).cr4
         /\ p.hw.entry = View(s).entry /\ p.hw.ia32_efer = View(s).ia32_efer
         /\ p.hw.idtr_limit = View(s).idtr_limit /\ p.hw.proc2 = View(s).proc2
         /\ p.hw.interrupt = View(s).interrupt /\ p.hw.int_info = View(x).int_info
         /\ View(x).rflags = View(s).rflags /\ View(x).interrupt = View(s).interrupt
    BY <2>7, <2>10, FieldNames
  <2>12. p.efer = s.efer /\ p.saved = s.saved /\ s.efer \in Efer /\ s.saved \in LimitValues
    BY <2>3, <2>7, <2>10 DEF Good, HandlerStates
  <2>13. sane => ModesAgree(p.hw, p.efer)
    BY <2>11, <2>12 DEF Resolved, ModesAgree
  <2>14. LimitKept(p.hw, p.saved, o)
    BY <2>11, <2>12 DEF Resolved, LimitKept
  <2>15. sane => ValidGuest(p.hw)
    <3>1. SUFFICES ASSUME sane PROVE ValidGuest(p.hw)
      OBVIOUS
    <3>2. /\ p.hw.entry.ia32e \in BOOLEAN /\ p.hw.ia32_efer.lma \in BOOLEAN
          /\ p.hw.cr0.pg \in BOOLEAN
      BY <2>10 DEF Vmcs, EntryControls, Efer, Cr0
    <3>3. invg_cr_dr_msr(p.hw)
      BY <3>1, <3>2, <2>13 DEF invg_cr_dr_msr, ModesAgree
    <3>4. invg_loc(p.hw)
      BY <2>8, <2>10, <2>11 DEF invg_loc
    <3>5. invg_nonreg(p.hw)
      BY <2>8, <2>10, <2>11 DEF invg_nonreg
    <3> QED BY <3>3, <3>4, <3>5 DEF ValidGuest
  <2>16. phase' \in {"entered", "refused"} /\ (sane => phase' = "entered")
    BY <2>1, <2>15 DEF vmx_vmresume
  <2>17. TypeOK'
    BY <2>1, <2>10, <2>12, <2>16 DEF TypeOK
  <2>18. EventsAccounted'
    BY <2>1, <2>2, <2>4, <2>8, <2>11 DEF EventsAccounted
  <2>19. StepKept'
    <3>1. SUFFICES ASSUME last'.stepped PROVE p.hw.dbg_excp.bs
      BY <2>1 DEF StepKept
    <3>2. s.emu /\ View(s).rflags.tf
      BY <3>1, <2>2, <2>3
    <3>3. ~ View(s).interrupt.shadow
      BY <3>2 DEF Resolved
    <3> QED BY <3>2, <3>3, <2>7, <2>10, <2>11
  <2>20. (Running => mem = <<>> /\ LimitKept(vmcs, saved, own))'
    <3>1. mem' = <<>> /\ LimitKept(vmcs', saved', own')
      BY <2>1, <2>10, <2>14
    <3> QED BY <3>1
  <2>21. (Running /\ ~ misled => ModesAgree(vmcs, efer))'
    <3>1. ~ misled' => ModesAgree(vmcs', efer')
      BY <2>1, <2>13
    <3> QED BY <3>1
  <2> QED BY <2>16, <2>17, <2>18, <2>19, <2>20, <2>21 DEF IInv
<1> QED BY <1>1, <1>2

LEMMA InstructionInv ==
  ASSUME IInv, NEW s, NEW sane, NEW o, Resolved(s, sane, o), sane = ~ misled', o = own',
         misled' \in BOOLEAN, own' \in LimitValues, Instruction(s)
  PROVE  IInv'
<1>1. Takable(s, NoEvent)
  BY DEF Takable, NoEvent
<1>2. Resume("insn", s, NoEvent, FALSE)
  BY DEF Instruction
<1> QED BY <1>1, <1>2, ResumeInv

\* An exit that ends with emulate_done and leaves the ghosts alone.
LEMMA EmulatedInv ==
  ASSUME IInv, NEW s, Resolved(s, ~ misled, own), Instruction(emulate_done(s)),
         UNCHANGED <<own, misled>>
  PROVE  IInv'
<1> DEFINE t == emulate_done(s)
<1>1. Resolved(t, ~ misled, own) /\ Instruction(t)
  BY DoneResolved
<1> HIDE DEF t
<1>2. misled' = misled /\ own' = own /\ misled \in BOOLEAN /\ own \in LimitValues
  BY DEF IInv, TypeOK
<1>3. Resolved(t, ~ misled', own')
  BY <1>1, <1>2
<1> QED BY <1>1, <1>2, <1>3, InstructionInv

LEMMA InitInv == Init => IInv
<1> SUFFICES ASSUME Init PROVE IInv
  OBVIOUS
<1> DEFINE g == vmx_vmcs_guest_state_init
           e == vmx_vmcs_entry_controls_init
           x == vmx_vmcs_exec_controls_init
           ex == Over(e, x)
<1>1. /\ DOMAIN x = {"proc2"} /\ DOMAIN e = {"int_info", "insn_len", "entry"}
      /\ DOMAIN g = {"interrupt", "rflags", "dbg_excp", "dbgctl", "cr0", "cr4", "cs",
                     "ia32_efer", "idtr_limit"}
  BY DEF vmx_vmcs_guest_state_init, vmx_vmcs_entry_controls_init,
         vmx_vmcs_exec_controls_init
<1>2. /\ DOMAIN ex = {"proc2", "int_info", "insn_len", "entry"}
      /\ ex["proc2"] = [dt |-> TRUE] /\ ex["int_info"] = NoEvent
      /\ ex["insn_len"] = 0 /\ ex["entry"] = [ia32e |-> FALSE]
  BY <1>1 DEF Over, vmx_vmcs_entry_controls_init, vmx_vmcs_exec_controls_init
<1> HIDE DEF ex
<1>3. vmcs = [f \in DOMAIN g \cup DOMAIN ex |-> IF f \in DOMAIN g THEN g[f] ELSE ex[f]]
  BY DEF Init, vmx_vmcs_init, Over, ex
<1>4. DOMAIN g \cup DOMAIN ex = Fields
  BY <1>1, <1>2 DEF Fields, GuestFields, ControlFields
<1>5. /\ vmcs["interrupt"] = g["interrupt"] /\ vmcs["rflags"] = g["rflags"]
      /\ vmcs["dbg_excp"] = g["dbg_excp"] /\ vmcs["dbgctl"] = g["dbgctl"]
      /\ vmcs["cr0"] = g["cr0"] /\ vmcs["cr4"] = g["cr4"] /\ vmcs["cs"] = g["cs"]
      /\ vmcs["ia32_efer"] = g["ia32_efer"] /\ vmcs["idtr_limit"] = g["idtr_limit"]
      /\ vmcs["proc2"] = ex["proc2"] /\ vmcs["int_info"] = ex["int_info"]
      /\ vmcs["insn_len"] = ex["insn_len"] /\ vmcs["entry"] = ex["entry"]
  BY <1>1, <1>2, <1>3
<1>6. /\ vmcs["interrupt"] = [shadow |-> FALSE]
      /\ vmcs["rflags"] = [tf |-> FALSE, ie |-> TRUE]
      /\ vmcs["dbg_excp"] = [bs |-> FALSE] /\ vmcs["dbgctl"] = [btf |-> FALSE]
      /\ vmcs["cr0"] = [pe |-> FALSE, pg |-> FALSE] /\ vmcs["cr4"] = [pae |-> FALSE]
      /\ vmcs["cs"] = [rpl |-> 0, l |-> FALSE]
      /\ vmcs["ia32_efer"] = [lme |-> FALSE, lma |-> FALSE]
      /\ vmcs["idtr_limit"] = RmodeLimit
      /\ vmcs["proc2"] = [dt |-> TRUE] /\ vmcs["int_info"] = NoEvent
      /\ vmcs["insn_len"] = 0 /\ vmcs["entry"] = [ia32e |-> FALSE]
  BY <1>2, <1>5 DEF vmx_vmcs_guest_state_init
<1>7. vmcs \in Vmcs
  <2>1. DOMAIN vmcs = {"int_info", "insn_len", "interrupt", "rflags", "dbg_excp", "dbgctl",
          "cr0", "cr4", "cs", "entry", "ia32_efer", "idtr_limit", "proc2"}
    BY <1>3, <1>4 DEF Fields, GuestFields, ControlFields
  <2>2. vmcs = [f \in Fields |-> vmcs[f]]
    BY <1>3, <1>4
  <2>3. /\ vmcs["interrupt"] \in TypeOf["interrupt"] /\ vmcs["rflags"] \in TypeOf["rflags"]
        /\ vmcs["dbg_excp"] \in TypeOf["dbg_excp"] /\ vmcs["dbgctl"] \in TypeOf["dbgctl"]
        /\ vmcs["cr0"] \in TypeOf["cr0"] /\ vmcs["cr4"] \in TypeOf["cr4"]
    BY <1>6 DEF TypeOf, InterruptState, Rflags, PendingDbg, Cr0, Cr4
  <2>4. /\ vmcs["cs"] \in TypeOf["cs"] /\ vmcs["ia32_efer"] \in TypeOf["ia32_efer"]
        /\ vmcs["idtr_limit"] \in TypeOf["idtr_limit"] /\ vmcs["proc2"] \in TypeOf["proc2"]
        /\ vmcs["insn_len"] \in TypeOf["insn_len"] /\ vmcs["entry"] \in TypeOf["entry"]
        /\ vmcs["int_info"] \in TypeOf["int_info"]
    BY <1>6 DEF TypeOf, Segment, Efer, LimitValues, SecondaryControls, EntryControls
  <2>5. \A f \in Fields : vmcs[f] \in TypeOf[f]
    BY <2>3, <2>4 DEF Fields, GuestFields, ControlFields
  <2> QED BY <2>2, <2>5, VmcsOf
<1>8. /\ mem = <<>> /\ efer = [lme |-> FALSE, lma |-> FALSE] /\ saved = 0 /\ own = 0
      /\ phase = "entered" /\ misled = FALSE /\ last = NoExit
  BY DEF Init
<1>9. TypeOK
  BY <1>7, <1>8 DEF TypeOK, Efer, LimitValues
<1>10. LimitKept(vmcs, saved, own) /\ ModesAgree(vmcs, efer)
  BY <1>6, <1>8 DEF LimitKept, ModesAgree
<1>11. EventsAccounted /\ StepKept
  BY <1>8 DEF EventsAccounted, StepKept, NoExit
<1> QED BY <1>8, <1>9, <1>10, <1>11 DEF IInv

LEMMA GuestRunsInv == IInv /\ GuestRuns => IInv'
<1> SUFFICES ASSUME IInv, GuestRuns PROVE IInv'
  OBVIOUS
<1>1. PICK r \in Rflags, i \in InterruptState, b \in BOOLEAN,
           c \in {d \in Segment : d.l => vmcs.entry.ia32e},
           l \in {vmcs.idtr_limit} \cup (IF vmcs.proc2.dt THEN {} ELSE Limits) :
        /\ vmcs' = [vmcs EXCEPT !.int_info = NoEvent, !.dbg_excp = [bs |-> FALSE],
                      !.rflags = r, !.interrupt = i, !.cs = c, !.dbgctl.btf = b,
                      !.idtr_limit = l]
        /\ own' = IF l # vmcs.idtr_limit THEN l ELSE own
  BY DEF GuestRuns
<1>2. /\ phase = "entered" /\ phase' = "guest" /\ mem' = mem /\ efer' = efer
      /\ saved' = saved /\ misled' = misled
  BY DEF GuestRuns
<1>3. vmcs \in Vmcs /\ own \in LimitValues
  BY DEF IInv, TypeOK
<1>4. l \in LimitValues
  BY <1>1, <1>3 DEF Vmcs, LimitValues
<1>5. [vmcs.dbgctl EXCEPT !.btf = b] \in [btf : BOOLEAN]
  BY <1>3 DEF Vmcs
<1> DEFINE q == [vmcs.dbgctl EXCEPT !.btf = b]
<1>6. vmcs' = [vmcs EXCEPT !.int_info = NoEvent, !.dbg_excp = [bs |-> FALSE],
                 !.rflags = r, !.interrupt = i, !.cs = c, !.dbgctl = q, !.idtr_limit = l]
  BY <1>1
<1>7. [bs |-> FALSE] \in PendingDbg
  BY DEF PendingDbg
<1> HIDE DEF q
<1>8. /\ vmcs' \in Vmcs /\ vmcs'.int_info = NoEvent /\ vmcs'.idtr_limit = l
      /\ vmcs'.cr0 = vmcs.cr0 /\ vmcs'.cr4 = vmcs.cr4 /\ vmcs'.entry = vmcs.entry
      /\ vmcs'.ia32_efer = vmcs.ia32_efer /\ vmcs'.proc2 = vmcs.proc2
  <2> DEFINE n == vmcs'
             z == [bs |-> FALSE]
  <2>1. vmcs = [f \in Fields |-> vmcs[f]]
    BY <1>3 DEF Vmcs, Fields, GuestFields, ControlFields
  <2>2. n = [f \in Fields |-> n[f]] /\ DOMAIN vmcs = Fields
    BY <2>1, <1>6
  <2> HIDE DEF z
  <2>3. /\ n["int_info"] = NoEvent /\ n["idtr_limit"] = l /\ n["dbg_excp"] = z
        /\ n["rflags"] = r /\ n["interrupt"] = i /\ n["cs"] = c /\ n["dbgctl"] = q
        /\ n["cr0"] = vmcs["cr0"] /\ n["cr4"] = vmcs["cr4"] /\ n["entry"] = vmcs["entry"]
        /\ n["ia32_efer"] = vmcs["ia32_efer"] /\ n["proc2"] = vmcs["proc2"]
        /\ n["insn_len"] = vmcs["insn_len"]
    BY <2>2, <1>6, FieldNames DEF z
  <2> HIDE DEF n
  <2>4. /\ NoEvent \in TypeOf["int_info"] /\ l \in TypeOf["idtr_limit"]
        /\ z \in TypeOf["dbg_excp"] /\ r \in TypeOf["rflags"]
        /\ i \in TypeOf["interrupt"] /\ c \in TypeOf["cs"] /\ q \in TypeOf["dbgctl"]
    BY <1>4, <1>5, <1>7 DEF TypeOf, z, q
  <2>5. /\ vmcs["cr0"] \in TypeOf["cr0"] /\ vmcs["cr4"] \in TypeOf["cr4"]
        /\ vmcs["entry"] \in TypeOf["entry"] /\ vmcs["proc2"] \in TypeOf["proc2"]
        /\ vmcs["ia32_efer"] \in TypeOf["ia32_efer"]
        /\ vmcs["insn_len"] \in TypeOf["insn_len"]
    BY <1>3, FieldNames, FieldType
  <2>6. \A f \in Fields : n[f] \in TypeOf[f]
    BY <2>3, <2>4, <2>5 DEF Fields, GuestFields, ControlFields
  <2>7. n \in Vmcs
    BY <2>2, <2>6, VmcsOf
  <2> QED BY <2>3, <2>7 DEF n
<1>9. TypeOK'
  BY <1>1, <1>2, <1>3, <1>4, <1>8 DEF IInv, TypeOK
<1>10. LimitKept(vmcs', saved', own')
  <2>1. LimitKept(vmcs, saved, own)
    BY <1>2 DEF IInv, Running
  <2>2. vmcs.cr0.pe \in BOOLEAN /\ vmcs.proc2.dt \in BOOLEAN
    BY <1>3 DEF Vmcs, Cr0, SecondaryControls
  <2>3. CASE l = vmcs.idtr_limit
    BY <2>1, <2>3, <1>1, <1>2, <1>8 DEF LimitKept
  <2>4. CASE l # vmcs.idtr_limit
    <3>1. ~ vmcs.proc2.dt /\ own' = l
      BY <2>4, <1>1
    <3> QED BY <3>1, <2>1, <2>2, <1>8 DEF LimitKept
  <2> QED BY <2>3, <2>4
<1>11. ~ misled => ModesAgree(vmcs', efer')
  BY <1>2, <1>8 DEF IInv, Running, ModesAgree
<1> QED BY <1>2, <1>8, <1>9, <1>10, <1>11
        DEF IInv, Running, EventsAccounted, StepKept

\* Control-register writes and the other instructions that end in
\* emulate_done.
LEMMA EmulatedActions ==
  ASSUME IInv, WriteCr0 \/ WriteCr3 \/ WriteCr4 \/ Clts \/ OtherMsr \/ Cpuid
  PROVE  IInv'
<1> DEFINE x == Exit
<1>1. phase = "guest" /\ UNCHANGED <<own, misled>>
  BY DEF WriteCr0, WriteCr3, WriteCr4, Clts, OtherMsr, Cpuid, Instruction
<1>2. Resolved(x, ~ misled, own) /\ (~ misled) \in BOOLEAN
  BY <1>1, ExitResolved DEF IInv, TypeOK
<1>3. "VM_DONE" \in ReturnCodes
  BY DEF ReturnCodes
<1>4. CASE WriteCr0
  <2>1. PICK v \in Cr0, cacheOk \in BOOLEAN, pdpeOk \in BOOLEAN :
          Instruction(emulate_done(resolve_cr_wr(x, resolve_cr0_wr(x, v, cacheOk, pdpeOk))))
    BY <1>4 DEF WriteCr0
  <2> HIDE DEF x
  <2>2. Resolved(resolve_cr0_wr(x, v, cacheOk, pdpeOk), ~ misled, own)
    BY <1>2, Cr0Resolved
  <2>3. Resolved(resolve_cr_wr(x, resolve_cr0_wr(x, v, cacheOk, pdpeOk)), ~ misled, own)
    BY <1>2, <2>2, CrResolved
  <2> QED BY <1>1, <2>1, <2>3, EmulatedInv
<1>5. CASE WriteCr3
  <2>1. PICK pdpeOk \in BOOLEAN :
          Instruction(emulate_done(resolve_cr_wr(x, resolve_cr3_wr(x, pdpeOk))))
    BY <1>5 DEF WriteCr3
  <2> HIDE DEF x
  <2>2. Resolved(resolve_cr3_wr(x, pdpeOk), ~ misled, own)
    BY <1>2, Cr3Resolved
  <2>3. Resolved(resolve_cr_wr(x, resolve_cr3_wr(x, pdpeOk)), ~ misled, own)
    BY <1>2, <2>2, CrResolved
  <2> QED BY <1>1, <2>1, <2>3, EmulatedInv
<1>6. CASE WriteCr4
  <2>1. PICK v \in Cr4, other \in BOOLEAN, pdpeOk \in BOOLEAN :
          Instruction(emulate_done(resolve_cr_wr(x, resolve_cr4_wr(x, v, other, pdpeOk))))
    BY <1>6 DEF WriteCr4
  <2> HIDE DEF x
  <2>2. Resolved(resolve_cr4_wr(x, v, other, pdpeOk), ~ misled, own)
    BY <1>2, Cr4Resolved
  <2>3. Resolved(resolve_cr_wr(x, resolve_cr4_wr(x, v, other, pdpeOk)), ~ misled, own)
    BY <1>2, <2>2, CrResolved
  <2> QED BY <1>1, <2>1, <2>3, EmulatedInv
<1>7. CASE Clts
  <2>1. Instruction(emulate_done(emulate_clts(x)))
    BY <1>7 DEF Clts
  <2> HIDE DEF x
  <2>2. Resolved(emulate_clts(x), ~ misled, own)
    BY <1>2, CltsResolved
  <2> QED BY <1>1, <2>1, <2>2, EmulatedInv
<1>8. CASE OtherMsr \/ Cpuid
  <2>1. Instruction(emulate_done(Return(x, "VM_DONE")))
    BY <1>8 DEF OtherMsr, Cpuid, resolve_msr_other, resolve_cpuid
  <2> HIDE DEF x
  <2>2. Resolved(Return(x, "VM_DONE"), ~ misled, own)
    BY <1>2, <1>3, ReturnResolved
  <2> QED BY <1>1, <2>1, <2>2, EmulatedInv
<1> QED BY <1>4, <1>5, <1>6, <1>7, <1>8

\* An exit that leaves the ghosts alone.
LEMMA PlainInv ==
  ASSUME IInv, NEW s, Resolved(s, ~ misled, own), Instruction(s), UNCHANGED <<own, misled>>
  PROVE  IInv'
<1>1. misled' = misled /\ own' = own /\ misled \in BOOLEAN /\ own \in LimitValues
  BY DEF IInv, TypeOK
<1>2. Resolved(s, ~ misled', own')
  BY <1>1
<1> QED BY <1>1, <1>2, InstructionInv

LEMMA OtherActions ==
  ASSUME IInv, Lmsw \/ OtherDt \/ Hypercall \/ Xsetbv \/ Unexpected
  PROVE  IInv'
<1> DEFINE x == Exit
<1>1. phase = "guest" /\ UNCHANGED <<own, misled>>
  BY DEF Lmsw, OtherDt, Hypercall, Xsetbv, Unexpected, Instruction
<1>2. Resolved(x, ~ misled, own) /\ (~ misled) \in BOOLEAN
  BY <1>1, ExitResolved DEF IInv, TypeOK
<1>3. /\ "VM_DONE" \in ReturnCodes /\ "VM_FAIL" \in ReturnCodes
      /\ "UD" \in Raisable /\ "GP" \in Raisable
  BY DEF ReturnCodes, Raisable
<1>4. Resolved(Return(x, "VM_DONE"), ~ misled, own)
      /\ Resolved(Return(x, "VM_FAIL"), ~ misled, own)
  <2> HIDE DEF x
  <2> QED BY <1>2, <1>3, ReturnResolved
<1>5. CASE Lmsw
  <2>1. PICK pe \in BOOLEAN, pdpeOk \in BOOLEAN, register \in BOOLEAN :
          Instruction(IF register THEN emulate_done(resolve_lmsw(x, pe, pdpeOk))
                      ELSE Return(x, "VM_FAIL"))
    BY <1>5 DEF Lmsw
  <2> HIDE DEF x
  <2>2. Resolved(resolve_lmsw(x, pe, pdpeOk), ~ misled, own)
    BY <1>2, LmswResolved
  <2>3. CASE register
    <3>1. Instruction(emulate_done(resolve_lmsw(x, pe, pdpeOk)))
      BY <2>1, <2>3
    <3> QED BY <1>1, <2>2, <3>1, EmulatedInv
  <2>4. CASE ~ register
    <3>1. Instruction(Return(x, "VM_FAIL"))
      BY <2>1, <2>4
    <3> QED BY <1>1, <1>4, <3>1, PlainInv
  <2> QED BY <2>3, <2>4
<1>6. CASE OtherDt
  <2>1. PICK memOk \in BOOLEAN, load \in BOOLEAN :
          Instruction(resolve_dt(x, memOk, IF load THEN lgdt(x) ELSE store_dt(x)))
    BY <1>6 DEF OtherDt
  <2> HIDE DEF x
  <2> DEFINE t == IF load THEN lgdt(x) ELSE store_dt(x)
  <2>2. Resolved(t, ~ misled, own)
    BY <1>4 DEF lgdt, store_dt
  <2> HIDE DEF t
  <2>3. Resolved(resolve_dt(x, memOk, t), ~ misled, own)
    BY <1>4, <2>2, DoneResolved DEF resolve_dt
  <2>4. Instruction(resolve_dt(x, memOk, t))
    BY <2>1 DEF t
  <2> QED BY <1>1, <2>3, <2>4, PlainInv
<1>7. CASE Hypercall
  <2>1. PICK handled \in BOOLEAN : Instruction(resolve_hypercall(x, handled))
    BY <1>7 DEF Hypercall
  <2> HIDE DEF x
  <2>2. Resolved(Return(inject_exception(x, "UD"), "VM_DONE"), ~ misled, own)
    <3> DEFINE u == inject_exception(x, "UD")
    <3>1. Keeps(x, u)
      BY <1>2, <1>3, InjectGood DEF Resolved
    <3> HIDE DEF u
    <3>2. Resolved(u, ~ misled, own)
      BY <1>2, <3>1, KeepsResolved
    <3>3. Resolved(Return(u, "VM_DONE"), ~ misled, own)
      BY <1>3, <3>2, ReturnResolved
    <3> QED BY <3>3 DEF u
  <2>3. Resolved(resolve_hypercall(x, handled), ~ misled, own)
    BY <1>4, <2>2, DoneResolved DEF resolve_hypercall
  <2> QED BY <1>1, <2>1, <2>3, PlainInv
<1>8. CASE Xsetbv
  <2>1. PICK valid \in BOOLEAN : Instruction(resolve_xsetbv(x, valid))
    BY <1>8 DEF Xsetbv
  <2> HIDE DEF x
  <2>2. Resolved(resolve_xsetbv(x, valid), ~ misled, own)
    BY <1>2, <1>4, FaultResolved, DoneResolved DEF resolve_xsetbv
  <2> QED BY <1>1, <2>1, <2>2, PlainInv
<1>9. CASE Unexpected
  <2>1. Instruction(Return(x, "VM_FAIL"))
    BY <1>9 DEF Unexpected, resolve_default
  <2> HIDE DEF x
  <2> QED BY <1>1, <1>4, <2>1, PlainInv
<1> QED BY <1>5, <1>6, <1>7, <1>8, <1>9

LEMMA WriteEferInv ==
  ASSUME IInv, WriteEfer
  PROVE  IInv'
<1> DEFINE x == Exit
<1>1. PICK v \in Efer :
        /\ Instruction(emulate_done(resolve_msr_efer(x, v)))
        /\ misled' = (misled \/ v.lma # efer.lma \/ (v.lme # efer.lme /\ vmcs.cr0.pg))
        /\ own' = own
  BY DEF WriteEfer
<1>2. phase = "guest"
  BY <1>1 DEF Instruction
<1>3. /\ Resolved(x, ~ misled, own) /\ (~ misled) \in BOOLEAN
      /\ View(x) = vmcs /\ x.efer = efer /\ own \in LimitValues /\ misled \in BOOLEAN
  BY <1>2, ExitResolved DEF IInv, TypeOK
<1> HIDE DEF x
<1> DEFINE now == ~ misled'
           t == resolve_msr_efer(x, v)
           u == emulate_done(t)
<1>4. /\ misled' \in BOOLEAN /\ now \in BOOLEAN
      /\ now => /\ ~ misled /\ v.lma = x.efer.lma
                /\ v.lme = x.efer.lme \/ ~ View(x).cr0.pg
  BY <1>1, <1>3
<1>5. now = ~ misled'
  OBVIOUS
<1> HIDE DEF now
<1>6. Resolved(t, now, own)
  BY <1>3, <1>4, EferResolved
<1> HIDE DEF t
<1>7. Resolved(u, now, own) /\ Instruction(u)
  BY <1>1, <1>6, DoneResolved DEF t
<1> HIDE DEF u
<1> QED BY <1>1, <1>3, <1>4, <1>5, <1>7, InstructionInv

LEMMA LidtInv ==
  ASSUME IInv, Lidt
  PROVE  IInv'
<1> DEFINE x == Exit
<1>1. PICK limit \in Limits, memOk \in BOOLEAN :
        /\ vmcs.proc2.dt /\ Instruction(resolve_dt(x, memOk, lidt(x, limit)))
        /\ own' = IF resolve_dt(x, memOk, lidt(x, limit)).rc = "VM_DONE" THEN limit ELSE own
        /\ misled' = misled
  BY DEF Lidt
<1>2. phase = "guest"
  BY <1>1 DEF Instruction
<1>3. /\ Resolved(x, ~ misled, own) /\ View(x) = vmcs
      /\ own \in LimitValues /\ misled \in BOOLEAN
  BY <1>2, ExitResolved DEF IInv, TypeOK
<1>4. ~ View(x).cr0.pe
  BY <1>1, <1>2, <1>3 DEF IInv, Running, LimitKept
<1>5. "VM_FAIL" \in ReturnCodes /\ limit \in LimitValues
  BY DEF ReturnCodes, LimitValues
<1> HIDE DEF x
<1> DEFINE t == lidt(x, limit)
           r == resolve_dt(x, memOk, t)
<1>6. CASE x.mem.cs.rpl = 0 /\ rmode(x) /\ memOk
  <2>1. Resolved(t, ~ misled, limit) /\ t.rc = "VM_DONE"
    BY <1>3, <1>4, <1>6, LidtResolved
  <2> HIDE DEF t
  <2>2. r = emulate_done(t)
    BY <1>6 DEF resolve_dt
  <2>3. Resolved(r, ~ misled, limit) /\ r.rc = "VM_DONE"
    BY <2>1, <2>2, DoneResolved
  <2> HIDE DEF r
  <2>4. own' = limit /\ Instruction(r)
    BY <1>1, <2>3 DEF r, t
  <2> QED BY <1>1, <1>3, <1>5, <2>3, <2>4, InstructionInv
<1>7. CASE ~ (x.mem.cs.rpl = 0 /\ rmode(x) /\ memOk)
  <2>1. Resolved(Return(x, "VM_FAIL"), ~ misled, own) /\ Return(x, "VM_FAIL").rc = "VM_FAIL"
    BY <1>3, <1>5, ReturnResolved
  <2>2. r = Return(x, "VM_FAIL")
    BY <1>7, <2>1 DEF resolve_dt, lidt, emulate_done
  <2>3. Resolved(r, ~ misled, own) /\ r.rc = "VM_FAIL"
    BY <2>1, <2>2
  <2> HIDE DEF r
  <2>4. own' = own /\ Instruction(r)
    BY <1>1, <2>3 DEF r
  <2> QED BY <1>1, <1>3, <2>3, <2>4, InstructionInv
<1> QED BY <1>6, <1>7

-----------------------------------------------------------------------------
(* Exceptions and EPT violations, which may interrupt a delivery.          *)

LEMMA DeliveringEvent ==
  ASSUME NEW idt \in Delivering
  PROVE  /\ idt \in {NoEvent} \cup Events
         /\ idt.type = "HW_INT" => vmcs.rflags.ie /\ ~ vmcs.interrupt.shadow
BY DEF Delivering, NoEvent

LEMMA InterruptResolved ==
  ASSUME NEW s, NEW sane, NEW o, Resolved(s, sane, o), NEW vec, NEW int15 \in BOOLEAN
  PROVE  /\ Resolved(emulate_interrupt(s, vec, int15), sane, o)
         /\ rmode(s) => rmode(emulate_interrupt(s, vec, int15))
<1> DEFINE v == [tf |-> FALSE, ie |-> FALSE]
           t == Write(s, "rflags", v)
<1>1. "VM_DONE" \in ReturnCodes /\ "VM_DONE_LET_RIP" \in ReturnCodes
  BY DEF ReturnCodes
<1>2. v \in TypeOf["rflags"]
  BY DEF TypeOf, Rflags
<1>3. Good(s) /\ {"rflags", "cr0", "cs"} \subseteq DOMAIN s.mem
  BY DEF Resolved
<1> HIDE DEF v
<1>4. Writes(s, t, "rflags", v)
  BY <1>2, <1>3, FieldNames, WriteGood
<1> HIDE DEF t
<1>5. Keeps(s, t)
  BY <1>4, FieldNames DEF Writes, SameRest, Keeps
<1>6. Resolved(t, sane, o)
  BY <1>5, KeepsResolved
<1>7. t.efer = s.efer /\ t.mem["cr0"] = s.mem["cr0"]
  <2>1. Good(t) /\ t.efer = s.efer /\ View(t)["cr0"] = View(s)["cr0"] /\ "cr0" \in DOMAIN t.mem
    BY <1>3, <1>4, FieldNames DEF Writes, SameRest
  <2> QED BY <1>3, <2>1, ViewType
<1>8. CASE vec = "int15" /\ int15
  <2>1. emulate_interrupt(s, vec, int15) = Return(s, "VM_DONE")
    BY <1>8 DEF emulate_interrupt
  <2>2. Return(s, "VM_DONE").efer = s.efer /\ Return(s, "VM_DONE").mem = s.mem
    BY <1>1, <1>3, SetRc
  <2> QED BY <1>1, <2>1, <2>2, ReturnResolved DEF rmode
<1>9. CASE ~ (vec = "int15" /\ int15)
  <2>1. emulate_interrupt(s, vec, int15) = Return(t, "VM_DONE_LET_RIP")
    BY <1>9 DEF emulate_interrupt, emulate_rmode_interrupt, t, v
  <2>2. /\ Return(t, "VM_DONE_LET_RIP").efer = t.efer
        /\ Return(t, "VM_DONE_LET_RIP").mem = t.mem
    BY <1>1, <1>6, SetRc DEF Resolved
  <2>3. Resolved(Return(t, "VM_DONE_LET_RIP"), sane, o)
    BY <1>1, <1>6, ReturnResolved
  <2>4. rmode(s) => rmode(Return(t, "VM_DONE_LET_RIP"))
    BY <1>7, <2>2 DEF rmode
  <2> QED BY <2>1, <2>3, <2>4
<1> QED BY <1>8, <1>9

LEMMA RmodeGpResolved ==
  ASSUME NEW s, NEW sane, NEW o, Resolved(s, sane, o), rmode(s),
         NEW idt, NEW int15 \in BOOLEAN, NEW disasm \in BOOLEAN
  PROVE  /\ Resolved(resolve_rmode_gp(s, idt, int15, disasm), sane, o)
         /\ Takable(resolve_rmode_gp(s, idt, int15, disasm), idt)
<1> DEFINE r == resolve_rmode_gp(s, idt, int15, disasm)
           e == emulate_interrupt(s, idt.vec, int15)
<1>1. "VM_FAIL" \in ReturnCodes
  BY DEF ReturnCodes
<1>2. Resolved(e, sane, o) /\ rmode(e)
  <2> DEFINE vec == idt.vec
  <2>1. e = emulate_interrupt(s, vec, int15)
    OBVIOUS
  <2> HIDE DEF vec, e
  <2> QED BY <2>1, InterruptResolved
<1>3. CASE idt.type = "SW_INT" /\ disasm
  <2>1. r = emulate_done(e)
    BY <1>3 DEF resolve_rmode_gp
  <2> HIDE DEF r, e
  <2>2. Resolved(r, sane, o) /\ Takable(r, idt)
    BY <1>2, <1>3, <2>1, DoneResolved DEF Takable
  <2> QED BY <2>2 DEF r
<1>4. CASE idt.type = "HW_INT"
  <2>1. r = e
    BY <1>4 DEF resolve_rmode_gp
  <2> HIDE DEF r, e
  <2>2. Resolved(r, sane, o) /\ Takable(r, idt)
    BY <1>2, <2>1 DEF Takable
  <2> QED BY <2>2 DEF r
<1>5. CASE ~ (idt.type = "SW_INT" /\ disasm) /\ idt.type # "HW_INT"
  <2>1. r = Return(s, "VM_FAIL")
    BY <1>5 DEF resolve_rmode_gp
  <2> HIDE DEF r
  <2>2. Resolved(r, sane, o) /\ Takable(r, idt)
    BY <1>1, <1>5, <2>1, ReturnResolved DEF Takable
  <2> QED BY <2>2 DEF r
<1> QED BY <1>3, <1>4, <1>5

LEMMA ExceptionInv ==
  ASSUME IInv, Exception
  PROVE  IInv'
<1> DEFINE x == Exit
<1>1. PICK vec \in Vectors["HW_EXCP"], idt \in Delivering, handled \in BOOLEAN,
           int15 \in BOOLEAN, disasm \in BOOLEAN :
        /\ phase = "guest"
        /\ Resume("excp", resolve_excp(x, vec, idt, handled, int15, disasm), idt,
                  Beyond(vec, idt))
        /\ own' = own /\ misled' = misled
  BY DEF Exception
<1>2. /\ Resolved(x, ~ misled, own) /\ View(x) = vmcs
      /\ own \in LimitValues /\ misled \in BOOLEAN
  BY <1>1, ExitResolved DEF IInv, TypeOK
<1>3. /\ idt \in {NoEvent} \cup Events
      /\ idt.type = "HW_INT" => View(x).rflags.ie /\ ~ View(x).interrupt.shadow
  BY <1>2, DeliveringEvent
<1>4. vec \in Raisable
  BY DEF Vectors, Raisable
<1> HIDE DEF x
<1> DEFINE r == resolve_excp(x, vec, idt, handled, int15, disasm)
<1>5. Resolved(r, ~ misled, own) /\ Takable(r, idt)
  <2>1. CASE vec = "GP" /\ rmode(x)
    <3>1. r = resolve_rmode_gp(x, idt, int15, disasm)
      BY <2>1 DEF resolve_excp
    <3> QED BY <1>2, <2>1, <3>1, RmodeGpResolved
  <2>2. CASE ~ (vec = "GP" /\ rmode(x))
    <3> DEFINE u == inject_exception(x, vec)
    <3>1. r = IF handled THEN Return(x, "VM_DONE") ELSE Return(u, "VM_IGNORE")
      BY <2>2 DEF resolve_excp, resolve_exception
    <3>2. Good(x) /\ "VM_DONE" \in ReturnCodes /\ "VM_IGNORE" \in ReturnCodes
      BY <1>2 DEF Resolved, ReturnCodes
    <3>3. Keeps(x, u) /\ Writes(x, u, "int_info", Event("HW_EXCP", vec))
      BY <1>4, <3>2, InjectGood
    <3> HIDE DEF u, r
    <3>4. /\ View(u).rflags = View(x).rflags /\ View(u).interrupt = View(x).interrupt
          /\ Good(u)
      BY <3>3, FieldNames DEF Writes
    <3>5. Resolved(u, ~ misled, own)
      BY <1>2, <3>3, KeepsResolved
    <3>6. Resolved(r, ~ misled, own)
      BY <1>2, <3>1, <3>2, <3>5, ReturnResolved
    <3>7. View(r) = View(x) \/ View(r) = View(u)
      BY <3>1, <3>2, <3>4, SetRc
    <3>8. View(r).rflags = View(x).rflags /\ View(r).interrupt = View(x).interrupt
      BY <3>4, <3>7
    <3>9. Takable(r, idt)
      BY <1>3, <3>8 DEF Takable
    <3> QED BY <3>6, <3>9
  <2> QED BY <2>1, <2>2
<1> HIDE DEF r
<1>6. Resume("excp", r, idt, Beyond(vec, idt)) /\ Beyond(vec, idt) \in BOOLEAN
  BY <1>1 DEF r, Beyond
<1> QED BY <1>1, <1>2, <1>3, <1>5, <1>6, ResumeInv

LEMMA EptViolationInv ==
  ASSUME IInv, EptViolation
  PROVE  IInv'
<1> DEFINE x == Exit
<1>1. PICK idt \in Delivering, handled \in BOOLEAN :
        /\ phase = "guest"
        /\ Resume("ept", resolve_ept_viol(x, handled), idt, FALSE)
        /\ own' = own /\ misled' = misled
  BY DEF EptViolation
<1>2. /\ Resolved(x, ~ misled, own) /\ View(x) = vmcs
      /\ own \in LimitValues /\ misled \in BOOLEAN
  BY <1>1, ExitResolved DEF IInv, TypeOK
<1>3. /\ idt \in {NoEvent} \cup Events
      /\ idt.type = "HW_INT" => View(x).rflags.ie /\ ~ View(x).interrupt.shadow
  BY <1>2, DeliveringEvent
<1> HIDE DEF x
<1> DEFINE rc == IF handled THEN "VM_DONE" ELSE "VM_FAIL"
           r == Return(x, rc)
<1>4. r = resolve_ept_viol(x, handled) /\ rc \in ReturnCodes
  BY DEF resolve_ept_viol, ReturnCodes
<1> HIDE DEF rc
<1>5. Resolved(r, ~ misled, own) /\ View(r) = View(x)
  BY <1>2, <1>4, ReturnResolved, SetRc DEF Resolved
<1> HIDE DEF r
<1>6. Takable(r, idt)
  BY <1>3, <1>5 DEF Takable
<1> QED BY <1>1, <1>2, <1>3, <1>4, <1>5, <1>6, ResumeInv

-----------------------------------------------------------------------------
(* The theorems.                                                           *)

LEMMA NextInv == IInv /\ [Next]_vars => IInv'
<1> SUFFICES ASSUME IInv, [Next]_vars PROVE IInv'
  OBVIOUS
<1>1. CASE UNCHANGED vars
  BY <1>1 DEF vars, IInv, TypeOK, Running, EventsAccounted, StepKept, LimitKept, ModesAgree
<1>2. CASE Next
  BY <1>2, GuestRunsInv, EmulatedActions, OtherActions, WriteEferInv, LidtInv,
     ExceptionInv, EptViolationInv DEF Next
<1> QED BY <1>1, <1>2

\* Whatever a guest does, between two exits no field of the VMCS has a copy
\* left, the modes agree in the four places that know them, and the IDT limit
\* lies where the mode says: the invariant is inductive.
THEOREM VmExitSafe == Spec => []IInv
<1>1. Init => IInv
  BY InitInv
<1>2. IInv /\ [Next]_vars => IInv'
  BY NextInv
<1> QED BY <1>1, <1>2, PTL DEF Spec

\* The state vmx_vmexit_post_hdl commits is one the processor accepts, for
\* every guest that writes no EFER hardware would refuse.
THEOREM EntrySafe == Spec => []EntryAccepted
<1>1. IInv => EntryAccepted
  <2>1. SUFFICES ASSUME IInv, ~ misled
                 PROVE  /\ phase # "refused"
                        /\ phase = "entered" => /\ efer.lma = (efer.lme /\ vmcs.cr0.pg)
                                                /\ vmcs.entry.ia32e = efer.lma
    BY DEF EntryAccepted
  <2>2. phase = "entered" => ModesAgree(vmcs, efer)
    BY <2>1 DEF IInv, Running
  <2>3. /\ efer.lma \in BOOLEAN /\ efer.lme \in BOOLEAN /\ vmcs.cr0.pg \in BOOLEAN
        /\ vmcs.entry.ia32e \in BOOLEAN
    BY <2>1 DEF IInv, TypeOK, Efer, Vmcs, Cr0, EntryControls
  <2> QED BY <2>1, <2>2, <2>3 DEF IInv, ModesAgree
<1> QED BY <1>1, VmExitSafe, PTL

\* The guest finds the IDT limit it loaded last, through any number of mode
\* switches.
THEOREM IdtLimitSafe == Spec => []IdtLimitKept
<1>1. IInv => IdtLimitKept
  <2>1. SUFFICES ASSUME IInv, phase = "entered", own # 0
                 PROVE  IF vmcs.cr0.pe THEN vmcs.idtr_limit = own /\ ~ vmcs.proc2.dt
                        ELSE saved = own /\ vmcs.idtr_limit = RmodeLimit /\ vmcs.proc2.dt
    BY DEF IdtLimitKept
  <2>2. LimitKept(vmcs, saved, own)
    BY <2>1 DEF IInv, Running
  <2> QED BY <2>1, <2>2 DEF LimitKept
<1> QED BY <1>1, VmExitSafe, PTL

\* No event is lost without a reason: what a resolver raises is injected, and
\* an interrupted delivery gives way only to that or to real mode.
THEOREM EventsSafe == Spec => []EventsAccounted
<1>1. IInv => EventsAccounted
  BY DEF IInv
<1> QED BY <1>1, VmExitSafe, PTL

\* A single-step over an emulated instruction leaves its trap pending.
THEOREM StepSafe == Spec => []StepKept
<1>1. IInv => StepKept
  BY DEF IInv
<1> QED BY <1>1, VmExitSafe, PTL
===========================================================================
