------------------------------- MODULE Client -------------------------------
(***************************************************************************)
(* The python client (src/client/ramooflax/core): the session of the VM    *)
(* class, its answer loop and its SIGINT handler, the cache of registers,  *)
(* the handlers of the CPU class and the list of breakpoints, against what *)
(* the stub keeps: the lock, the registers, the masks and the breakpoints. *)
(*                                                                         *)
(* A command and its answer are one step (GdbLink has the packets), taken  *)
(* after any ^C that is still on its way: the channel is a queue.  A stop  *)
(* that arrives while an answer is awaited waits in the pool of stops.     *)
(* Handlers and console run any of the operations below; a handler does    *)
(* not run the VM itself.  Register values, and the places a breakpoint    *)
(* can be at, are small sets; dr6 is the set of its raised bits.           *)
(***************************************************************************)
EXTENDS Naturals, Sequences, FiniteSets, SequencesExt

CONSTANTS
  Addr,      \* code addresses, the values of pc
  Code,      \* those software breakpoints are put on
  Value,     \* values of the other registers
  Hard,      \* what hardware breakpoints are put on: [type, addr, size]
  Slot,      \* 0 .. DBG_HARD_BRK_NR - 1, some of them
  DBG_SOFT_NR,   \* slots of the table of software breakpoints, 1024
  Events,    \* the reasons filter_exception, filter_write_cr, ... ask for
  Explicit,  \* names given by the caller, none of them a numeral
  Autos,     \* the names str(auto_name), in order
  MaxStops   \* stops sent and not yet received

ASSUME ClientAssumption ==
  /\ Addr # {} /\ Value # {} /\ Code \subseteq Addr
  /\ Slot # {} /\ Slot \subseteq 0 .. 3
  /\ DBG_SOFT_NR \in Nat \ {0} /\ IsFiniteSet(Explicit \cup Range(Autos))
  /\ \A b \in Hard : b.type \in {1, 2, 4}   \* BreakPointType
  /\ Autos \in Seq(Range(Autos)) /\ \A i, j \in DOMAIN Autos : Autos[i] = Autos[j] => i = j
  /\ Explicit \cap Range(Autos) = {}
  /\ Events \cap {"none", "int", "trap"} = {}
  /\ MaxStops \in Nat \ {0}

VARIABLES
  lock, regs, step,            \* the stub's lock, the guest, dbg_hard_stp
  mask, soft, cnt, hard, filter,   \* what the stub was asked for
  intr, stops,                 \* the channel: ^C on its way, stops on theirs
  at, from, session, want, inter, request,   \* the VM object
  last, chosen,                \* last_reason, the filter or handler it is given to
  pool, cache, handlers, list, auto_name,
  astray, unbacked, unread     \* history

table  == <<soft, cnt, unread>>
vmm    == <<lock, regs, step, mask, table, hard, filter>>
link   == <<intr, stops, pool>>
asked  == <<mask, table, hard, filter>>
loop   == <<at, from, session, want, inter, request>>
breaks == <<list, auto_name, unbacked>>
vars   == <<vmm, link, loop, last, chosen, cache, handlers, breaks, astray>>

Names    == Explicit \cup Range(Autos)
SoftAt(a) == [type |-> 0, addr |-> a, size |-> 1]
NoBreak  == [type |-> 9, addr |-> 0, size |-> 0]
Free     == [break |-> NoBreak, count |-> 0]
Soft     == {SoftAt(a) : a \in Code}
Breaks   == Soft \cup Hard
SoftSlot == 0 .. DBG_SOFT_NR - 1
Regs     == {"pc", "cr3", "dr6"}
BS       == 14
Raised   == {{}, {BS}} \cup {{n} : n \in Slot} \cup {{n, BS} : n \in Slot}
Content(r) == CASE r = "pc" -> Addr [] r = "dr6" -> Raised [] OTHER -> Value
Default(r)   == CHOOSE v \in Content(r) : TRUE

(* Register: what __rd and __wr say, the value where it is not forgotten.  *)
Unknown(r)   == [rd |-> FALSE, wr |-> FALSE, val |-> Default(r)]
Known(v)     == [rd |-> TRUE, wr |-> FALSE, val |-> v]
Pending(v)   == [rd |-> TRUE, wr |-> TRUE, val |-> v]
Register(r)  == [rd : BOOLEAN, wr : BOOLEAN, val : Content(r)]

(* event.StopReason: why, the registers carried and, as history, what the  *)
(* VM stopped on and whether the client can know of it: the stop was not   *)
(* delayed by a cr3 filter, nor is it one of a slot claimed unread.        *)
Stop(why, p, b) == [why |-> why, pc |-> p, on |-> b, sure |-> ~filter /\ b \notin unread]
NoStop   == [why |-> "none", pc |-> Default("pc"), on |-> NoBreak, sure |-> TRUE]
Stepped  == [type |-> 8, addr |-> 0, size |-> 0]
Called   == [type |-> 7, addr |-> 0, size |-> 0]
Reasons  == {"none", "int", "trap"} \cup Events

Entry    == [break : Breaks \cup {NoBreak}, count : Nat]
Stops    == [why : Reasons \ {"none"}, pc : Addr,
             on : Breaks \cup {NoBreak, Stepped}, sure : BOOLEAN]
RegsType   == DOMAIN regs = Regs /\ \A r \in Regs : regs[r] \in Content(r)
StubType   == /\ lock \in BOOLEAN /\ step \in BOOLEAN /\ filter \in BOOLEAN
              /\ mask \subseteq Events /\ hard \in [Slot -> Hard \cup {NoBreak}]
TableType  == /\ soft \in [SoftSlot -> Soft \cup {NoBreak}]
              /\ cnt \in 0 .. DBG_SOFT_NR /\ unread \subseteq Soft
LinkType   == intr \in BOOLEAN /\ stops \in Seq(Stops) /\ pool \in Seq(Stops)
LoopType   == /\ at \in {"script", "console", "again", "wait", "handler", "gone"}
              /\ from \in {"script", "console", "loop", "run"}
              /\ session \in {"none", "dispatch", "dispatch2"}
              /\ want \in {"every", "int", "trap"}
              /\ inter \in BOOLEAN /\ request \in BOOLEAN /\ astray \in BOOLEAN
CacheType  == DOMAIN cache = Regs /\ \A r \in Regs : cache[r] \in Register(r)
ListType   == /\ list \in [Names -> Entry] /\ auto_name \in 0 .. Len(Autos)
              /\ unbacked \subseteq Names
HandleType == /\ last \in Stops \cup {NoStop} /\ handlers \subseteq Events
              /\ chosen \in Breaks \cup {NoBreak, Stepped, Called}
TypeOK     == /\ RegsType /\ StubType /\ TableType /\ LinkType /\ LoopType
              /\ CacheType /\ ListType /\ HandleType

\* dbg_soft_reset
EmptyTable == soft' = [k \in SoftSlot |-> NoBreak] /\ cnt' = 0 /\ unread' = {}

Init ==
  /\ lock = FALSE /\ step = FALSE /\ filter = FALSE
  /\ regs = [r \in Regs |-> IF r = "dr6" THEN {} ELSE Default(r)]
  /\ mask = {} /\ soft = [k \in SoftSlot |-> NoBreak] /\ cnt = 0 /\ unread = {}
  /\ hard = [n \in Slot |-> NoBreak]
  /\ intr = FALSE /\ stops = <<>> /\ pool = <<>>
  /\ at = "gone" /\ from = "script" /\ session = "none"
  /\ want = "every" /\ inter = FALSE /\ request = FALSE
  /\ last = NoStop /\ chosen = NoBreak
  /\ cache = [r \in Regs |-> Unknown(r)]
  /\ handlers = {}
  /\ list = [n \in Names |-> Free] /\ auto_name = 0
  /\ astray = FALSE /\ unbacked = {}

(***************************************************************************)
(* The stub and the guest                                                  *)
(***************************************************************************)
Outstanding == Len(stops) + Len(pool)

(* __gdb_preempt *)
Preempt(s, p, c, d) ==
  /\ stops' = Append(stops, s) /\ lock' = TRUE
  /\ regs' = [pc |-> p, cr3 |-> c, dr6 |-> d]

(* What a register may be found to be: anything while the guest runs.      *)
Sees(r) == IF lock \/ r = "dr6" THEN {regs[r]} ELSE Content(r)

(* gdb_interrupt_sequence, whether or not the VM is stopped already        *)
StubInt_WhenFree ==   \* mutant: a ^C is ignored while the VM is stopped
  /\ intr /\ intr' = FALSE
  /\ \E p \in Sees("pc"), c \in Sees("cr3") :
       IF lock THEN UNCHANGED <<lock, stops, regs>>
       ELSE Preempt(Stop("int", p, NoBreak), p, c, regs["dr6"])
  /\ UNCHANGED <<step, asked, pool, loop, last, chosen, cache, handlers, breaks, astray>>
StubInt ==
  /\ intr /\ intr' = FALSE
  /\ \E p \in Sees("pc"), c \in Sees("cr3") : Preempt(Stop("int", p, NoBreak), p, c, regs["dr6"])
  /\ UNCHANGED <<step, asked, pool, loop, last, chosen, cache, handlers, breaks, astray>>

(* controller: the event is fired, and with it the stop, before the exit   *)
(* ends; with an active cr3 filter it may be fired at a later exit, when   *)
(* dbg_hard_dr6_clean has been.                                            *)
Dr6At(d) == {d} \cup (IF filter THEN {{}} ELSE {})
Fires(why, on, p, d) ==
  /\ ~lock /\ Outstanding + (IF intr THEN 1 ELSE 0) < MaxStops
  /\ \E c \in Value, e \in Dr6At(d) : Preempt(Stop(why, p, on), p, c, e)
  /\ UNCHANGED <<asked, intr, pool, loop, last, chosen, cache, handlers, breaks, astray>>

(* A software breakpoint is the stub's while one of its slots is on and     *)
(* dbg_soft_enabled: the count is not 0.                                   *)
At(b) == {k \in SoftSlot : soft[k] = b}
Backed(b) == IF b.type = 0 THEN cnt > 0 /\ At(b) # {} ELSE \E n \in Slot : hard[n] = b

FilteredEvent(e, p) == e \in mask /\ Fires(e, NoBreak, p, regs["dr6"]) /\ UNCHANGED step
SoftBreak(p) == Backed(SoftAt(p)) /\ Fires("trap", SoftAt(p), p, regs["dr6"]) /\ UNCHANGED step
HardBreak(n, p) ==  \* the condition of slot n holds, alone or at the end of a step
  /\ hard[n] # NoBreak
  /\ \/ Fires("trap", hard[n], p, {n}) /\ UNCHANGED step
     \/ step /\ Fires("trap", Stepped, p, {n, BS}) /\ step' = FALSE
SingleStepped(p) == step /\ Fires("trap", Stepped, p, {BS}) /\ step' = FALSE

(***************************************************************************)
(* Commands.  A command is answered after what is on its way.              *)
(***************************************************************************)
Busy == at \in {"script", "console", "handler"}
Command == ~intr /\ pool' = pool \o stops /\ stops' = <<>> /\ UNCHANGED intr

(* Register._flush over a set of registers: sent if written, then dirty    *)
Written(rs) == [r \in Regs |-> IF r \in rs /\ cache[r].wr THEN cache[r].val ELSE regs[r]]
Dirtied_Not(rs) ==   \* mutant: what was read stays readable
  [r \in Regs |-> IF r \in rs THEN [cache[r] EXCEPT !.wr = FALSE] ELSE cache[r]]
Dirtied(rs) == [r \in Regs |-> IF r \in rs THEN Unknown(r) ELSE cache[r]]

ReadReg(r) ==   \* Register._read, from the stub when not cached
  /\ Busy /\ ~cache[r].rd /\ Command
  /\ \E v \in Sees(r) : cache' = [cache EXCEPT ![r] = Known(v)]
  /\ UNCHANGED <<vmm, loop, last, chosen, handlers, breaks, astray>>
WriteReg(r, v) ==   \* Register._write: the cache only
  /\ Busy /\ cache' = [cache EXCEPT ![r] = Pending(v)]
  /\ UNCHANGED <<vmm, link, loop, last, chosen, handlers, breaks, astray>>
(* Memory: cr_sync, then the access *)
MemAccess ==
  /\ Busy /\ Command
  /\ regs' = Written({"cr3"}) /\ cache' = Dirtied({"cr3"})
  /\ UNCHANGED <<lock, step, asked, loop, last, chosen, handlers, breaks, astray>>

(* CPU.filter_exception and its like: the mask, then the handler           *)
FilterEvent(e) ==
  /\ Busy /\ Command
  /\ mask' = mask \cup {e} /\ handlers' = handlers \cup {e}
  /\ UNCHANGED <<lock, regs, step, table, hard, filter, loop, last, chosen, cache, breaks, astray>>
ReleaseEvent(e) ==
  /\ Busy /\ Command
  /\ mask' = mask \ {e} /\ handlers' = handlers \ {e}
  /\ UNCHANGED <<lock, regs, step, table, hard, filter, loop, last, chosen, cache, breaks, astray>>

(* CPU.set_active_cr3, del_active_cr3.  ctrl_active_cr3_disable, also when *)
(* one filter replaces another, deletes every software breakpoint.         *)
Listed(n) == list[n] # Free
Forgotten(b) == {n \in Names : list[n].break \in b}
ActiveCr3(on) ==
  /\ Busy /\ Command /\ (on \/ filter)
  /\ filter' = on
  /\ IF filter THEN EmptyTable /\ unbacked' = unbacked \cup Forgotten(Soft)
     ELSE UNCHANGED <<table, unbacked>>
  /\ UNCHANGED <<lock, regs, step, mask, hard, loop, last, chosen, cache, handlers, list,
                 auto_name, astray>>

(* dbg_soft_set: one visit of the slots, rc being what a read of the byte  *)
(* gives.  The visit takes those free or on already for the address, up to *)
(* the one it is answered from; a page that is absent ends it nowhere, and *)
(* the slots claimed unread are kept whatever the answer.                  *)
AccessCode == {"DONE", "PARTIAL", "FAIL"}
Lowest(S) == CHOOSE n \in S : \A k \in S : n <= k
Ends(b, rc) == {k \in SoftSlot : soft[k] = b \/ (soft[k] = NoBreak /\ rc # "PARTIAL")}
Claimed(b, rc) ==
  {k \in SoftSlot : soft[k] = NoBreak /\ cnt < DBG_SOFT_NR /\ \A j \in Ends(b, rc) : k <= j}
Found(b, rc) ==
  cnt < DBG_SOFT_NR /\ \E k \in Ends(b, rc) : /\ soft[k] = b \/ rc = "DONE"
                                             /\ \A j \in Ends(b, rc) : k <= j
SetSoft(b, rc) ==
  /\ soft' = [k \in SoftSlot |-> IF k \in Claimed(b, rc) THEN b ELSE soft[k]]
  /\ cnt' = IF Found(b, rc) THEN cnt + 1 ELSE cnt
  /\ unread' = IF rc # "DONE" /\ Claimed(b, rc) # {} THEN unread \cup {b} ELSE unread

(* gdb_cmd_st_brk: not CanSet when the stub answers an error.              *)
FreeSlots == {n \in Slot : hard[n] = NoBreak}
CanSet(b, rc) == IF b.type = 0 THEN Found(b, rc) ELSE FreeSlots # {}
SetBreak(b, rc) ==
  IF b.type = 0 THEN SetSoft(b, rc) /\ UNCHANGED hard
  ELSE /\ hard' = IF FreeSlots = {} THEN hard ELSE [hard EXCEPT ![Lowest(FreeSlots)] = b]
       /\ UNCHANGED table

(* gdb_cmd_rm_brk, for the entries ns of the list: a software breakpoint   *)
(* loses its first slot, a hardware one every slot.  An error is answered  *)
(* once no slot is left, or once the count is 0.                           *)
Of(ns, b) == {n \in ns : list[n].break = b}
BreaksOf(ns) == {list[n].break : n \in ns}
SoftOf(ns) == {n \in ns : list[n].break.type = 0}
DelBreaks(ns) ==
  /\ soft' = [k \in SoftSlot |->
                IF Cardinality({j \in At(soft[k]) : j < k}) < Cardinality(Of(ns, soft[k]))
                THEN NoBreak ELSE soft[k]]
  /\ cnt' = cnt - Cardinality(SoftOf(ns))
  /\ unread' = {b \in unread : \E k \in SoftSlot : soft'[k] = b}
  /\ hard' = [n \in Slot |-> IF hard[n] \in BreaksOf(ns) THEN NoBreak ELSE hard[n]]
Deletions(b) == IF b.type = 0 THEN Cardinality(At(b)) ELSE IF Backed(b) THEN 1 ELSE 0
Removable(ns) ==
  /\ Cardinality(SoftOf(ns)) <= cnt
  /\ \A b \in BreaksOf(ns) : Cardinality(Of(ns, b)) <= Deletions(b)

(* What is not the stub's any more: other entries for what is deleted, and *)
(* every software breakpoint when the count runs out before the slots.     *)
Dropped(ns) == Forgotten(BreaksOf(ns) \cup (IF cnt' = 0 THEN Soft ELSE {}))

(* BreakPoints.__add.  A name in the list only counts one more, wherever   *)
(* the breakpoint was asked for; otherwise the list is updated once the    *)
(* stub has agreed, and left alone by the GDBError of a refusal.           *)
Another(n) == list' = [list EXCEPT ![n].count = @ + 1]
AddBreak(n, b) ==
  \E rc \in AccessCode :
    /\ SetBreak(b, rc)
    /\ IF CanSet(b, rc)
       THEN /\ list' = [list EXCEPT ![n] = [break |-> b, count |-> 1]]
            /\ unbacked' = unbacked \ ({n} \cup Forgotten({b}))
       ELSE UNCHANGED <<list, unbacked>>
AddNamed(n, b) ==
  /\ Busy
  /\ IF Listed(n)
     THEN list[n].count < 2 /\ Another(n) /\ UNCHANGED <<table, hard, unbacked, link>>
     ELSE AddBreak(n, b) /\ Command
  /\ UNCHANGED <<lock, regs, step, mask, filter, loop, last, chosen, cache, handlers, auto_name,
                 astray>>
AddUnnamed(b) ==
  /\ Busy /\ auto_name < Len(Autos) /\ Command
  /\ auto_name' = auto_name + 1
  /\ AddBreak(Autos[auto_name + 1], b)
  /\ UNCHANGED <<lock, regs, step, mask, filter, loop, last, chosen, cache, handlers, astray>>

(* BreakPoints.remove(name): only a software breakpoint counts down, and   *)
(* a refusal of the stub leaves the entry, one lower, in the list.         *)
Removes(n) == list[n].break.type # 0 \/ list[n].count <= 1
Counted(n) == IF list[n].break.type # 0 THEN list[n].count
              ELSE 0
RemoveNamed(n) ==
  /\ Busy /\ Listed(n) /\ list[n].count > 0   \* refused once, no further
  /\ IF ~Removes(n)
     THEN list' = [list EXCEPT ![n].count = @ - 1] /\ UNCHANGED <<table, hard, unbacked, link>>
     ELSE /\ Command
          /\ IF Removable({n})
             THEN /\ DelBreaks({n})
                  /\ list' = [list EXCEPT ![n] = Free]
                  /\ unbacked' = (unbacked \cup Dropped({n})) \ {n}
             ELSE /\ list' = [list EXCEPT ![n].count = Counted(n)]
                  /\ UNCHANGED <<table, hard, unbacked>>
  /\ UNCHANGED <<lock, regs, step, mask, filter, loop, last, chosen, cache, handlers, auto_name,
                 astray>>

(* BreakPoints.__clear: the entries one after the other, in the order of   *)
(* the dictionary; the GDBError of the first refusal leaves the list.      *)
ClearedAll ==
  list' = [n \in Names |-> Free] /\ auto_name' = 0 /\ unbacked' = {}
Clear_Empties(names, done) ==   \* mutant: the list is emptied first
  /\ names # {} => done # {}
  /\ DelBreaks(done) /\ ClearedAll
Clear(names, done) ==
  /\ DelBreaks(done)
  /\ \/ done = names /\ ClearedAll
     \/ \E f \in names \ done :   \* refused
          /\ ~Removable(done \cup {f}) /\ list[f].count > 0
          /\ list' = [n \in Names |-> IF n \in done \cup {f}
                                      THEN [list[n] EXCEPT !.count = Counted(n)] ELSE list[n]]
          /\ unbacked' = unbacked \cup Dropped(done) /\ UNCHANGED auto_name
RemoveAll ==
  /\ Busy /\ Command
  /\ LET names == {n \in Names : Listed(n)} IN
     \E done \in SUBSET names : Removable(done) /\ Clear(names, done)
  /\ UNCHANGED <<lock, regs, step, mask, filter, loop, last, chosen, cache, handlers, astray>>

(***************************************************************************)
(* The session                                                             *)
(***************************************************************************)
ToWait(f, w) == at' = "wait" /\ from' = f /\ want' = w /\ inter' = FALSE

(* run: attach, then stop; gdb_enable locks the VM                         *)
Run ==
  /\ at = "gone"
  /\ lock' = TRUE /\ intr' = TRUE
  /\ ToWait("run", "int") /\ session' = "none" /\ request' = FALSE
  /\ UNCHANGED <<regs, step, asked, stops, pool, last, chosen, cache, handlers, breaks, astray>>

(* __stop, whoever calls it *)
SendsIntr == ~intr /\ Outstanding < MaxStops /\ intr' = TRUE /\ request' = FALSE

VmStop(f) ==   \* stop
  /\ SendsIntr /\ ToWait(f, "int")
  /\ UNCHANGED <<vmm, stops, pool, session, last, chosen, cache, handlers, breaks, astray>>

(* __resume: the registers flushed, then c or s; the stub unlocks, and     *)
(* controller cleans dr6 before the guest runs.                            *)
CleanDr6_Not(r) == r   \* mutant: dr6 is left as the last stop made it
CleanDr6(r) == [r EXCEPT !["dr6"] = {}]
Continue(f, w, s) ==
  /\ Command
  /\ regs' = CleanDr6(Written(Regs)) /\ cache' = Dirtied(Regs)
  /\ step' = (step \/ s) /\ lock' = FALSE
  /\ ToWait(f, w)
  /\ astray' = (astray /\ (Outstanding > 0 \/ ~lock))
  /\ UNCHANGED <<asked, session, request, last, chosen, handlers, breaks>>
VmResume(f) == IF request THEN VmStop(f) ELSE Continue(f, "every", FALSE)
VmSinglestep(f) == Continue(f, "trap", TRUE)

(* What script and console call; ^D leaves the console for the loop that   *)
(* opened it, which resumes.                                               *)
Call == at \in {"script", "console"} /\ (VmStop(at) \/ VmResume(at) \/ VmSinglestep(at))
Eof == at = "console" /\ session # "none" /\ VmResume("loop")
Again == at = "again" /\ VmResume("loop")
Opens(a, s) ==
  /\ at' = a /\ session' = s
  /\ UNCHANGED <<vmm, link, from, want, inter, request, last, chosen, cache, handlers, breaks,
                 astray>>
Interact == at = "script" /\ (Opens("console", "dispatch") \/ Opens("again", "dispatch2"))
InteractNoResume ==
  \/ at = "script" /\ Opens("console", "none")
  \/ at = "console" /\ session = "none" /\ Opens("script", "none")

(* BreakPoints.__trap_filter: dr6 first, then the location of the code     *)
Trapped(d, p) ==
  LET hit == {n \in d \cap Slot : hard[n] # NoBreak}
      b == IF hit = {} THEN SoftAt(p) ELSE hard[Lowest(hit)]
  IN IF BS \in d THEN Stepped
     ELSE IF \E n \in Names : list[n].break = b THEN b ELSE NoBreak
Reads(r) == IF cache[r].rd THEN cache[r] ELSE Known(regs[r])

(* __wait, with the answer to __update_mode, and __process up to the call  *)
(* of the handler.                                                         *)
RecvStop ==
  /\ at = "wait" /\ ~intr /\ pool \o stops # <<>>
  /\ LET s == Head(pool \o stops)
         d == Reads("dr6") IN
     /\ last' = s
     /\ pool' = Tail(pool \o stops) /\ stops' = <<>>
     /\ cache' = [cache EXCEPT !["pc"] = Known(s.pc),
                               !["dr6"] = IF s.why = "trap" THEN d ELSE @]
     /\ chosen' = CASE s.why = "trap" -> Trapped(d.val, s.pc)
                    [] s.why \in handlers -> Called
                    [] OTHER -> NoBreak
     /\ astray' = (astray \/ ~lock \/ Len(pool \o stops) > 1)
  /\ at' = "handler"
  /\ UNCHANGED <<vmm, intr, from, session, want, inter, request, handlers, breaks>>

(* The handler's verdict, and answer: the loop ends, never resuming, at    *)
(* the stop it waits for.                                                  *)
Verdicts == IF chosen = NoBreak THEN {TRUE} ELSE BOOLEAN
Answered ==
  \/ want = "every" /\ pool = <<>>
  \/ want = last.why /\ (want = "trap" => BS \in Reads("dr6").val)
Return(b) ==
  /\ at = "handler" /\ b \in Verdicts
  /\ LET i == inter \/ b IN
     IF ~Answered THEN at' = "wait" /\ inter' = i /\ UNCHANGED <<session, from, want>>
     ELSE /\ inter' = FALSE /\ from' = "script" /\ want' = "every"
          /\ at' = CASE from = "run" -> "console"
                     [] from \in {"script", "console"} -> from
                     [] from = "loop" /\ i -> "console"
                     [] from = "loop" /\ ~i -> IF session = "dispatch2" THEN "again" ELSE "script"
          /\ session' = CASE from = "run" -> "dispatch"
                          [] from = "loop" /\ ~i /\ session = "dispatch" -> "none"
                          [] OTHER -> session
  /\ last' = NoStop /\ chosen' = NoBreak   \* not looked at again
  /\ UNCHANGED <<vmm, link, request, cache, handlers, breaks, astray>>

(* detach: the masks, then the stub's kill                                 *)
Leave ==
  /\ ~intr
  /\ mask' = {} /\ EmptyTable /\ hard' = [n \in Slot |-> NoBreak]
  /\ filter' \in {FALSE, filter}   \* kept by keep_active_cr3
  /\ step' = FALSE /\ lock' = FALSE /\ regs' = CleanDr6(regs)
  /\ UNCHANGED intr /\ stops' = <<>> /\ pool' = <<>>
  /\ at' = "gone" /\ from' = "script" /\ session' = "none"
  /\ want' = "every" /\ inter' = FALSE /\ request' = FALSE
  /\ last' = NoStop /\ chosen' = NoBreak
  /\ cache' = [r \in Regs |-> Unknown(r)] /\ handlers' = {}
  /\ list' = [n \in Names |-> Free] /\ auto_name' = 0
  /\ astray' = FALSE /\ unbacked' = {}
Detach == Busy /\ Leave

(* int_event.  While the client receives, and while a handler works, the   *)
(* state of the VM object says so; between two operations it says what     *)
(* VMState.restore, which goes back one state only, has left of them, and  *)
(* so either asks to quit, which is granted here, or asks for a stop.      *)
Interrupt ==
  \/ at # "gone" /\ (session = "none" \/ at # "handler") /\ Leave
  \/ /\ session # "none" /\ at = "wait" /\ SendsIntr   \* blocked in recv
     /\ UNCHANGED <<vmm, stops, pool, at, from, session, want, inter, last, chosen, cache,
                    handlers, breaks, astray>>
  \/ /\ session # "none" /\ at \in {"console", "wait", "handler", "again"} /\ request' = TRUE
     /\ UNCHANGED <<vmm, link, at, from, session, want, inter, last, chosen, cache, handlers,
                    breaks, astray>>

Operation ==
  \/ \E r \in Regs : ReadReg(r)
  \/ \E r \in Regs \ {"dr6"} : \E v \in Content(r) : WriteReg(r, v)
  \/ MemAccess
  \/ \E e \in Events : FilterEvent(e) \/ ReleaseEvent(e)
  \/ \E on \in BOOLEAN : ActiveCr3(on)
  \/ \E b \in Breaks : AddUnnamed(b) \/ \E n \in Explicit : AddNamed(n, b)
  \/ \E n \in Names : RemoveNamed(n)
  \/ RemoveAll

Vmm ==
  \E p \in Addr :
    \/ \E e \in Events : FilteredEvent(e, p)
    \/ SoftBreak(p) \/ SingleStepped(p) \/ \E n \in Slot : HardBreak(n, p)

Returns == \E b \in BOOLEAN : Return(b)
Next ==
  \/ Vmm \/ StubInt
  \/ Operation
  \/ Run \/ Call \/ Eof \/ Again \/ Interact \/ InteractNoResume
  \/ RecvStop \/ Returns \/ Detach \/ Interrupt

Spec == Init /\ [][Next]_vars /\ WF_vars(StubInt) /\ WF_vars(RecvStop) /\ WF_vars(Returns)

(***************************************************************************)
(* Properties                                                              *)
(***************************************************************************)
(* While the client works on a stop that no ^C crossed, a register it has  *)
(* read and not written is the guest's: flush, cr_sync and the updates of  *)
(* a stop never leave a stale value readable.                              *)
RegsCoherent ==
  Busy /\ ~astray => /\ lock
                     /\ \A r \in Regs : cache[r].rd /\ ~cache[r].wr => cache[r].val = regs[r]

(* The stop is given to what was asked to handle it: the trap filter finds *)
(* the breakpoint the stub stopped on, or the step, and an event has its   *)
(* handler.  Stops crossed by a ^C, fired late by a cr3 filter, or met at  *)
(* a slot the stub claimed without reading the byte, are the exception.    *)
StopHandled ==
  at = "handler" /\ ~astray /\ last.sure =>
    CASE last.why = "trap" -> chosen = last.on
      [] last.why \in Events -> chosen = Called
      [] OTHER -> TRUE

(* The stub has no more slots for a software breakpoint than the list has  *)
(* names, and no hardware one without a name, even after a refusal or a    *)
(* clear that failed half-way: but for those it kept when it refused to    *)
(* set them, or passed over an absent page.  A listed one is the stub's    *)
(* unless another name removed it, a cr3 filter was dropped, or the count  *)
(* of the stub ran out.                                                    *)
BreaksAgree ==
  /\ \A b \in Soft \ unread : Cardinality(At(b)) <= Cardinality(Of(Names, b))
  /\ \A k \in Slot : hard[k] # NoBreak => Of(Names, hard[k]) # {}
  /\ \A n \in Names \ unbacked : Listed(n) => Backed(list[n].break)

(* vm.stop() returns, whatever stops were on their way.                    *)
StopReturns ==
  (want = "int" /\ at \in {"wait", "handler"}) ~> at \notin {"wait", "handler"}

(***************************************************************************)
(* The inductive invariant                                                 *)
(***************************************************************************)
\* What has been announced fits the bound.
Bounded == Len(stops) + Len(pool) + (IF intr THEN 1 ELSE 0) <= MaxStops

\* An entry of the list has a break, and an automatic name still to come has
\* no entry: __add never finds it in the list.
ListInv ==
  /\ \A n \in Names : list[n].break = NoBreak => list[n] = Free
  /\ \A i \in DOMAIN Autos : i > auto_name => list[Autos[i]] = Free

\* Nothing is asked for and nothing is on its way when nobody is attached.
GoneInv ==
  at = "gone" =>
    /\ ~intr /\ stops = <<>> /\ pool = <<>>
    /\ mask = {} /\ cnt = 0 /\ hard = [n \in Slot |-> NoBreak] /\ ~step
    /\ ~astray /\ \A r \in Regs : ~cache[r].rd

Dr6Inv == /\ ~lock => regs["dr6"] = {}
          /\ ~cache["dr6"].wr
          /\ \A r \in Regs : cache[r].wr => cache[r].rd

\* The one stop under way tells the state the guest was stopped in.
Owed(s) ==
  /\ s.pc = regs["pc"]
  /\ s.why = "trap" /\ s.sure => Trapped(regs["dr6"], s.pc) = s.on
  /\ s.why \in Events => s.why \in handlers

\* A loop that no ^C crossed waits for a VM it has released with nothing
\* cached, or for the one stop that ends it; in every other place it holds
\* the VM and nothing is on its way.
SessionInv ==
  ~astray =>
    /\ at \notin {"wait", "gone"} => lock /\ ~intr
    /\ at # "wait" \/ ~lock => stops = <<>> /\ pool = <<>>
    /\ lock => \A r \in Regs : cache[r].rd /\ ~cache[r].wr => cache[r].val = regs[r]
    /\ ~lock => \A r \in Regs : ~cache[r].rd
    /\ Len(pool \o stops) = 1 => Owed((pool \o stops)[1])

IInv ==
  /\ TypeOK /\ Bounded /\ ListInv /\ GoneInv /\ Dr6Inv /\ SessionInv
  /\ mask \subseteq handlers
  /\ RegsCoherent /\ StopHandled /\ BreaksAgree
=============================================================================
