------------------------------ MODULE CtrlEvents ------------------------------
(***************************************************************************)
(* The controller: what the client asked to be told of (exceptions,        *)
(* control registers, nested page faults, hypercalls, cpuid, S3), the one  *)
(* slot in which an event waits for its report, the exception bitmap, and  *)
(* the gdb stub that is polled on the way back to the guest                *)
(* (vmm/src/control/{ctrl,ctrl_evt,gdbstub,gdbstub_evt,gdbstub_vmm}.c).    *)
(*                                                                         *)
(* The debugger of modules Debugger and HardBreak is here the set of       *)
(* exceptions it needs and, for one it takes, whether it reports it.       *)
(* `run' is "guest", then "exit" (controller), "poll" (gdb_recv_packet),   *)
(* "traps" and "guest" again, or "failed" when the VMM gave up.            *)
(***************************************************************************)
EXTENDS Naturals

CONSTANTS
  Space,    \* address spaces of the guest
  Rate,     \* gdb_rate: the detached stub is polled every Rate exits
  UsrVec,   \* exceptions the client may filter
  Cr,       \* control registers the guest and the client use
  Kinds,    \* the other filters the client may use
  Leaf,     \* cpuid leaves
  CTRL_CPUID_ALL, \* stands for every leaf
  DbgVec,   \* exceptions the debugger may need
  Filters,  \* address spaces the client may filter on
  Habits    \* what the client may do beyond orderly use of the stub

ASSUME CtrlEventsAssumption ==
  /\ Space # {}
  /\ Rate \in Nat \ {0}
  /\ Cr \subseteq {0, 3, 4}
  /\ Kinds \subseteq {"NPF", "HYP", "CPUID", "S3"}
  /\ DbgVec \subseteq {"BP", "DB", "GP"}
  /\ CTRL_CPUID_ALL \notin Leaf
  /\ Filters \subseteq Space
  /\ Habits \subseteq {"leave", "unmap"}

\* vmx_vmm.h: what the VMM itself intercepts
RmodeExcp == {"GP", "MC"}
PmodeExcp == {"MC"}
Vec == UsrVec \cup DbgVec \cup RmodeExcp

VARIABLES
  filter,   \* ctrl cr3 filter: on, stored_cr3, keep
  usr,      \* ctrl.usr: excp, cr_rd, cr_wr, filter, cpuid
  dbgExcp,  \* ctrl.dbg.excp
  dflt,     \* vm.cpu.dflt_excp
  bitmap,   \* the processor's exception bitmap
  traps,    \* ctrl.status: traps and utraps
  event,    \* ctrl.event, whose handler is set unless it is "none"
  stub,     \* gstub.sts: on, lock
  cnt,      \* vmexit_cnt modulo Rate
  link,     \* what the client sent while the VM runs
  hole,     \* the client has unmapped a page of the nested paging
  run,
  cr3, cpl  \* the guest

usrVars   == <<filter, usr, dbgExcp, hole>>
guestVars == <<cr3, cpl>>
vars == <<usrVars, dflt, bitmap, traps, event, stub, cnt, link, run, guestVars>>

EvtType == {"CR_RD", "CR_WR", "EXCP", "BRK", "SSTEP", "NPF", "HYP", "CPUID", "S3"}

TypeOK ==
  /\ filter \in [on : BOOLEAN, cr3 : Space, keep : BOOLEAN]
  /\ usr \in [excp : SUBSET UsrVec, crRd : SUBSET Cr, crWr : SUBSET Cr,
              mask : SUBSET Kinds, cpuid : Leaf \cup {CTRL_CPUID_ALL}]
  /\ dbgExcp \subseteq DbgVec
  /\ dflt \in {RmodeExcp, PmodeExcp}
  /\ bitmap \subseteq Vec
  /\ traps \in [on : BOOLEAN, up : BOOLEAN]
  /\ event \in EvtType \cup {"none"}
  /\ stub \in [on : BOOLEAN, lock : BOOLEAN]
  /\ cnt \in 0 .. Rate - 1
  /\ link \in {"none", "ack", "int"}
  /\ hole \in BOOLEAN
  /\ run \in {"guest", "exit", "poll", "traps", "failed"}
  /\ cr3 \in Space
  /\ cpl \in {0, 3}

Space0 == CHOOSE s \in Space : TRUE
NoUsr == [excp |-> {}, crRd |-> {}, crWr |-> {}, mask |-> {}, cpuid |-> CTRL_CPUID_ALL]

Init ==
  /\ filter = [on |-> FALSE, cr3 |-> Space0, keep |-> FALSE]
  /\ usr = NoUsr
  /\ dbgExcp = {}
  /\ dflt = RmodeExcp
  /\ bitmap = RmodeExcp
  /\ traps = [on |-> FALSE, up |-> FALSE]
  /\ event = "none"
  /\ stub = [on |-> FALSE, lock |-> FALSE]
  /\ cnt = 0
  /\ link = "none"
  /\ hole = FALSE
  /\ run = "guest"
  /\ cr3 = Space0
  /\ cpl = 0

ActiveAt_CplFirst(rpl) ==  \* mutant: the privilege is tested first
  cpl >= rpl /\ (filter.on => cr3 = filter.cr3)

\* __ctrl_active_cr3_check
ActiveAt(rpl) == filter.on => cpl >= rpl /\ cr3 = filter.cr3

\* __update_exception_mask
ExceptionMask(u, d, x) == d \cup u.excp \cup x

-----------------------------------------------------------------------------
(***************************************************************************)
(* The client's commands.  It sends them when it knows the VM stopped.     *)
(***************************************************************************)
Stopped == run = "poll" /\ link = "none" /\ stub.on /\ stub.lock

WrExcpMask_NoUpdate(E) ==  \* mutant: the bitmap is left for the next update
  /\ Stopped
  /\ usr' = [usr EXCEPT !.excp = E]
  /\ UNCHANGED <<filter, dbgExcp, hole, dflt, bitmap, traps, event, stub, cnt, link,
                 run, guestVars>>

WrExcpMask(E) ==
  /\ Stopped
  /\ usr' = [usr EXCEPT !.excp = E]
  /\ bitmap' = ExceptionMask(usr', dflt, dbgExcp)
  /\ UNCHANGED <<filter, dbgExcp, hole, dflt, traps, event, stub, cnt, link,
                 run, guestVars>>

WrCrRdMask(S) ==
  /\ Stopped
  /\ usr' = [usr EXCEPT !.crRd = S]
  /\ UNCHANGED <<filter, dbgExcp, hole, dflt, bitmap, traps, event, stub, cnt, link,
                 run, guestVars>>

WrCrWrMask(S) ==
  /\ Stopped
  /\ usr' = [usr EXCEPT !.crWr = S]
  /\ UNCHANGED <<filter, dbgExcp, hole, dflt, bitmap, traps, event, stub, cnt, link,
                 run, guestVars>>

WrFilterMask(M) ==
  /\ Stopped
  /\ usr' = [usr EXCEPT !.mask = M]
  /\ UNCHANGED <<filter, dbgExcp, hole, dflt, bitmap, traps, event, stub, cnt, link,
                 run, guestVars>>

FilterCpuid(i) ==
  /\ Stopped
  /\ usr' = [usr EXCEPT !.cpuid = i]
  /\ UNCHANGED <<filter, dbgExcp, hole, dflt, bitmap, traps, event, stub, cnt, link,
                 run, guestVars>>

\* gdb_vmm_npg_map, gdb_vmm_npg_unmap
SetMapping(h) ==
  /\ Stopped
  /\ hole' = h
  /\ UNCHANGED <<filter, usr, dbgExcp, dflt, bitmap, traps, event, stub, cnt, link,
                 run, guestVars>>

\* Breakpoints are set or deleted: dbg_soft_protect, dbg_hard_protect ...
\* A step keeps #GP and #DB until it ends.
SetTraps(X) ==
  /\ Stopped
  /\ "GP" \in X <=> "GP" \in dbgExcp
  /\ "GP" \in dbgExcp /\ "DB" \in dbgExcp => "DB" \in X
  /\ dbgExcp' = X
  /\ \E again \in BOOLEAN : traps' = [traps EXCEPT !.up = X # dbgExcp \/ again \/ @]
  /\ UNCHANGED <<filter, usr, hole, dflt, bitmap, event, stub, cnt, link,
                 run, guestVars>>

\* ctrl_active_cr3_enable; a filter that was on is disabled first, which
\* resets the soft breakpoints.
SetFilter(s) ==
  /\ Stopped
  /\ filter' = [on |-> TRUE, cr3 |-> s, keep |-> ~filter.on /\ filter.keep]
  /\ dbgExcp' = IF filter.on THEN dbgExcp \ {"BP"} ELSE dbgExcp
  /\ traps' = [traps EXCEPT !.up = TRUE]
  /\ UNCHANGED <<usr, hole, dflt, bitmap, event, stub, cnt, link,
                 run, guestVars>>

DelFilter ==
  /\ Stopped
  /\ filter' = [filter EXCEPT !.on = FALSE, !.keep = FALSE]
  /\ dbgExcp' = dbgExcp \ {"BP"}
  /\ traps' = [traps EXCEPT !.up = TRUE]
  /\ UNCHANGED <<usr, hole, dflt, bitmap, event, stub, cnt, link,
                 run, guestVars>>

KeepFilter ==
  /\ Stopped
  /\ filter.on
  /\ filter' = [filter EXCEPT !.keep = TRUE]
  /\ UNCHANGED <<usr, dbgExcp, hole, dflt, bitmap, traps, event, stub, cnt, link,
                 run, guestVars>>

\* c and s: the stub is unlocked; a step needs its exceptions.
Resume(stp) ==
  /\ Stopped
  /\ dbgExcp' = IF stp THEN dbgExcp \cup (DbgVec \cap {"DB", "GP"}) ELSE dbgExcp
  /\ traps' = [traps EXCEPT !.up = dbgExcp' # dbgExcp \/ @]
  /\ stub' = [stub EXCEPT !.lock = FALSE]
  /\ run' = "traps"
  /\ UNCHANGED <<filter, usr, hole, dflt, bitmap, event, cnt, link, guestVars>>


(***************************************************************************)
(* D and k => gdb_disable: the cr3 filter goes unless it is to be kept,    *)
(* then exceptions and control registers (ctrl_usr_reset), and what the    *)
(* debugger needs.  An orderly client has emptied its filter mask and      *)
(* mapped its pages before (CPU._quit).                                    *)
(***************************************************************************)
Detach ==
  /\ Stopped
  /\ "leave" \in Habits \/ (usr.mask = {} /\ ~hole)
  /\ filter' = IF filter.keep THEN filter
               ELSE [filter EXCEPT !.on = FALSE, !.keep = FALSE]
  /\ usr' = [usr EXCEPT !.excp = {}, !.crRd = {}, !.crWr = {}]
  /\ bitmap' = ExceptionMask(usr', dflt, IF filter.keep THEN dbgExcp ELSE dbgExcp \ {"BP"})
  /\ dbgExcp' = {}
  /\ traps' = [traps EXCEPT !.up = TRUE]
  /\ stub' = [on |-> FALSE, lock |-> FALSE]
  /\ run' = "traps"
  /\ UNCHANGED <<hole, dflt, event, cnt, link, guestVars>>

\* The client connects, or interrupts the VM (Ctrl-C), at any time.
ClientSends ==
  /\ link = "none" /\ ~(stub.on /\ stub.lock)
  /\ link' = IF stub.on THEN "int" ELSE "ack"
  /\ UNCHANGED <<usrVars, dflt, bitmap, traps, event, stub, cnt, run, guestVars>>

-----------------------------------------------------------------------------
(***************************************************************************)
(* controller()                                                            *)
(***************************************************************************)
Polled_OnlyEnabled == stub.on   \* mutant: a detached stub is never polled

\* gdbstub()
Polled == stub.on \/ cnt = 0

AfterEvent == IF Polled THEN "poll" ELSE "traps"

\* ctrl_event, with the handlers of gdbstub_evt.c: report the stop and lock.
DeliverEvent ==
  /\ run = "exit"
  /\ event # "none" /\ ActiveAt(3)
  /\ event' = "none"
  /\ stub' = [stub EXCEPT !.lock = TRUE]
  /\ run' = AfterEvent
  /\ UNCHANGED <<usrVars, dflt, bitmap, traps, cnt, link, guestVars>>

NoEvent ==
  /\ run = "exit"
  /\ event = "none" \/ ~ActiveAt(3)
  /\ run' = AfterEvent
  /\ UNCHANGED <<usrVars, dflt, bitmap, traps, event, stub, cnt, link, guestVars>>

\* gdb_recv_packet reads the client's first '+', or its interrupt.
ReadLink ==
  /\ run = "poll"
  /\ link # "none"
  /\ stub' = [on |-> TRUE, lock |-> TRUE]
  /\ link' = "none"
  /\ UNCHANGED <<usrVars, dflt, bitmap, traps, event, cnt, run, guestVars>>

\* There is nothing to read, and the loop ends unless the stub is locked.
NothingRead ==
  /\ run = "poll"
  /\ link = "none" /\ ~stub.lock
  /\ run' = "traps"
  /\ UNCHANGED <<usrVars, dflt, bitmap, traps, event, stub, cnt, link, guestVars>>


\* ctrl_traps and the end of the exit handler
CtrlTraps ==
  /\ run = "traps"
  /\ CASE ActiveAt(0)  /\ (~traps.on \/ traps.up) ->
            /\ bitmap' = ExceptionMask(usr, dflt, dbgExcp)
            /\ traps' = [on |-> TRUE, up |-> FALSE]
       [] ~ActiveAt(0) /\ (traps.on \/ traps.up) ->
            /\ bitmap' = dflt
            /\ traps' = [on |-> FALSE, up |-> FALSE]
       [] OTHER -> UNCHANGED <<bitmap, traps>>
  /\ cnt' = (cnt + 1) % Rate
  /\ run' = "guest"
  /\ UNCHANGED <<usrVars, dflt, event, stub, link, guestVars>>

-----------------------------------------------------------------------------
(***************************************************************************)
(* The guest and its exits.                                                *)
(***************************************************************************)

\* ctrl_evt_setup: the slot takes the new event whatever it holds.
Raise(t) == event' = t

RaiseIf(wanted, t) == IF wanted THEN Raise(t) ELSE UNCHANGED event

OtherExit ==
  /\ run = "guest"
  /\ run' = "exit"
  /\ UNCHANGED <<usrVars, dflt, bitmap, traps, event, stub, cnt, link, guestVars>>

\* Kernel entry and return, without an exit.
SwitchCpl ==
  /\ run = "guest"
  /\ cpl' = 3 - cpl
  /\ UNCHANGED <<usrVars, dflt, bitmap, traps, event, stub, cnt, link, run, cr3>>

\* #DB that the debugger takes ends a step.
StepDone(v) ==
  IF v = "DB"
    THEN dbgExcp' = dbgExcp \ {"DB", "GP"} /\ traps' = [traps EXCEPT !.up = TRUE]
    ELSE UNCHANGED <<dbgExcp, traps>>

(***************************************************************************)
(* An intercepted exception => ctrl_evt_excp: the VMM's own handler        *)
(* ignores it, the debugger takes it, with a report or for itself, or      *)
(* leaves it to the user filter, and to the guest.                         *)
(***************************************************************************)
Exception(v) ==
  /\ run = "guest"
  /\ v \in bitmap
  /\ ~(v = "GP" /\ dflt = RmodeExcp)
  /\ \/ /\ v \in dbgExcp
        /\ StepDone(v)
        /\ \/ v # "GP" /\ Raise(IF v = "BP" THEN "BRK" ELSE "SSTEP")
           \/ UNCHANGED event
     \/ /\ RaiseIf(v \in usr.excp, "EXCP")
        /\ UNCHANGED <<dbgExcp, traps>>
  /\ run' = "exit"
  /\ UNCHANGED <<filter, usr, hole, dflt, bitmap, stub, cnt, link, guestVars>>

\* mov to a control register; the event comes after the new value.  A change
\* of cr0.pe changes the mode and with it the exceptions of the VMM.
CrWrite(n, s, d) ==
  /\ run = "guest"
  /\ cpl = 0
  /\ cr3' = IF n = 3 THEN s ELSE cr3
  /\ IF n = 0 /\ d # dflt
       THEN dflt' = d /\ bitmap' = ExceptionMask(usr, d, dbgExcp)
       ELSE UNCHANGED <<dflt, bitmap>>
  /\ RaiseIf(n \in usr.crWr, "CR_WR")
  /\ run' = "exit"
  /\ UNCHANGED <<usrVars, traps, stub, cnt, link, cpl>>

\* mov from cr3, which exits when filtered; cr0 and cr4 do not.
CrRead ==
  /\ run = "guest"
  /\ cpl = 0
  /\ 3 \in usr.crRd
  /\ Raise("CR_RD")
  /\ run' = "exit"
  /\ UNCHANGED <<usrVars, dflt, bitmap, traps, stub, cnt, link, guestVars>>


Cpuid(i) ==
  /\ run = "guest"
  /\ RaiseIf("CPUID" \in usr.mask /\ usr.cpuid \in {i, CTRL_CPUID_ALL}, "CPUID")
  /\ run' = "exit"
  /\ UNCHANGED <<usrVars, dflt, bitmap, traps, stub, cnt, link, guestVars>>

\* vmcall; without the filter the guest gets #UD.
Hypercall ==
  /\ run = "guest"
  /\ RaiseIf("HYP" \in usr.mask, "HYP")
  /\ run' = "exit"
  /\ UNCHANGED <<usrVars, dflt, bitmap, traps, stub, cnt, link, guestVars>>

\* An access to an unmapped page; without the filter the VMM gives up.
Npf ==
  /\ run = "guest"
  /\ hole
  /\ RaiseIf("NPF" \in usr.mask, "NPF")
  /\ run' = IF "NPF" \in usr.mask THEN "exit" ELSE "failed"
  /\ UNCHANGED <<usrVars, dflt, bitmap, traps, stub, cnt, link, guestVars>>

\* A write to the ACPI PM1 control register that asks for S3: the event,
\* then acpi_wake_up, which puts the guest back in real mode.
Suspend ==
  /\ run = "guest"
  /\ cpl = 0
  /\ RaiseIf("S3" \in usr.mask, "S3")
  /\ dflt' = RmodeExcp
  /\ bitmap' = IF dflt = RmodeExcp THEN bitmap ELSE ExceptionMask(usr, RmodeExcp, dbgExcp)
  /\ run' = "exit"
  /\ UNCHANGED <<usrVars, traps, stub, cnt, link, guestVars>>

-----------------------------------------------------------------------------
ClientCommand ==
  \/ \E E \in SUBSET UsrVec : WrExcpMask(E)
  \/ \E S \in SUBSET Cr : WrCrRdMask(S) \/ WrCrWrMask(S)
  \/ \E M \in SUBSET Kinds : WrFilterMask(M)
  \/ \E i \in Leaf \cup {CTRL_CPUID_ALL} : FilterCpuid(i)
  \/ \E h \in BOOLEAN : "unmap" \in Habits /\ SetMapping(h)
  \/ \E X \in SUBSET DbgVec : SetTraps(X)
  \/ \E s \in Filters : SetFilter(s)
  \/ DelFilter \/ KeepFilter
  \/ Resume(TRUE) \/ Resume(FALSE)
  \/ Detach

Controller == DeliverEvent \/ NoEvent \/ ReadLink \/ NothingRead \/ CtrlTraps

GuestExit ==
  \/ OtherExit
  \/ \E v \in Vec : Exception(v)
  \/ \E n \in Cr, s \in Space, d \in {RmodeExcp, PmodeExcp} : CrWrite(n, s, d)
  \/ CrRead
  \/ \E i \in Leaf : Cpuid(i)
  \/ Hypercall \/ Npf \/ Suspend

Next == ClientCommand \/ ClientSends \/ Controller \/ GuestExit \/ SwitchCpl

Spec == Init /\ [][Next]_vars

\* The VMM runs its handlers to their end and the guest keeps on exiting,
\* which its context switches do; the client promises nothing.
FairSpec == Spec /\ WF_vars(Controller) /\ WF_vars(GuestExit)

-----------------------------------------------------------------------------
(***************************************************************************)
(* Properties.                                                             *)
(***************************************************************************)

\* The processor intercepts what the VMM itself needs, nothing that nobody
\* asked for, and all that was asked for while the debugged process runs.
\* The bitmap is written at five places, some at once and some through
\* ctrl_traps().
BitmapAsAsked ==
  run = "guest" =>
    /\ dflt \subseteq bitmap
    /\ bitmap \subseteq ExceptionMask(usr, dflt, dbgExcp)
    /\ ActiveAt(0) => bitmap = ExceptionMask(usr, dflt, dbgExcp)

\* Nobody is stopped for a client that left: the stub is locked only in a
\* session (gdb_disable, ctrl_usr_reset).
DetachedUnlocked == ~stub.on => ~stub.lock

Wanted(t) ==
  CASE t = "EXCP"  -> usr.excp # {}
    [] t = "CR_RD" -> usr.crRd # {}
    [] t = "CR_WR" -> usr.crWr # {}
    [] t \in {"NPF", "HYP", "CPUID", "S3"} -> t \in usr.mask
    [] OTHER -> TRUE

\* A stop that is reported is one the client still asks for (ctrl.h:59).
StopsWanted == [][DeliverEvent => Wanted(event)]_vars

\* What the client sends is read and stops the VM, whatever the guest does
\* and even if nobody was attached, unless the VMM gave up (gdbstub,
\* gdb_rate).
ClientServed == link # "none" ~> (link = "none" /\ stub.lock) \/ run = "failed"

\* Without a cr3 filter a pending event does not wait for the guest to be
\* in some mode (__ctrl_active_cr3_check); only a client that holds the VM
\* can delay it.
PendingDelivered ==
  event # "none" /\ ~filter.on ~> event = "none" \/ stub.lock \/ run = "failed"

-----------------------------------------------------------------------------
(***************************************************************************)
(* What makes them inductive.                                              *)
(***************************************************************************)

\* When no update of the traps is due, the bitmap is what the traps say;
\* with the traps off, client filters written meanwhile may be in it.
BitmapInv ==
  /\ dflt \subseteq bitmap
  /\ ~traps.up => bitmap \subseteq ExceptionMask(usr, dflt, dbgExcp)
  /\ ~traps.up /\ traps.on => bitmap = ExceptionMask(usr, dflt, dbgExcp)
  /\ run = "guest" => ~traps.up /\ (ActiveAt(0) => bitmap = ExceptionMask(usr, dflt, dbgExcp))

\* An orderly client that uses no cr3 filter.
Orderly == Filters = {} /\ "leave" \notin Habits

\* Why its sessions are clean: an event never outlives the exit that raised
\* it, because every check lets it by, and outside a session nothing is
\* asked for that could raise one.
SessionInv ==
  /\ ~filter.on
  /\ run \in {"poll", "traps", "guest"} => event = "none"
  /\ run = "exit" /\ event # "none" => stub.on /\ Wanted(event)
  /\ ~stub.on => ~stub.lock /\ dbgExcp = {} /\ usr.excp = {}
                 /\ usr.crRd = {} /\ usr.crWr = {} /\ usr.mask = {}
=============================================================================
