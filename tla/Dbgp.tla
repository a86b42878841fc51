-------------------------------- MODULE Dbgp --------------------------------
(***************************************************************************)
(* The EHCI debug port, the control channel of CONFIG_HAS_EHCI (ehci.c,    *)
(* pci_dbgp.c).  The driver polls: each wait is a step that either sees    *)
(* the hardware condition or exhausts its retries.  The driver is          *)
(* recursive (an emission that fails too often re-initialises the          *)
(* controller, which configures the device, which emits), so the model     *)
(* keeps its call stack.  The controller is shared with the guest, which   *)
(* may reset it or put it to sleep whenever it runs, and the cable may be  *)
(* pulled at any time.                                                     *)
(***************************************************************************)
EXTENDS Integers, Sequences, FiniteSets, SequencesExt

CONSTANTS NADDR,      \* USB addresses dbgp_configure tries (128)
          FAIL_TRSH,  \* DBGP_FAIL_TRSH (5)
          RETRY,      \* DBGP_RETRY (1000)
          SETADDR,    \* CONFIG_EHCI_SETADDR
          MaxOut,     \* bound: packets written
          MaxIn,      \* bound: packets the client sends
          MaxFaults   \* bound: faults of the bus, the cable and the guest

ASSUME DbgpAssumption ==
    /\ NADDR \in Nat \ {0} /\ FAIL_TRSH \in Nat \ {0} /\ RETRY \in Nat \ {0}
    /\ SETADDR \in BOOLEAN
    /\ MaxOut \in Nat /\ MaxIn \in Nat /\ MaxFaults \in Nat

VARIABLES hc,      \* power, BAR, ownership semaphores, usbcmd and cfgflg
          portsc,  \* the port register of the debug port
          ctrl,    \* the debug port's control register
          dev,     \* the device on the cable (external)
          drv,     \* dbgp_info_t and the statics of __dbgp_write
          stack,   \* the driver's call stack, innermost first; <<>>: guest runs
          ret,     \* what the last call returned
          io,      \* what was asked of and told by dbgp_read and dbgp_write
          faults,  \* faults so far
          harm     \* transfers that failed, devices and acknowledgements lost

dbgpvars == <<hc, portsc, ctrl, dev, drv, stack, ret, io, faults, harm>>
bus == <<hc, portsc, ctrl>>

\* Harms are counted up to this bound, which no count of damage exceeds.
HarmCap == MaxOut + MaxFaults

DBGP_DEV_ADDR == NADDR - 1
NoAddr == NADDR

\* EHCI_DATA_PID_0, EHCI_DATA_PID_1 and any other byte.
Pids == {0, 1, 2}
ehci_pid_swap(p) == 1 - p

Speeds == {"high", "full", "low"}

UsbRequests == {"get_descriptor", "read_descriptor", "set_addr", "set_debug_mode"}

HcRegs == [power : {"D0", "D3"}, mmio : BOOLEAN, bios : BOOLEAN, os : BOOLEAN,
           run : BOOLEAN, cf : BOOLEAN]

PortRegs == [own : BOOLEAN, conn : BOOLEAN, chg : BOOLEAN, enbl : BOOLEAN]

CtrlRegs == [ownd : BOOLEAN, enbl : BOOLEAN]

DbgpInfo == [addr : 0..NADDR, fails : 0..FAIL_TRSH,
             wr_toggle : {0, 1}, status : BOOLEAN]

DevState == [in : BOOLEAN, speed : Speeds, quirk : BOOLEAN, addr : 0..NADDR,
             pend : 0..NADDR, mode : BOOLEAN, steady : BOOLEAN, tog : {0, 1},
             got : Seq(1..MaxOut), next : 1..MaxIn + 1]

CallFrames == [fn : {"write", "read", "boot"}, at : {"call", "wait"}]

EmitFrames ==
    [fn : {"emit"}, req : UsbRequests \cup {"OUT", "IN"}, pid : Pids,
     retry : 0..RETRY, at : {"start", "init", "go", "failure", "reinit"}]

InitFrames ==
    [fn : {"full_init", "fast_init"},
     at : {"warm_up", "acquire", "reset", "setup", "detect", "debounce",
           "port_reset", "enable", "configure"}]

ConfigureFrames ==
    [fn : {"configure"}, dev : 0..NADDR, times : 0..RETRY,
     at : {"probe", "descriptor", "answer", "addr", "mode", "mode_old"}]

PanicFrames == [fn : {"panic"}, at : {"panic"}]

Frames == CallFrames \cup EmitFrames \cup InitFrames \cup ConfigureFrames \cup PanicFrames

DbgpTypeOK ==
    /\ hc \in HcRegs /\ portsc \in PortRegs /\ ctrl \in CtrlRegs
    /\ dev \in DevState /\ drv \in DbgpInfo
    /\ stack \in Seq(Frames) /\ ret \in {"none", "done", "nak", "fail"}
    /\ io \in [out : 0..MaxOut, goal : 0..MaxOut, taken : Seq(1..MaxIn)]
    /\ io.out <= io.goal
    /\ faults \in 0..MaxFaults /\ harm \in 0..HarmCap

-----------------------------------------------------------------------------
(* The call stack. *)

Top == stack[1]
At(f, l) == stack # <<>> /\ Top.fn = f /\ Top.at = l
Goto(l) == stack' = [stack EXCEPT ![1].at = l]
Call(f, l) == stack' = <<f, [Top EXCEPT !.at = l]>> \o Tail(stack)
Return(v) == stack' = Tail(stack) /\ ret' = IF Len(stack) = 1 THEN "none" ELSE v

Initialising == \E i \in DOMAIN stack : stack[i].fn \in {"full_init", "fast_init"}

\* A fault of the bus: counted, and a harm to the stream when it may cost data.
Fault == faults < MaxFaults /\ faults' = faults + 1
Harmed == harm' = IF harm < HarmCap THEN harm + 1 ELSE harm

-----------------------------------------------------------------------------
(* The device (external), and what the controller can reach. *)

\* steady: on the cable since the port was last reset.
Unconfigured(d) == [d EXCEPT !.addr = 0, !.pend = NoAddr, !.mode = FALSE, !.tog = 0,
                             !.steady = FALSE]

Reaches(req) ==
    /\ hc.power = "D0" /\ hc.mmio /\ ctrl.enbl /\ ctrl.ownd /\ ~portsc.own
    /\ dev.in /\ dev.speed = "high" /\ dev.addr = drv.addr
    /\ req \in {"OUT", "IN"} => dev.mode

\* A pending address is taken by the request after set_addr (Linux gadget).
Settle(d) == IF d.pend = NoAddr THEN d
             ELSE [d EXCEPT !.addr = d.pend, !.pend = NoAddr]

\* The device's side of an accepted transaction.
Accepts(req, pid) ==
    CASE req = "set_addr" ->
           IF dev.quirk THEN [dev EXCEPT !.pend = DBGP_DEV_ADDR]
           ELSE [dev EXCEPT !.addr = DBGP_DEV_ADDR]
      [] req = "set_debug_mode" -> [Settle(dev) EXCEPT !.mode = TRUE]
      [] req = "OUT" ->
           IF pid = dev.tog
           THEN [dev EXCEPT !.tog = 1 - dev.tog, !.got = Append(@, io.out + 1)]
           ELSE dev
      [] req = "IN" -> [dev EXCEPT !.next = @ + 1]
      [] OTHER -> Settle(dev)

Unplug ==
    /\ dev.in /\ Fault /\ Harmed
    /\ dev' = [Unconfigured(dev) EXCEPT !.in = FALSE]
    /\ portsc' = [portsc EXCEPT !.conn = FALSE, !.chg = TRUE, !.own = FALSE, !.enbl = FALSE]
    /\ UNCHANGED <<hc, ctrl, drv, stack, ret, io>>

\* The user plugs the debug device back, or another one.
Plug ==
    /\ ~dev.in \/ dev.speed # "high"
    /\ \E s \in Speeds :
         /\ IF s = "high" THEN UNCHANGED faults ELSE Fault
         /\ dev' = [Unconfigured(dev) EXCEPT !.in = TRUE, !.speed = s]
    /\ portsc' = [own |-> FALSE, conn |-> TRUE, chg |-> TRUE, enbl |-> FALSE]
    /\ UNCHANGED <<hc, ctrl, drv, stack, ret, io, harm>>

-----------------------------------------------------------------------------
(* The guest, and what it may do to the controller when it runs. *)

GuestSleeps ==
    /\ stack = <<>> /\ Fault
    /\ hc' = [hc EXCEPT !.power = "D3", !.mmio = FALSE, !.run = FALSE]
    /\ UNCHANGED <<portsc, ctrl, dev, drv, stack, ret, io, harm>>

GuestResets ==
    /\ stack = <<>> /\ Fault
    /\ hc' = [hc EXCEPT !.run = FALSE, !.cf = FALSE]
    /\ portsc' = [portsc EXCEPT !.own = TRUE, !.enbl = FALSE]
    /\ ctrl' \in {ctrl, [ownd |-> FALSE, enbl |-> FALSE]}
    /\ UNCHANGED <<dev, drv, stack, ret, io, harm>>

BiosYields ==
    /\ hc.bios /\ hc.os
    /\ hc' = [hc EXCEPT !.bios = FALSE]
    /\ UNCHANGED <<portsc, ctrl, dev, drv, stack, ret, io, faults, harm>>

-----------------------------------------------------------------------------
(* ehci_full_init, one step per wait. *)

\* ehci_dbgp_full_init, entered at its first step
full_init == [fn |-> "full_init", at |-> "warm_up"]

At_init(l) == At("full_init", l) \/ At("fast_init", l)

\* Back to D0, and the BAR and the command register restored.  The BIOS may
\* have taken its semaphore again since ehci_release.
ehci_warm_up ==
    /\ At_init("warm_up")
    /\ hc' \in {[hc EXCEPT !.power = "D0", !.mmio = TRUE, !.bios = b] : b \in BOOLEAN}
    /\ Goto("acquire")
    /\ UNCHANGED <<portsc, ctrl, dev, drv, ret, io, faults, harm>>

\* Mutant: waits for the BIOS without asking.
acquire_silently ==
    /\ At_init("acquire")
    /\ hc.os /\ ~hc.bios /\ Goto("reset")
    /\ UNCHANGED <<hc, portsc, ctrl, dev, drv, ret, io, faults, harm>>

ehci_acquire ==
    /\ At_init("acquire")
    /\ IF hc.os /\ ~hc.bios THEN Goto("reset") /\ UNCHANGED hc
       ELSE hc' = [hc EXCEPT !.os = TRUE] /\ ~hc.os /\ UNCHANGED stack
    /\ UNCHANGED <<portsc, ctrl, dev, drv, ret, io, faults, harm>>

\* A wait that runs out of retries fails the whole initialisation.
WaitFails ==
    /\ \E l \in {"reset", "setup", "port_reset"} : At_init(l)
    /\ Fault /\ Return("fail")
    /\ UNCHANGED <<bus, dev, drv, io, harm>>

\* Halted, then reset: the port goes to the companion controller.
ehci_reset ==
    /\ At_init("reset")
    /\ hc' = [hc EXCEPT !.run = FALSE, !.cf = FALSE]
    /\ portsc' = [portsc EXCEPT !.own = TRUE, !.enbl = FALSE]
    /\ Goto("setup")
    /\ UNCHANGED <<ctrl, dev, drv, ret, io, faults, harm>>

\* Started with the configure flag, which routes the port back.
ehci_setup ==
    /\ At_init("setup")
    /\ hc' = [hc EXCEPT !.run = TRUE, !.cf = TRUE]
    /\ portsc' = [portsc EXCEPT !.own = FALSE, !.conn = dev.in, !.chg = TRUE]
    /\ ctrl' = [ctrl EXCEPT !.ownd = TRUE]        \* dbgp_own of ehci_detect
    /\ Goto("detect")
    /\ UNCHANGED <<dev, drv, ret, io, faults, harm>>

\* No connection before the retries end: VM_FAIL.
ehci_port_leave_disabled ==
    /\ At_init("detect")
    /\ \/ /\ portsc.conn /\ portsc.chg
          /\ portsc' = [portsc EXCEPT !.chg = FALSE]
          /\ Goto("debounce") /\ UNCHANGED ret
       \/ ~(portsc.conn /\ portsc.chg) /\ Return("fail") /\ UNCHANGED portsc
    /\ UNCHANGED <<hc, ctrl, dev, drv, io, faults, harm>>

Companion == portsc' = [own |-> TRUE, conn |-> FALSE, chg |-> FALSE, enbl |-> FALSE]

\* After the debounce time: reset a high or full speed device, give a low
\* speed one to the companion, start over when it is gone.
ehci_port_debounce ==
    /\ At_init("debounce")
    /\ \/ /\ portsc.conn /\ dev.speed # "low"
          /\ Goto("port_reset") /\ UNCHANGED portsc
       \/ portsc.conn /\ dev.speed = "low" /\ Companion /\ Goto("detect")
       \/ ~portsc.conn /\ portsc' = [portsc EXCEPT !.chg = FALSE] /\ Goto("detect")
    /\ UNCHANGED <<hc, ctrl, dev, drv, ret, io, faults, harm>>

\* The port reset puts the device back to address 0.
ehci_port_reset ==
    /\ At_init("port_reset")
    /\ dev' = [Unconfigured(dev) EXCEPT !.steady = dev.in]
    /\ IF io.out > 0 THEN Harmed ELSE UNCHANGED harm
    /\ \/ /\ portsc.conn /\ dev.speed = "high"
          /\ portsc' = [portsc EXCEPT !.enbl = TRUE]
          /\ Goto("enable")
       \/ portsc.conn /\ dev.speed # "high" /\ Companion /\ Goto("detect")
       \/ ~portsc.conn /\ UNCHANGED portsc /\ Goto("detect")
    /\ UNCHANGED <<hc, ctrl, drv, ret, io, faults>>

\* The debug port takes the port, which is disabled for the host controller.
dbgp_enable ==
    /\ At_init("enable")
    /\ ctrl' = [ownd |-> TRUE, enbl |-> TRUE]
    /\ portsc' = [portsc EXCEPT !.enbl = FALSE]
    /\ Call([fn |-> "configure", dev |-> 0, times |-> RETRY, at |-> "probe"], "configure")
    /\ UNCHANGED <<hc, dev, drv, ret, io, faults, harm>>

\* ehci_release gives the semaphore back; the fast path never took it.
ehci_controller_postinit ==
    /\ At_init("configure") /\ ret = "done"
    /\ \/ Top.fn = "full_init" /\ hc' = [hc EXCEPT !.os = FALSE]
       \/ Top.fn = "fast_init" /\ UNCHANGED hc
    /\ Return("done")
    /\ UNCHANGED <<portsc, ctrl, dev, drv, io, faults, harm>>

\* ehci_init boots with full initialisations until one is done.
ehci_init ==
    /\ At("boot", "wait") /\ ret # "none" /\ ret' = "none"
    /\ \/ ret = "done" /\ stack' = <<>>
       \/ ret = "fail" /\ Call(full_init, "wait")
    /\ UNCHANGED <<bus, dev, drv, io, faults, harm>>

-----------------------------------------------------------------------------
(* dbgp_configure: find the device's address, move it, put it in debug     *)
(* mode; start over when a step fails, and panic after RETRY rounds.       *)

Emission(req, pid) ==
    [fn |-> "emit", req |-> req, pid |-> pid, retry |-> RETRY, at |-> "start"]

\* __dbgp_setup sends DATA0; rd_toggle does not matter to the controller.
Request(req, l) == Call(Emission(req, 0), l)

ConfigureFails ==
    IF Top.times = 1 THEN stack' = <<[fn |-> "panic", at |-> "panic"]>>
    ELSE stack' = [stack EXCEPT ![1].times = @ - 1, ![1].dev = 0, ![1].at = "probe"]

\* The next address to try: dbgp_i->addr = dev, then get_descriptor.
dbgp_configure ==
    /\ At("configure", "probe")
    /\ \/ /\ Top.dev < NADDR
          /\ drv' = [drv EXCEPT !.addr = Top.dev]
          /\ Request("get_descriptor", "descriptor")
       \/ Top.dev = NADDR /\ ConfigureFails /\ UNCHANGED drv
    /\ UNCHANGED <<bus, dev, ret, io, faults, harm>>

NextAddress == stack' = [stack EXCEPT ![1].dev = @ + 1, ![1].at = "probe"]

\* The device answered at address Top.dev: where set_debug_mode goes.
AfterDescriptor ==
    IF SETADDR /\ Top.dev # DBGP_DEV_ADDR
    THEN Request("set_addr", "addr") /\ UNCHANGED drv
    ELSE Request("set_debug_mode", IF SETADDR THEN "mode" ELSE "mode_old") /\ UNCHANGED drv

dbgp_get_descriptor ==
    /\ ret # "none" /\ ret' = "none"
    /\ \/ /\ At("configure", "descriptor")
          /\ IF ret = "done" THEN Request("read_descriptor", "answer") ELSE NextAddress
          /\ UNCHANGED drv
       \/ /\ At("configure", "answer")
          /\ IF ret = "done" THEN AfterDescriptor ELSE NextAddress /\ UNCHANGED drv
    /\ UNCHANGED <<bus, dev, io, faults, harm>>

dbgp_set_addr ==
    /\ At("configure", "addr") /\ ret # "none" /\ ret' = "none"
    /\ \/ /\ ret = "done"
          /\ drv' = [drv EXCEPT !.addr = DBGP_DEV_ADDR]
          /\ Request("set_debug_mode", "mode")
       \/ ret = "fail" /\ ConfigureFails /\ UNCHANGED drv
    /\ UNCHANGED <<bus, dev, io, faults, harm>>

\* Mutant: the address is left at the old one after the retry there.
set_debug_mode_old_kept ==
    /\ ret # "none"
    /\ \/ /\ At("configure", "mode") /\ ret = "fail" /\ ret' = "none"
          /\ drv' = [drv EXCEPT !.addr = Top.dev]
          /\ Request("set_debug_mode", "mode_old")
       \/ /\ At("configure", "mode_old") /\ ret = "fail" /\ ret' = "none"
          /\ ConfigureFails /\ UNCHANGED drv
       \/ /\ At("configure", "mode") \/ At("configure", "mode_old")
          /\ ret = "done" /\ Return("done") /\ UNCHANGED drv
    /\ UNCHANGED <<bus, dev, io, faults, harm>>

\* A refusal at the new address is retried at the old one; either way the
\* device is then expected at the new one.
dbgp_set_debug_mode ==
    /\ ret # "none"
    /\ \/ /\ At("configure", "mode") /\ ret = "fail" /\ ret' = "none"
          /\ drv' = [drv EXCEPT !.addr = Top.dev]
          /\ Request("set_debug_mode", "mode_old")
       \/ /\ At("configure", "mode_old") /\ ret = "fail" /\ ret' = "none"
          /\ ConfigureFails /\ UNCHANGED drv
       \/ /\ At("configure", "mode") \/ At("configure", "mode_old")
          /\ ret = "done" /\ Return("done")
          /\ drv' = [drv EXCEPT !.addr = IF SETADDR THEN DBGP_DEV_ADDR ELSE Top.dev]
    /\ UNCHANGED <<bus, dev, io, faults, harm>>

-----------------------------------------------------------------------------
(* __dbgp_emit. *)

\* A sleeping or unmapped controller reads as all ones: enabled and owned.
Enabled == (ctrl.enbl /\ ctrl.ownd) \/ hc.power = "D3" \/ ~hc.mmio

EmitStart ==
    /\ At("emit", "start")
    /\ IF Enabled THEN Goto("go")
       ELSE Call(full_init, "init")
    /\ UNCHANGED <<bus, dev, drv, ret, io, faults, harm>>

EmitAfterInit ==
    /\ At("emit", "init") /\ ret # "none" /\ ret' = "none"
    /\ Goto(IF ret = "done" THEN "go" ELSE "failure")
    /\ UNCHANGED <<bus, dev, drv, io, faults, harm>>

IsRead(req) == req \in {"IN", "read_descriptor"}

\* The transaction is acknowledged.
EmitOk ==
    /\ At("emit", "go") /\ Reaches(Top.req) /\ Top.pid # 2
    /\ Top.req = "IN" => dev.next <= MaxIn
    /\ dev' = Accepts(Top.req, Top.pid)
    /\ io' = IF Top.req = "IN" THEN [io EXCEPT !.taken = Append(@, dev.next)] ELSE io
    /\ Return("done")
    /\ UNCHANGED <<bus, drv, faults, harm>>

\* Mutant: a NAK of a written packet taken for an acknowledgement.
emit_nak_taken ==
    /\ At("emit", "go") /\ Reaches(Top.req) /\ Top.pid # 2
    /\ Top.req \in {"IN", "OUT", "read_descriptor"}
    /\ IF Top.req = "IN" THEN UNCHANGED faults ELSE Fault
    /\ Return(IF IsRead(Top.req) THEN "nak" ELSE "done")
    /\ UNCHANGED <<bus, dev, drv, io, harm>>

\* A NAK: nothing read, or sent again until the retries end.  A device that
\* has nothing to say answers so without any fault.
EmitNak ==
    /\ At("emit", "go") /\ Reaches(Top.req) /\ Top.pid # 2
    /\ Top.req \in {"IN", "OUT", "read_descriptor"}
    /\ IF Top.req = "IN" THEN UNCHANGED faults ELSE Fault
    /\ \/ IsRead(Top.req) /\ Return("nak")
       \/ /\ ~IsRead(Top.req) /\ UNCHANGED ret
          /\ stack' = [stack EXCEPT ![1].retry = @ - 1,
                                    ![1].at = IF Top.retry = 1 THEN "failure" ELSE "go"]
    /\ UNCHANGED <<bus, dev, drv, io, harm>>

\* The controller reports an error or a STALL: nobody there, or the packet,
\* the data read or the acknowledgement was lost.  After a lost acknowledgement
\* of a read the controller has the data and the device will send it again.
EmitErr ==
    /\ At("emit", "go")
    /\ \/ /\ ~Reaches(Top.req) \/ Top.pid = 2
          /\ Goto("failure") /\ UNCHANGED <<dev, io, faults, ret, harm>>
       \/ /\ Reaches(Top.req) /\ Top.pid # 2 /\ Fault
          /\ dev' \in {dev} \cup (IF IsRead(Top.req) THEN {} ELSE {Accepts(Top.req, Top.pid)})
          /\ Goto("failure") /\ UNCHANGED <<io, ret, harm>>
       \/ /\ Reaches(Top.req) /\ Fault /\ Top.req = "IN" /\ dev.next <= MaxIn
          /\ io' = [io EXCEPT !.taken = Append(@, dev.next)]
          /\ Return("done") /\ Harmed /\ UNCHANGED dev
    /\ UNCHANGED <<bus, drv>>

\* The failure count is never reset by a success.
EmitFailure ==
    /\ At("emit", "failure")
    /\ \/ /\ drv.fails < FAIL_TRSH
          /\ drv' = [drv EXCEPT !.fails = @ + 1]
          /\ Return("fail") /\ UNCHANGED ctrl
       \/ /\ drv.fails = FAIL_TRSH
          /\ drv' = [drv EXCEPT !.fails = 0]
          /\ ctrl' = [ownd |-> FALSE, enbl |-> FALSE]
          /\ Call(full_init, "reinit") /\ UNCHANGED ret
    /\ IF Top.req = "OUT" THEN Harmed ELSE UNCHANGED harm
    /\ UNCHANGED <<hc, portsc, dev, io, faults>>

EmitReinit ==
    /\ At("emit", "reinit") /\ ret # "none"
    /\ \/ ret = "done" /\ Return("fail")
       \/ /\ ret = "fail" /\ ret' = "none"
          /\ Call(full_init, "reinit")
    /\ UNCHANGED <<bus, dev, drv, io, faults, harm>>

-----------------------------------------------------------------------------
(* dbgp_write and dbgp_read, called by the VMM while the guest is stopped. *)

VmmWrites ==
    /\ stack = <<>>
    /\ \E n \in 1..2 : io.goal + n <= MaxOut /\ io' = [io EXCEPT !.goal = @ + n]
    /\ stack' = <<[fn |-> "write", at |-> "call"]>>
    /\ UNCHANGED <<bus, dev, drv, ret, faults, harm>>

VmmReads ==
    /\ stack = <<>>
    /\ stack' = <<[fn |-> "read", at |-> "call"]>>
    /\ UNCHANGED <<bus, dev, drv, ret, io, faults, harm>>

\* The toggle on the wire: swapped after a success, whatever the stack holds
\* after a failure (shadow.pid.snd is not assigned then).
dbgp_write ==
    /\ At("write", "call") /\ io.out < io.goal
    /\ \/ /\ drv.status
          /\ drv' = [drv EXCEPT !.wr_toggle = ehci_pid_swap(@)]
          /\ Call(Emission("OUT", drv'.wr_toggle), "wait")
       \/ /\ ~drv.status /\ UNCHANGED drv
          /\ \E p \in Pids : Call(Emission("OUT", p), "wait")
    /\ UNCHANGED <<bus, dev, ret, io, faults, harm>>

\* __dbgp_rw moves on by one packet, or dbgp_write starts again where it was.
dbgp_rw ==
    /\ At("write", "wait") /\ ret # "none" /\ ret' = "none"
    /\ drv' = [drv EXCEPT !.status = (ret = "done")]
    /\ io' = IF ret = "done" THEN [io EXCEPT !.out = @ + 1] ELSE io
    /\ Goto("call")
    /\ UNCHANGED <<bus, dev, faults, harm>>

dbgp_write_returns ==
    /\ At("write", "call") /\ io.out = io.goal
    /\ stack' = <<>>
    /\ UNCHANGED <<bus, dev, drv, ret, io, faults, harm>>

\* A full packet asks for the next, a short one, a NAK or a failure ends it.
dbgp_read ==
    /\ \/ /\ At("read", "call") /\ Call(Emission("IN", 0), "wait") /\ UNCHANGED ret
       \/ /\ At("read", "wait") /\ ret # "none" /\ ret' = "none"
          /\ \/ ret = "done" /\ dev.next <= MaxIn /\ Goto("call")
             \/ stack' = <<>>
    /\ UNCHANGED <<bus, dev, drv, io, faults, harm>>

-----------------------------------------------------------------------------
\* ehci_init: the fast path when the BIOS left the controller running.  Its
\* failure is not looked at.
DbgpInit ==
    /\ \E fast, quirk, there \in BOOLEAN :
         /\ hc = [power |-> "D0", mmio |-> TRUE, bios |-> ~fast, os |-> FALSE,
                  run |-> fast, cf |-> fast]
         /\ portsc = [own |-> ~fast, conn |-> there, chg |-> there, enbl |-> FALSE]
         /\ ctrl = [ownd |-> fast, enbl |-> FALSE]
         /\ dev = [in |-> there, speed |-> "high", quirk |-> quirk, addr |-> 0, pend |-> NoAddr,
                   mode |-> FALSE, steady |-> FALSE, tog |-> 0, got |-> <<>>, next |-> 1]
         /\ stack = IF fast THEN <<[fn |-> "fast_init", at |-> "port_reset"]>>
                    ELSE <<full_init, [fn |-> "boot", at |-> "wait"]>>
    /\ drv = [addr |-> 0, fails |-> 0, wr_toggle |-> 1, status |-> TRUE]
    /\ ret = "none"
    /\ io = [out |-> 0, goal |-> 0, taken |-> <<>>]
    /\ faults = 0 /\ harm = 0

\* A panicked VMM stays so.
Panicked == stack # <<>> /\ Top.fn = "panic" /\ UNCHANGED dbgpvars

InitSteps ==
    \/ ehci_warm_up \/ ehci_acquire \/ WaitFails \/ ehci_reset \/ ehci_setup
    \/ ehci_port_leave_disabled \/ ehci_port_debounce \/ ehci_port_reset
    \/ dbgp_enable \/ ehci_controller_postinit \/ ehci_init

ConfigureSteps ==
    \/ dbgp_configure \/ dbgp_get_descriptor \/ dbgp_set_addr \/ dbgp_set_debug_mode

EmitSteps ==
    \/ EmitStart \/ EmitAfterInit \/ EmitOk \/ EmitNak \/ EmitErr
    \/ EmitFailure \/ EmitReinit

CallSteps == dbgp_write \/ dbgp_rw \/ dbgp_write_returns \/ dbgp_read

Driver == InitSteps \/ ConfigureSteps \/ EmitSteps \/ CallSteps

Vmm == VmmWrites \/ VmmReads

Environment == Unplug \/ Plug \/ GuestSleeps \/ GuestResets \/ BiosYields

DbgpNext == Driver \/ Vmm \/ Environment \/ Panicked

\* The driver runs, the BIOS answers the semaphore (ehci_acquire waits for
\* it for ever), and the user ends up plugging the debug device.
DbgpFairness ==
    /\ WF_dbgpvars(Driver) /\ WF_dbgpvars(BiosYields)
    /\ WF_dbgpvars(Plug /\ dev'.speed = "high")

DbgpSpec == DbgpInit /\ [][DbgpNext]_dbgpvars /\ DbgpFairness

-----------------------------------------------------------------------------
\* Data goes to the device where it is: whatever failed or was initialised
\* again on the way, a device that stayed on the cable since the port was
\* reset and was put in debug mode is sent every packet at the address it
\* listens to (dbgp_configure, set_addr and the retry at the old address).
AddressAgrees ==
    At("emit", "go") /\ Top.req \in {"OUT", "IN"} /\ dev.mode /\ dev.steady
        => drv.addr = dev.addr

\* What the streams may suffer.  Packets are never reordered.  Written
\* packets are lost or repeated only after a transfer failed or the device
\* was reset (wr_toggle then no longer agrees with it, __dbgp_write), at most
\* two of them each time; packets read are never lost, and repeated only so.
DamageBounded ==
    LET got == dev.got
        told == 1..io.out
    IN /\ \A i \in 1..Len(got) - 1 : got[i] <= got[i + 1]
       /\ \A i \in 1..Len(io.taken) - 1 : io.taken[i + 1] - io.taken[i] \in {0, 1}
       /\ Cardinality(told \ ToSet(got)) <= 2 * harm
       /\ Len(got) - Cardinality(ToSet(got)) <= harm
       /\ Len(io.taken) - Cardinality(ToSet(io.taken)) <= harm

\* An initialisation, nested ones included, ends when the faults do: with
\* the device configured or with the panic of dbgp_configure.
Recovers == Initialising ~> (~Initialising)

=============================================================================
