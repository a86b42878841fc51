------------------------------- MODULE GdbLink ------------------------------
(***************************************************************************)
(* The remote link between the gdb stub (gdbstub.c, gdbstub_pkt.c,         *)
(* gdbstub_cmd.c, gdbstub_vmm.c) and the python client (gdb.py, vm.py):    *)
(* framing, acknowledgements, re-sending, raw transfers, interruption, the *)
(* stub's lock on the VM, and clients that vanish.                         *)
(*                                                                         *)
(* The two directions are FIFO channels of tokens: a packet to the stub is *)
(* three tokens ("$", the command, "#" with its checksum), so that a read  *)
(* may cut it anywhere; a packet to the client is one token, as the client *)
(* always reads up to the checksum.  What a command does to the guest is   *)
(* the subject of other modules; here a command is its handler's way of    *)
(* answering.                                                              *)
(***************************************************************************)
EXTENDS Integers, Sequences, FiniteSets

CONSTANTS Cmds,     \* the commands the client sends
          InputSz,  \* GDB_INPUT_SZ, in tokens
          Rate,     \* info->vmm.gstub.rate
          MaxBad,   \* bound: packets damaged on the line
          MaxLink   \* bound: tokens under way in a direction

ASSUME LinkAssumption == InputSz \in Nat /\ InputSz >= 3 /\ Rate \in Nat \ {0}

VARIABLES on, lock, ack,  \* gdbstub_sts_t
          pc,             \* "guest", "poll", "recv", "ack_rd", "ack_wr",
                          \*   "rd" or "wr"
          input,          \* gdb_input
          tick,           \* vmexit_cnt modulo Rate
          toStub, toClient,
          cst,            \* the client: "off", "attached", "stopped", "ack",
                          \*   "answer", "raw" or "wait"
          cmd, id,        \* its last command, numbered modulo 2
          want,           \* the stop vm.answer() waits for
          stops,          \* stop replies in the client's pool
          intr,           \* it sent an interrupt whose reply it has not seen
          odd,            \* it met something else where an ack belongs
          upset,          \* what disturbed this session
          bad             \* packets damaged so far

stub == <<on, lock, ack, pc, input, tick>>
client == <<cst, cmd, id, want, stops, intr, odd>>
linkvars == <<stub, client, toStub, toClient, upset, bad>>

----------------------------------------------------------------------------
(* The handlers, by the way they answer.                                   *)
ThreadCmds == {"q", "H"}
GprCmds == {"g", "p", "P", "G"}
MemCmds == {"m", "M"}
BrkCmds == {"Z", "z"}
SysregCmds == {"rd_all_sysregs", "rd_sysreg", "wr_sysreg"}
LbrCmds == {"set_lbr", "del_lbr", "get_lbr"}
ExcpMaskCmds == {"rd_excp_mask", "wr_excp_mask"}
CrMaskCmds == {"rd_cr_rd_mask", "wr_cr_rd_mask", "rd_cr_wr_mask", "wr_cr_wr_mask"}
Cr3Cmds == {"set_active_cr3", "del_active_cr3", "keep_active_cr3", "set_affinity"}
EventCmds == {"clear_idt_event", "get_idt_event", "rdtsc", "can_cli"}
WalkCmds == {"translate", "npg_translate"}
NptCmds == {"npg_get_pte", "npg_set_pte", "npg_map", "npg_unmap"}
InfoCmds == {"get_fault", "cpu_mode", "rd_filter_mask", "wr_filter_mask"}
MsrCmds == {"rd_msr", "filter_cpuid"}
RawRead == {"rd_pmem", "rd_vmem"}
RawWrite == {"wr_pmem", "wr_vmem"}
Resume == {"c", "s"}

OneAnswer == ThreadCmds \cup GprCmds \cup MemCmds \cup BrkCmds \cup SysregCmds \cup LbrCmds \cup ExcpMaskCmds
             \cup CrMaskCmds \cup Cr3Cmds \cup EventCmds \cup WalkCmds \cup NptCmds \cup InfoCmds
             \cup MsrCmds

(* Those that answer with gdb_send_packet, which leaves out the leading    *)
(* "+" when one was already sent; the others write "+$OK" or "+$Exx".      *)
SendsPacket == {"q", "g", "p", "m", "rd_all_sysregs", "rd_sysreg", "get_lbr", "rd_excp_mask",
                "rd_cr_rd_mask", "rd_cr_wr_mask", "get_idt_event", "rdtsc", "can_cli",
                "npg_get_pte", "get_fault", "cpu_mode", "rd_filter_mask", "rd_msr"} \cup WalkCmds

ASSUME CmdsAssumption == Cmds \subseteq OneAnswer \cup RawRead \cup RawWrite \cup Resume

----------------------------------------------------------------------------
Tok(t, k, n) == [t |-> t, k |-> k, n |-> n]
Plus == Tok("+", "", 0)
Minus == Tok("-", "", 0)
CtrlC == Tok("^C", "", 0)
RawData == Tok("raw", "", 0)
Packet(k, n) == <<Tok("$", "", 0), Tok("cmd", k, n), Tok("#", "", 0)>>
Damaged(k, n) == <<Tok("$", "", 0), Tok("cmd", k, n), Tok("?", "", 0)>>
Answer(n) == Tok("answer", "", n)
StopReply(r) == Tok("stop", r, 0)

LinkInit ==
  /\ on = FALSE /\ lock = FALSE /\ ack = FALSE /\ pc = "guest" /\ input = <<>> /\ tick = 0
  /\ toStub = <<>> /\ toClient = <<>>
  /\ cst = "off" /\ cmd = "k" /\ id = 0 /\ want = "int" /\ stops = <<>> /\ intr = FALSE
  /\ odd = FALSE /\ upset = {} /\ bad = 0

Room == Len(toClient) + 3 <= MaxLink
Says(s) == toClient' = toClient \o s

----------------------------------------------------------------------------
(* The stub *)

(* gdb_send_packet: with the "+" unless one was sent ahead, which it uses  *)
(* up.                                                                     *)
SendPacket(p, acked) ==
  /\ Says(IF acked THEN <<p>> ELSE <<Plus, p>>)
  /\ ack' = FALSE

(* __gdb_preempt *)
PreemptRunning(r, acked) == SendPacket(StopReply(r), acked) /\ UNCHANGED lock
Preempt(r, acked) == SendPacket(StopReply(r), acked) /\ lock' = TRUE

(* A vm-exit without an event: gdbstub() serves an attached client on      *)
(* every exit and looks for a new one on every Rate-th.                    *)
Exit ==
  /\ pc = "guest"
  /\ tick' = (tick + 1) % Rate
  /\ pc' = IF on \/ tick = 0 THEN "poll" ELSE "guest"
  /\ UNCHANGED <<on, lock, ack, input, client, toStub, toClient, upset, bad>>

(* A vm-exit that raises an event of the client's: the controller preempts *)
(* the VM before it calls gdbstub().                                       *)
GuestEvent ==
  /\ pc = "guest" /\ on /\ Room
  /\ Preempt("trap", ack)
  /\ pc' = "recv"
  /\ UNCHANGED <<on, input, tick, client, toStub, upset, bad>>

(* gdb_recv_packet: a first gdb_io_read, and more while something remains  *)
(* or the VM is locked, each appending what has arrived as far as there is *)
(* room.                                                                   *)
Ends == {j \in 1..Len(input) : input[j].t \in {"#", "?"}}
End == CHOOSE j \in Ends : \A i \in Ends : j <= i
Complete == input # <<>> /\ (input[1].t = "$" => Ends # {})
Sound == End = 3 /\ input[3].t = "#"  \* the checksum agrees
Recv(n) ==
  /\ pc = "poll" \/ (pc = "recv" /\ ~Complete /\ (lock \/ input # <<>>))
  /\ n <= Len(toStub) /\ Len(input) + n <= InputSz
  /\ input' = input \o SubSeq(toStub, 1, n)
  /\ toStub' = SubSeq(toStub, n + 1, Len(toStub))
  /\ pc' = "recv"
  /\ UNCHANGED <<on, lock, ack, tick, client, toClient, upset, bad>>

(* The loop ends when nothing remains and the VM is not locked.            *)
Leave ==
  /\ pc = "recv" \/ (pc = "poll" /\ toStub = <<>>)
  /\ input = <<>> /\ ~lock
  /\ pc' = "guest"
  /\ UNCHANGED <<on, lock, ack, input, tick, client, toStub, toClient, upset, bad>>

(* gdb_consume_packet on a byte that is no packet *)
ConsumeByte ==
  /\ pc = "recv" /\ input # <<>> /\ input[1].t # "$" /\ Room
  /\ input' = Tail(input)
  /\ CASE input[1].t = "+" ->  \* gdb_enable
            /\ on' = TRUE /\ lock' = (IF on THEN lock ELSE TRUE)
            /\ UNCHANGED <<ack, toClient>>
       [] input[1].t = "^C" -> \* gdb_interrupt_sequence
            Preempt("int", TRUE) /\ UNCHANGED on
       [] input[1].t = "-" ->  \* gdb_ack, and nothing is sent again
            Says(<<Plus>>) /\ ack' = TRUE /\ UNCHANGED <<on, lock>>
       [] OTHER ->             \* gdb_unsupported
            Says(<<Plus, Answer(2)>>) /\ UNCHANGED <<on, lock, ack>>
  /\ UNCHANGED <<pc, tick, client, toStub, upset, bad>>

(* gdb_parse_packet with a bad checksum.  The nak finds nobody when the    *)
(* client took a packet that crossed its command for the ack.              *)
NaksAndAnswers ==
  /\ pc = "recv" /\ Complete /\ input[1].t = "$" /\ ~Sound /\ Room
  /\ input' = SubSeq(input, End + 1, Len(input))
  /\ Says(<<Minus, Answer(input[2].n)>>)
  /\ UNCHANGED <<on, lock, ack, pc, tick, client, toStub, upset, bad>>
ConsumeDamaged ==
  /\ pc = "recv" /\ Complete /\ input[1].t = "$" /\ ~Sound /\ Room
  /\ input' = SubSeq(input, End + 1, Len(input))
  /\ Says(<<Minus>>)
  /\ upset' = IF cst = "ack" /\ toClient = <<>> THEN upset ELSE upset \cup {"lost"}
  /\ UNCHANGED <<on, lock, ack, pc, tick, client, toStub, bad>>

(* gdb_process_packet *)
CmdResume(k, n) ==
  /\ k \in Resume
  /\ \/ Says(<<Plus>>) /\ ack' = TRUE /\ lock' = FALSE        \* dbg_resume worked
     \/ Says(<<Plus, Answer(n)>>) /\ UNCHANGED <<ack, lock>>  \* gdb_err
  /\ UNCHANGED <<on, pc>>

CmdKill(k, n) ==
  /\ k = "k" /\ Says(<<Plus, Answer(n)>>)
  /\ on' = FALSE /\ lock' = FALSE /\ UNCHANGED <<ack, pc>>

CmdOther(k, n) ==
  /\ k \in OneAnswer
  /\ IF k \in SendsPacket THEN SendPacket(Answer(n), ack)
     ELSE Says(<<Plus, Answer(n)>>) /\ UNCHANGED ack
  /\ UNCHANGED <<on, lock, pc>>

(* gdb_vmm_rd_msr on a register the VMM cannot read: a bare nak.           *)
CmdRefused(k, n) ==
  /\ k = "rd_msr" /\ Says(<<Minus>>)
  /\ UNCHANGED <<on, lock, ack, pc>>

(* __gdb_vmm_mem_rw_parse: "OK", then the raw transfer once it was acked.  *)
CmdRaw(k, n) ==
  /\ k \in RawRead \cup RawWrite
  /\ Says(<<Plus, Answer(n)>>)
  /\ pc' = IF k \in RawRead THEN "ack_rd" ELSE "ack_wr"
  /\ UNCHANGED <<on, lock, ack>>

Process ==
  /\ pc = "recv" /\ Complete /\ input[1].t = "$" /\ Sound /\ Room
  /\ LET k == input[2].k
         n == input[2].n
     IN CmdResume(k, n) \/ CmdKill(k, n) \/ CmdOther(k, n) \/ CmdRefused(k, n) \/ CmdRaw(k, n)
  /\ input' = SubSeq(input, 4, Len(input))
  /\ UNCHANGED <<tick, client, toStub, upset, bad>>

(* gdb_wait_ack ends on the first byte whatever it is, and reads the line, *)
(* not gdb_input.                                                          *)
WaitAck ==
  /\ pc \in {"ack_rd", "ack_wr"} /\ toStub # <<>>
  /\ toStub' = Tail(toStub)
  /\ pc' = IF pc = "ack_rd" THEN "rd" ELSE "wr"
  /\ UNCHANGED <<on, lock, ack, input, tick, client, toClient, upset, bad>>

(* __vm_access_remote_operator sends guest memory as it is, or takes bytes *)
(* off the line until it has them all; a fault in the middle is answered   *)
(* by an error packet, and what the client still sends is then a command.  *)
RawSend ==
  /\ pc = "rd" /\ Room /\ pc' = "recv" /\ Says(<<RawData>>)
  /\ UNCHANGED <<on, lock, ack, input, tick, client, toStub, upset, bad>>
RawRecv ==
  /\ pc = "wr" /\ toStub # <<>> /\ pc' = "recv"
  /\ toStub' = Tail(toStub)
  /\ UNCHANGED <<on, lock, ack, input, tick, client, toClient, upset, bad>>
RawFault ==
  /\ pc \in {"rd", "wr"} /\ Room /\ pc' = "recv"
  /\ Says(<<Plus, Answer(2)>>)
  /\ upset' = upset \cup {"rawfault"}
  /\ UNCHANGED <<on, lock, ack, input, tick, client, toStub, bad>>

----------------------------------------------------------------------------
(* The client *)

CanSend == Len(toStub) + 3 <= MaxLink

(* GDB.connect, maybe before the stub has read the last command of the     *)
(* client before, whose answer this one would then get.                    *)
Unread == {i \in 1..Len(input \o toStub) : (input \o toStub)[i].t = "cmd"}
Connect ==
  /\ cst = "off" /\ CanSend
  /\ upset' = IF Unread = {} THEN upset ELSE upset \cup {"overlap"}
  /\ cst' = "attached" /\ toStub' = Append(toStub, Plus)
  /\ toClient' = <<>> /\ stops' = <<>> /\ intr' = FALSE /\ odd' = FALSE /\ cmd' = "none"
  /\ UNCHANGED <<stub, id, want, bad>>

(* VM.stop: the interrupt, then vm.answer() waits for its own reply.       *)
Stop ==
  /\ cst = "attached" /\ CanSend
  /\ toStub' = Append(toStub, CtrlC) /\ intr' = TRUE
  /\ cst' = "wait" /\ want' = "int"
  /\ UNCHANGED <<stub, toClient, cmd, id, stops, odd, upset, bad>>

(* VM.int_event while it waits for a stop: ^C *)
Interrupt ==
  /\ cst = "wait" /\ ~intr /\ CanSend
  /\ toStub' = Append(toStub, CtrlC) /\ intr' = TRUE
  /\ UNCHANGED <<stub, toClient, cst, cmd, id, want, stops, odd, upset, bad>>

(* GDB.send_raw of a new command, whole or damaged on the line.            *)
Transmit(k, n) ==
  \/ toStub' = toStub \o Packet(k, n) /\ UNCHANGED bad
  \/ bad < MaxBad /\ toStub' = toStub \o Damaged(k, n) /\ bad' = bad + 1

Send(k) ==
  /\ cst = "stopped" /\ CanSend
  /\ cmd' = k /\ id' = 1 - id /\ cst' = "ack"
  /\ Transmit(k, 1 - id)
  /\ UNCHANGED <<stub, toClient, want, stops, intr, odd, upset>>

(* VM.detach by a handler or by ^C while the VM may be running: "k".       *)
Quit ==
  /\ cst \in {"stopped", "wait"} /\ ~intr /\ CanSend
  /\ cmd' = "k" /\ id' = 1 - id /\ cst' = "ack"
  /\ Transmit("k", 1 - id)
  /\ UNCHANGED <<stub, toClient, want, stops, intr, odd, upset>>

(* GDB.wait_ack: anything else than an ack is put back and taken for one.  *)
(* A quick quit leaves without the answer to its "k".                      *)
AfterAck == CASE cmd \in Resume -> {"wait"} [] cmd = "k" -> {"answer", "off"} [] OTHER -> {"answer"}
TakesNakForAck ==
  /\ cst = "ack" /\ toClient # <<>>
  /\ cst' \in AfterAck /\ want' = "any"
  /\ toClient' = Tail(toClient)
  /\ UNCHANGED <<stub, cmd, id, stops, intr, odd, toStub, upset, bad>>
GetAck ==
  /\ cst = "ack" /\ toClient # <<>>
  /\ \/ /\ Head(toClient).t = "-" /\ CanSend
        /\ Transmit(cmd, id)
        /\ toClient' = Tail(toClient)
        /\ UNCHANGED <<cst, want, odd>>
     \/ /\ Head(toClient).t # "-"
        /\ cst' \in AfterAck /\ want' = "any"
        /\ IF Head(toClient).t = "+" THEN toClient' = Tail(toClient) /\ UNCHANGED odd
           ELSE odd' = TRUE /\ UNCHANGED toClient
        /\ UNCHANGED <<toStub, bad>>
  /\ UNCHANGED <<stub, cmd, id, stops, intr, upset>>

(* __recv_pkt: stray acks are dropped and stop replies pooled until the    *)
(* answer comes, which is acked except for "k".  read_vmem then reads raw  *)
(* bytes and write_vmem sends them.                                        *)
PoolOther ==
  /\ cst = "answer" /\ toClient # <<>> /\ Head(toClient).t \in {"+", "-", "stop"}
  /\ stops' = IF Head(toClient).t = "stop" THEN Append(stops, Head(toClient).k) ELSE stops
  /\ toClient' = Tail(toClient)
  /\ toStub' = IF Head(toClient).t = "stop" /\ cmd # "k" THEN Append(toStub, Plus) ELSE toStub
  /\ UNCHANGED <<stub, cst, cmd, id, want, intr, odd, upset, bad>>

GetAnswer ==
  /\ cst = "answer" /\ toClient # <<>> /\ Head(toClient).t = "answer" /\ CanSend
  /\ toClient' = Tail(toClient)
  /\ cst' = CASE cmd = "k" -> "off" [] cmd \in RawRead -> "raw" [] OTHER -> "stopped"
  /\ toStub' = toStub \o (CASE cmd = "k" -> <<>>
                            [] cmd \in RawWrite -> <<Plus, RawData>>
                            [] OTHER -> <<Plus>>)
  /\ UNCHANGED <<stub, cmd, id, want, stops, intr, odd, upset, bad>>

(* recv_raw takes what comes as memory.                                    *)
GetRaw ==
  /\ cst = "raw" /\ toClient # <<>>
  /\ cst' = "stopped" /\ toClient' = Tail(toClient)
  /\ UNCHANGED <<stub, cmd, id, want, stops, intr, odd, toStub, upset, bad>>

(* An answer damaged on the line: the client sends "-" and waits on.       *)
GetDamaged ==
  /\ cst = "answer" /\ toClient # <<>> /\ Head(toClient).t = "answer" /\ bad < MaxBad /\ CanSend
  /\ toClient' = Tail(toClient) /\ toStub' = Append(toStub, Minus)
  /\ bad' = bad + 1 /\ upset' = upset \cup {"damaged"}
  /\ UNCHANGED <<stub, client>>

(* vm.answer: takes stops until it has the one it wants; with "any" until  *)
(* the pool is empty.                                                      *)
Taken(r, rest) ==
  LET done == IF want = "int" THEN r = "int" ELSE rest = <<>>
      left == intr /\ r # "int"
  IN /\ cst' = IF done THEN "stopped" ELSE "wait"
     /\ intr' = left
     /\ upset' = IF done /\ left THEN upset \cup {"race"} ELSE upset
GetStop ==
  /\ cst = "wait"
  /\ \/ /\ stops # <<>>
        /\ Taken(Head(stops), Tail(stops)) /\ stops' = Tail(stops)
        /\ UNCHANGED toClient
     \/ /\ stops = <<>> /\ toClient # <<>> /\ Head(toClient).t = "stop"
        /\ Taken(Head(toClient).k, <<>>) /\ toClient' = Tail(toClient)
        /\ UNCHANGED stops
     \/ /\ stops = <<>> /\ toClient # <<>> /\ Head(toClient).t # "stop"
        /\ toClient' = Tail(toClient)
        \* a refused resume is a GDBError: the script keeps control
        /\ cst' = IF Head(toClient).t = "answer" THEN "stopped" ELSE "wait"
        /\ upset' = IF Head(toClient).t = "answer" /\ intr THEN upset \cup {"race"} ELSE upset
        /\ UNCHANGED <<stops, intr>>
  /\ UNCHANGED <<stub, cmd, id, want, odd, toStub, bad>>

(* The client dies: between commands, or with one under way, maybe in the  *)
(* middle of its packet.  What it sent still arrives.                      *)
Crash ==
  /\ cst # "off"
  /\ cst' = "off" /\ toClient' = <<>> /\ cmd' = ""
  /\ \/ /\ toStub' = toStub
        /\ upset' = IF cst \in {"ack", "answer", "raw"} \/ intr THEN upset \cup {"cut"} ELSE upset
     \/ /\ cst = "stopped" /\ CanSend
        /\ toStub' = Append(toStub, Tok("$", "", 0))
        /\ upset' = upset \cup {"cut"}
  /\ UNCHANGED <<stub, id, want, stops, intr, odd, bad>>

----------------------------------------------------------------------------
StubStep == \/ Exit \/ \E n \in 1..InputSz : Recv(n)
            \/ Leave \/ ConsumeByte \/ ConsumeDamaged \/ Process
            \/ WaitAck \/ RawSend \/ RawRecv
ClientStep == Stop \/ GetAck \/ PoolOther \/ GetAnswer \/ GetRaw \/ GetStop

LinkNext ==
  \/ StubStep \/ GuestEvent \/ RawFault
  \/ ClientStep \/ Connect \/ Interrupt \/ Quit \/ GetDamaged \/ Crash
  \/ \E k \in Cmds : Send(k)

LinkSpec == LinkInit /\ [][LinkNext]_linkvars /\ WF_linkvars(StubStep) /\ WF_linkvars(ClientStep)

(* Bound: a disturbed session is followed as long as its client waits for  *)
(* the rest of the command.                                                *)
OneUpset == upset # {} => Cardinality(upset) = 1 /\ cst \in {"answer", "raw", "stopped"}

----------------------------------------------------------------------------
Tokens == {"+", "-", "^C", "raw", "$", "cmd", "#", "?", "answer", "stop"}

(* The kinds of values *)
LinkTypeOK ==
  /\ on \in BOOLEAN /\ lock \in BOOLEAN /\ ack \in BOOLEAN /\ tick \in 0..(Rate - 1)
  /\ pc \in {"guest", "poll", "recv", "ack_rd", "ack_wr", "rd", "wr"}
  /\ cst \in {"off", "attached", "stopped", "ack", "answer", "raw", "wait"}
  /\ \A i \in 1..Len(toStub) : toStub[i].t \in Tokens
  /\ Len(input) <= InputSz

(* While nothing disturbed the link every answer under way is to the       *)
(* command the client waits for, and an ack is where one belongs, except   *)
(* for the "k" that crosses a stop: through re-sent packets, interrupts,   *)
(* events, and clients that left or died between commands.                 *)
AnswersMatch ==
  upset = {} =>
    /\ cst \in {"ack", "answer"} /\ cmd # "k" =>
         \A i \in 1..Len(toClient) : toClient[i].t = "answer" => toClient[i].n = id
    /\ odd => cmd = "k"

(* A client that has control holds the VM: the stub is locked, the guest   *)
(* does not run, and no stop reply is left to be taken for a later one.    *)
(* One that left with "k" leaves the VM free: no ack of an earlier answer  *)
(* arrives after it and attaches the stub again.                           *)
KillUnderWay == \E i \in Unread : (input \o toStub)[i].k = "k"
InStep ==
  upset = {} =>
    /\ cst \in {"stopped", "answer", "raw"} /\ cmd # "k" =>
         /\ on /\ lock /\ pc # "guest"
         /\ stops = <<>> /\ \A i \in 1..Len(toClient) : toClient[i].t # "stop"
    /\ cst = "off" /\ cmd = "k" => (~on /\ ~lock) \/ KillUnderWay

(* Every command is answered and every interrupt gives control back, also  *)
(* when packets are damaged and sent again; and a VM that was resumed or   *)
(* left runs.  Unless an MSR is refused for ever: send_raw sends a command *)
(* again as long as it gets a nak, and the refusal of rd_msr is one.       *)
Refuses == Process /\ toClient'[Len(toClient')] = Minus
Served ==
  [](upset = {}) /\ <>[][~Refuses]_linkvars =>
    /\ (cst \in {"ack", "answer", "raw"}) ~> (cst \in {"stopped", "wait", "off"})
    /\ intr ~> (cst \in {"stopped", "off"})
    /\ (cst \in {"wait", "off"} /\ cmd # "") ~> (pc = "guest" \/ cst \notin {"wait", "off"} \/ cmd = "")
=============================================================================
