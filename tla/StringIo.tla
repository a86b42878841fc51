------------------------------- MODULE StringIo -------------------------------
(***************************************************************************)
(* The instructions of the guest that access an intercepted I/O port:      *)
(* vmx_exit_io.c decodes them, devices/io.c moves the data between memory  *)
(* or rax and the device, devices/uart.c emulates COM1.  A port is "dev"   *)
(* when it is passed on to the real device (dev_io_proxify) and "com" for  *)
(* the data register of COM1.  A page fault is injected into the guest,    *)
(* whose handler makes the page accessible and restarts the instruction.   *)
(* The bytes of memory stand for themselves: a transfer yields the         *)
(* physical bytes moved, in order.                                         *)
(***************************************************************************)
EXTENDS GuestMemory

CONSTANTS
    Tables,     \* the page tables the guest may run with
    Modes,      \* its control bits
    Insns,      \* the I/O instructions it may execute
    BuffLen,    \* DEV_UART_BUFF_LEN
    PoolSz      \* VMM_IO_POOL_SZ

NoInsn == [port |-> "none"]

\* io_insn_t, and the address and count the guest starts with.
IoInsn == [port : {"dev", "com"}, in : BOOLEAN, s : BOOLEAN, rep : BOOLEAN,
           back : BOOLEAN, sz : {1, 2, 4}, v : Nat, n : Nat]

\* The processor reports a repetition of string instructions only.
ASSUME StringAssumption ==
    /\ Tables \subseteq PageTables /\ Modes \subseteq Controls
    /\ Insns \subseteq IoInsn /\ \A io \in Insns : io.rep => io.s
    /\ BuffLen \in Nat \ {0} /\ PoolSz \in Nat

VARIABLES
    c, pt,      \* control bits and page tables of the guest
    insn,       \* the instruction being executed, NoInsn when there is none
    rcx, ptr,   \* rcx, and rsi or rdi
    uart,       \* COM1: [index, dla, thre, pending, irq]
    moved,      \* the bytes this instruction has moved to their destination
    used,       \* the bytes it has taken from the device
    inputs,     \* it has read the data register of COM1 (history)
    faults,     \* "none", "clean" or "torn": the page faults it met
    sts         \* "run", "fault" (a page fault is injected), "dead", "hang"

strvars == <<c, pt, insn, rcx, ptr, uart, moved, used, inputs, faults, sts>>

\* uart_t: the bits of its registers that the emulation looks at, the THRE
\* bit of serial_ier_reg_t, no_int_pending of serial_iir_reg_t (inverted) and
\* the DLA bit of serial_lcr_reg_t; irq stands for the interrupt injected.
SerialIer == BOOLEAN
SerialIir == BOOLEAN
SerialLcr == BOOLEAN
Uart == [index : 0..BuffLen, dla : SerialLcr, thre : SerialIer,
         pending : SerialIir, irq : BOOLEAN]

\* dev_uart_init.
dev_uart_init == [index |-> 0, dla |-> FALSE, thre |-> FALSE,
                  pending |-> FALSE, irq |-> FALSE]

StringInit ==
    /\ c \in Modes /\ pt \in Tables
    /\ insn = NoInsn /\ rcx = 0 /\ ptr = 0
    /\ uart = dev_uart_init
    /\ moved = <<>> /\ used = 0 /\ inputs = FALSE /\ faults = "none" /\ sts = "run"

-----------------------------------------------------------------------------
(***************************************************************************)
(* io.c.  A transfer works on the registers and yields a record:           *)
(* [rc, rcx, ptr, bytes, miss].                                            *)
(***************************************************************************)

\* __vmx_io_init: io->cnt.
IoCount(io) == IF io.s /\ io.rep THEN rcx ELSE 1

\* Mutant: the address of a restarted instruction is not moved on.
AdvanceStays(io, acc, miss, cx, p) ==
    [rc |-> acc.rc, bytes |-> acc.bytes, miss |-> miss - Len(acc.bytes),
     ptr |-> p, rcx |-> IF io.rep /\ acc.rc = "DONE" THEN 0 ELSE 1]

\* The registers after an access to memory, complete or not.
Advance(io, acc, miss, cx, p) ==
    LET done == Len(acc.bytes) IN
    [rc |-> acc.rc, bytes |-> acc.bytes, miss |-> miss - done,
     ptr |-> p + done,
     rcx |-> IF io.rep THEN (miss - done) \div io.sz ELSE cx]

\* __io_insn_string_in/out with their _fwd and _bwd forms: only the forward
\* direction exists, the linear address is the one the exit reported (lin).
StringMove(io, lin, miss, avail, cx, p) ==
    IF io.back
    THEN [rc |-> "FAIL", rcx |-> cx, ptr |-> p, bytes |-> <<>>, miss |-> miss]
    ELSE Advance(io, vm_access_sz(pt, c, io.in, lin, Min({miss, avail})), miss, cx, p)

\* __io_insn_string.
__io_insn_string(io, lin, avail, cx, p) ==
    StringMove(io, lin, IF io.rep THEN io.sz * cx ELSE io.sz, avail, cx, p)

\* __io_insn_simple: between rax and the device.
__io_insn_simple(io, avail, cx, p) ==
    LET ok == ~io.rep /\ io.sz <= avail IN
    [rc |-> IF ok THEN "DONE" ELSE "FAIL", rcx |-> cx, ptr |-> p, miss |-> 0,
     bytes |-> IF ok THEN [i \in 1..io.sz |-> -i] ELSE <<>>]

\* dev_io_insn.
dev_io_insn(io, lin, avail, cx, p) ==
    IF io.s THEN __io_insn_string(io, lin, avail, cx, p)
    ELSE __io_insn_simple(io, avail, cx, p)

\* __io_string_native and __io_simple_native.
dev_io_native(io) ==
    IF io.s THEN ~io.back ELSE ~io.rep

\* The pool of dev_io_proxify_filter holds the whole transfer or it fails.
PoolHolds(io) == io.sz * IoCount(io) <= PoolSz

\* A transfer that fails before anything is moved.
Refused == [rc |-> "FAIL", rcx |-> rcx, ptr |-> ptr, bytes |-> <<>>, miss |-> 0]

\* __dev_io_proxy_filter_in: the device is read first, whatever memory says.
DeviceRead(io) ==
    IF io.port = "dev" /\ io.in /\ PoolHolds(io) /\ dev_io_native(io)
    THEN io.sz * IoCount(io) ELSE 0

__dev_io_proxy_filter_in(io) ==
    IF ~dev_io_native(io) THEN Refused
    ELSE dev_io_insn(io, ptr, io.sz * IoCount(io), rcx, ptr)

\* __dev_io_proxy_filter_out: the device is written once all bytes are here.
__dev_io_proxy_filter_out(io) ==
    LET r == dev_io_insn(io, ptr, io.sz * IoCount(io), rcx, ptr)
        sent == r.rc = "DONE" /\ dev_io_native(io)
    IN  [r EXCEPT !.bytes = IF sent THEN @ ELSE <<>>]

\* dev_io_proxify_filter.
dev_io_proxify_filter(io) ==
    IF ~PoolHolds(io) THEN Refused
    ELSE IF io.in THEN __dev_io_proxy_filter_in(io)
    ELSE __dev_io_proxy_filter_out(io)

-----------------------------------------------------------------------------
(***************************************************************************)
(* uart.c                                                                  *)
(***************************************************************************)

\* Mutant: the buffer is flushed one byte too late.
FlushLate(io, i) == IF i > BuffLen /\ ~io.in THEN 0 ELSE Min({i, BuffLen})

\* The end of a turn of __dev_uart_xfr: a full buffer is flushed on output.
FlushFull(io, i) == IF i >= BuffLen /\ ~io.in THEN 0 ELSE Min({i, BuffLen})

\* One turn of the loop, after the piece r of the transfer.
UartTurn(io, b, r) ==
    IF r.rc # "DONE" THEN [b EXCEPT !.rc = r.rc, !.rcx = r.rcx, !.ptr = r.ptr]
    ELSE [rc |-> IF r.miss = 0 THEN "DONE" ELSE "GO", rcx |-> r.rcx, ptr |-> r.ptr,
          bytes |-> b.bytes \o r.bytes, idx |-> FlushFull(io, b.idx + Len(r.bytes))]

\* __dev_uart_xfr: pieces that fit into the buffer until nothing is missing;
\* every piece starts again at the address of the exit.  An input string on a
\* full buffer moves nothing and the loop does not end.
__dev_uart_xfr(io) ==
    LET turns == BuffLen + io.sz * IoCount(io) + 2
        go[k \in 0..turns] ==
          IF k = 0 THEN [rc |-> "GO", rcx |-> rcx, ptr |-> ptr, bytes |-> <<>>,
                         idx |-> uart.index]
          ELSE LET b == go[k - 1] IN
               IF b.rc # "GO" THEN b
               ELSE UartTurn(io, b, dev_io_insn(io, ptr, BuffLen - b.idx, b.rcx, b.ptr))
    IN  [go[turns] EXCEPT !.rc = IF @ = "GO" THEN "HANG" ELSE @]

\* __dev_uart_ier: enabling the interrupt while the transmitter is empty
\* raises it at once, if the guest can take it.
__dev_uart_ier(on, safe) ==
    uart' = [uart EXCEPT !.thre = on, !.pending = @ \/ (on /\ safe),
                         !.irq = @ \/ (on /\ safe)]

\* __dev_uart_iir: reading acknowledges.
__dev_uart_iir == uart' = [uart EXCEPT !.pending = FALSE]

\* __dev_uart_lcr: the divisor latch bit redirects the first two ports;
\* __dev_uart_dla, _fcr, _mcr, _msr, _lsr and _scr keep one byte nobody reads.
__dev_uart_lcr(dla) == uart' = [uart EXCEPT !.dla = dla]

\* dev_uart: registers other than the data register.  The interrupt is taken
\* by the guest at the entry that follows.
UartRegister ==
    /\ sts = "run" /\ insn = NoInsn
    /\ \/ ~uart.dla /\ \E on, safe \in BOOLEAN : __dev_uart_ier(on, safe)
       \/ __dev_uart_iir
       \/ \E dla \in BOOLEAN : __dev_uart_lcr(dla)
       \/ uart.irq /\ uart' = [uart EXCEPT !.irq = FALSE]
    /\ UNCHANGED <<c, pt, insn, rcx, ptr, moved, used, inputs, faults, sts>>

-----------------------------------------------------------------------------
\* The guest comes to an I/O instruction.
Issue ==
    /\ sts = "run" /\ insn = NoInsn
    /\ \E io \in Insns :
        /\ io.port = "com" => ~uart.dla
        /\ insn' = io /\ rcx' = io.n /\ ptr' = io.v
    /\ moved' = <<>> /\ used' = 0 /\ faults' = "none"
    /\ UNCHANGED <<c, pt, uart, inputs, sts>>

\* The transfer of one exit: dev_access without the devices of Devices.
Transfer(io) ==
    IF io.port = "com" THEN __dev_uart_xfr(io) ELSE dev_io_proxify_filter(io)

\* vmx_vmexit_resolve_io: dev_access and, when it is done, the next
\* instruction.
vmx_vmexit_resolve_io ==
    /\ sts = "run" /\ insn # NoInsn
    /\ \E r \in {Transfer(insn)} :
        LET partial == r.ptr # ptr \/ DeviceRead(insn) # 0
        IN /\ rcx' = r.rcx /\ ptr' = r.ptr
           /\ moved' = moved \o r.bytes
           /\ used' = used + DeviceRead(insn)
           /\ inputs' = (inputs \/ (insn.port = "com" /\ insn.in))
           /\ uart' = IF insn.port = "com" THEN [uart EXCEPT !.index = r.idx] ELSE uart
           /\ sts' = CASE r.rc = "DONE" -> "done" [] r.rc = "FAULT" -> "fault"
                       [] r.rc = "HANG" -> "hang" [] OTHER -> "dead"
           /\ faults' = IF r.rc # "FAULT" THEN faults
                        ELSE IF partial \/ faults = "torn" THEN "torn" ELSE "clean"
    /\ UNCHANGED <<c, pt, insn>>

\* The guest goes on behind the instruction.
Retire ==
    /\ sts = "done"
    /\ insn' = NoInsn /\ sts' = "run" /\ rcx' = 0 /\ ptr' = 0
    /\ moved' = <<>> /\ used' = 0 /\ faults' = "none"
    /\ UNCHANGED <<c, pt, uart, inputs>>

\* The page fault handler of the guest makes everything accessible and the
\* instruction is restarted.
PageIn ==
    /\ sts = "fault"
    /\ pt' = [f \in Frames |-> [i \in 0..1 |->
                [pt[f][i] EXCEPT !.p = TRUE, !.w = TRUE, !.u = TRUE]]]
    /\ sts' = "run"
    /\ UNCHANGED <<c, insn, rcx, ptr, uart, moved, used, inputs, faults>>

StringNext == Issue \/ vmx_vmexit_resolve_io \/ Retire \/ PageIn \/ UartRegister

-----------------------------------------------------------------------------
StringTypeOK ==
    /\ insn = NoInsn \/ insn \in IoInsn
    /\ rcx \in Nat /\ ptr \in Nat /\ used \in Nat
    /\ uart \in Uart
    /\ faults \in {"none", "clean", "torn"}
    /\ sts \in {"run", "done", "fault", "dead", "hang"}

\* The whole of the memory an instruction names, in bytes.
Wanted(io) ==
    LET len == IF io.rep THEN io.sz * io.n ELSE io.sz IN
    [i \in 1..len |-> IF c.pg THEN Translate(pt, c, 0, io.v + i - 1) ELSE io.v + i - 1]

\* A guest with PAE but without cr4.pse is left out of what follows:
\* __pg_walk_pmode_pae wants cr4.pse for a large page, the processor does not.
LargeAgree(m) == (m.pae /\ ~m.lma) => m.pse

\* The walk and the access of the VMM agree with the memory management unit:
\* what an access touched is what the guest would have touched, up to the
\* first byte it could not have touched itself, and an access is refused for
\* no other reason than a byte or a table inside the area of the VMM.  No
\* table of the VMM is read on the way, and none of its bytes is touched but
\* by an access that in the same page also names a byte outside the area:
\* vmm_area_range looks at the two ends of a piece and refuses it when both are
\* inside.
WalkExact ==
    (insn # NoInsn /\ insn.s /\ LargeAgree(c)) =>
      LET len == IF insn.rep THEN insn.sz * insn.n ELSE insn.sz
          may(i) == c.pg => /\ Mapped(pt, c, 0, insn.v + i - 1)
                            /\ Allowed(pt, c, insn.in, 0, insn.v + i - 1)
      IN  \A acc \in {vm_access_sz(pt, c, insn.in, insn.v, len)} :
            /\ IsPrefix(acc.bytes, Wanted(insn))
            /\ \A i \in 1..Len(acc.bytes) :
                 /\ may(i)
                 /\ c.pg => ~ThroughVmm(pt, c, 0, insn.v + i - 1)
                 /\ vmm_area(acc.bytes[i]) =>
                      \E j \in 1..len : /\ OnePage(pt, c, 0, insn.v + i - 1, insn.v + j - 1)
                                        /\ ~vmm_area(Wanted(insn)[j])
            /\ acc.rc = "DONE" => Len(acc.bytes) = len
            /\ acc.rc = "FAULT" => ~may(Len(acc.bytes) + 1)
            /\ acc.rc = "FAIL" => \E i \in 1..len : OfVmm(pt, c, 0, insn.v + i - 1)

\* len bytes written to COM1 fitted into the buffer: they are all there
\* still, or filled it and it has just been flushed.
Fits(len) == len <= uart.index \/ (uart.index = 0 /\ len <= BuffLen)

\* A string instruction that has finished moved every byte once and in
\* order, and took from the device exactly what it moved.  It also holds when
\* a page fault came before the first byte, and not when a fault came in the
\* middle: io.c advances the registers past bytes that never reached the
\* device, and reads the device again on restart.  On COM1 it also needs a
\* string of bytes that fits into what the buffer had left.
StringOnce ==
    (sts = "done" /\ insn.s /\ faults # "torn" /\ LargeAgree(c)
        /\ (insn.port = "com" => ~insn.in /\ insn.sz = 1 /\ Fits(Len(Wanted(insn))))) =>
      /\ moved = Wanted(insn)
      /\ insn.rep => rcx = 0
      /\ insn.port = "dev" /\ insn.in => used = Len(moved)

\* Bytes written to COM1 never end the VMM: a guest that only writes single
\* bytes always finds room.  (Reading the data register moves the same index
\* and flushes nothing, so a guest that reads fills the buffer and its next
\* access, even an output, fails or never ends.)
UartLives ==
    (sts \in {"dead", "hang"} /\ insn.port = "com" /\ ~inputs /\ ~insn.back
        /\ LargeAgree(c)) =>
        insn.sz > 1 \/ \E i \in 1..Len(Wanted(insn)) : OfVmm(pt, c, 0, insn.v + i - 1)
=============================================================================
