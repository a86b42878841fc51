------------------------------ MODULE MCDevices ------------------------------
(* The string instructions and the port devices of one guest.              *)
EXTENDS StringIo, Devices

(* Every entry leads to the next table, tables in frames 0 to 3, and data  *)
(* in frames 4 and 5.                                                      *)
E(f) == [p |-> TRUE, w |-> TRUE, u |-> TRUE, ps |-> FALSE, f |-> f]
T(top) == [f \in Frames |-> [i \in 0..1 |->
             IF f < top THEN E(f + 1) ELSE IF f = top THEN E(4 + i) ELSE E(0)]]
Lv(m) == IF m.lma THEN 3 ELSE IF m.pae THEN 2 ELSE 1
Variants(t, top) ==
    {t, [t EXCEPT ![top][1].p = FALSE], [t EXCEPT ![top][1].w = FALSE],
        [t EXCEPT ![top][1].u = FALSE], [t EXCEPT ![top][1].f = 6],
        [t EXCEPT ![top][0].p = FALSE],
        [t EXCEPT ![top - 1][0].ps = TRUE, ![top - 1][0].f = 4],
        [t EXCEPT ![top - 1][0].p = FALSE],
        [t EXCEPT ![top - 1][0].w = FALSE, ![top - 1][0].u = FALSE],
        [t EXCEPT ![0][0].p = FALSE], [t EXCEPT ![0][0].f = 7],
        [t EXCEPT ![0][0].ps = TRUE, ![0][0].f = 5]}
        \cup IF top < 2 THEN {}
             ELSE {[t EXCEPT ![top - 2][0].ps = TRUE, ![top - 2][0].f = 4]}
MCTables == UNION {Variants(T(n), n) : n \in 1..3}

Mode(pg, pae, pse, lma, cpl) == [pg |-> pg, pae |-> pae, pse |-> pse, lma |-> lma, cpl |-> cpl]
MCModes == {Mode(FALSE, FALSE, FALSE, FALSE, 0)}
    \cup {Mode(TRUE, FALSE, pse, FALSE, cpl) : pse \in BOOLEAN, cpl \in {0, 3}}
    \cup {Mode(TRUE, TRUE, TRUE, lma, cpl) : lma \in BOOLEAN, cpl \in {0, 3}}

Io(port, in, s, rep, back, sz, v, n) ==
    [port |-> port, in |-> in, s |-> s, rep |-> rep, back |-> back, sz |-> sz, v |-> v, n |-> n]
MCInsns ==
    {Io("dev", in, TRUE, TRUE, FALSE, sz, v, n) :
        in \in BOOLEAN, sz \in {1, 2}, v \in {0, 1}, n \in {1, 2, 3}}
    \cup {Io("dev", in, TRUE, FALSE, back, 2, 1, 1) : in, back \in BOOLEAN}
    \cup {Io("dev", in, FALSE, FALSE, FALSE, 4, 0, 1) : in \in BOOLEAN}
    \cup {Io("com", in, TRUE, TRUE, FALSE, 1, 1, n) : in \in BOOLEAN, n \in 1..3}
    \cup {Io("com", in, FALSE, FALSE, FALSE, sz, 0, 1) : in \in BOOLEAN, sz \in {1, 2}}

MCFrames == 0..7
MCArea == {6, 7}

(* The two halves share no state: strings are explored while the other     *)
(* devices are as they were at boot, and the devices while no instruction  *)
(* is under way; of the devices at most two families of ports, or one BIOS *)
(* service, are busy at a time.                                            *)
(* The registers of COM1 other than its buffer are used without paging.    *)
Idle == ~inputs /\ insn = NoInsn /\ uart = dev_uart_init /\ sts = "run"
            /\ c = Mode(FALSE, FALSE, FALSE, FALSE, 0) /\ pt = T(3)
Busy == {f \in 1..6 :
    CASE f = 1 -> dev.a20 # "1" \/ dev.last_cmd # "other" \/ dev.out_a20 # "0"
                    \/ dev.ps2_a20 # "0" \/ hw.kcmd # "other" \/ hw.ka20 # "1" \/ hw.ps2 # "0"
      [] f = 2 -> dev.wait_icw2 \/ "PIC_CMD" \notin trap
      [] f = 3 -> dev.sio_filter # "none" \/ hw.com1 # "1" \/ hw.chosen # "1"
      [] f = 4 -> dev.pci_filter # "none" \/ hw.addr # "other" \/ hw.card # "1" \/ oddaddr
      [] f = 5 -> loop.got # <<>>
      [] OTHER -> stack # <<>> \/ at.ie = 0}
AtBoot == Busy = {} /\ ~pmode /\ dsts = "run" /\ hw.idx = "1"
Bounds == Cardinality(Busy) <= (IF {4, 5, 6} \cap Busy # {} THEN 1 ELSE 2) /\ (c.pg => uart = [dev_uart_init EXCEPT !.index = uart.index])

Next == \/ AtBoot /\ StringNext /\ UNCHANGED devvars
        \/ Idle /\ DevNext /\ UNCHANGED strvars

Init == StringInit /\ DevInit

Spec == Init /\ [][Next]_<<strvars, devvars>>
=============================================================================
