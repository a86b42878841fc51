------------------------------ MODULE NetLink -------------------------------
(***************************************************************************)
(* The network control channel: the e1000 driver's two descriptor rings    *)
(* (e1000.c), the ARP cache and the dissectors (common/net), and net_read  *)
(* and net_write, which the gdb stub calls (net.c).  The card fills and    *)
(* drains the rings on its own; the VMM only polls them.                   *)
(***************************************************************************)
EXTENDS Integers, Sequences, FiniteSets, FiniteSetsExt

CONSTANTS RX_DESC_NR, TX_DESC_NR,  \* 16 each
          ARP_CACHE_SZ,            \* 256
          Ips, NoIp,               \* addresses; NoIp is 0.0.0.0
          Gateway,                 \* net->gw, the peer
          Macs, NoMac,
          Ports, NoPort,           \* UDP ports clients send from
          Arriving,                \* the frames others may send
          MaxFrames, MaxSent       \* bounds: frames received and sent

ASSUME NetAssumption ==
    /\ RX_DESC_NR \in Nat \ {0, 1} /\ TX_DESC_NR \in Nat \ {0, 1}
    /\ ARP_CACHE_SZ \in Nat \ {0}
    /\ Gateway \in Ips /\ NoIp \in Ips /\ Gateway # NoIp
    /\ NoMac \notin Macs /\ NoPort \notin Ports
    /\ MaxFrames \in Nat /\ MaxSent \in Nat /\ MaxFrames < MaxSent

VARIABLES rx,      \* receive ring: slots, card's head, tail register, cursor
          tx,      \* transmit ring: buffers, card's head, tail
          arp,     \* arp_tbl_t
          port,    \* net->peer.port
          call,    \* the net_read or net_write under way
          count,   \* frames arrived, composed and put on the wire
          done,    \* frames copied out of the receive ring
          lost,    \* frames dropped, written over or cleared before that
          truth,   \* the MAC each address last announced to the VMM
          lapped   \* the transmit ring held TX_DESC_NR frames at some time

vars == <<rx, tx, arp, port, call, count, done, lost, truth, lapped>>

\* A frame as the dissectors tell them apart; "other" is any they ignore.
ArpFrames == [kind : {"arp"}, op : {"who_has", "is_at"}, ip : Ips, mac : Macs, us : BOOLEAN]
IcmpFrames == [kind : {"icmp"}, ip : Ips]
UdpFrames == [kind : {"udp"}, src : Ports, full : BOOLEAN]
EthFrames == ArpFrames \cup IcmpFrames \cup UdpFrames \cup {[kind |-> "other"]}

ASSUME ArrivingAssumption == Arriving \subseteq EthFrames

\* A descriptor: 0, or the number of the frame in it.  The card does not look
\* into frames, so what one says is chosen when the VMM reads it.
Empty == 0
RxDesc == 0..MaxFrames
TxDesc == [id : 0..MaxSent, mac : Macs \cup {NoMac}, port : Ports \cup {NoPort}]

NoTx == [id |-> 0, mac |-> NoMac, port |-> NoPort]

RxSlots == 0..RX_DESC_NR - 1
TxSlots == 0..TX_DESC_NR - 1
ArpEntries == [ip : Ips, mac : Macs \cup {NoMac}]

\* DATA_FRAME_SZ: a full datagram, in the units of a request's length.
Calls == [op : {"idle"}]
         \cup [op : {"read", "copy", "clear", "give"}, times : 0..1, last : BOOLEAN]
         \cup [op : {"write"}, left : 1..2]

RxRing == [slot : [RxSlots -> RxDesc], dh : RxSlots, dt : RxSlots, tail : RxSlots]
TxRing == [buf : [TxSlots -> TxDesc], dh : TxSlots, tail : TxSlots]
ArpTable == [cache : [0..ARP_CACHE_SZ - 1 -> ArpEntries], tail : 0..ARP_CACHE_SZ - 1]

\* The kinds of values
TypeOK ==
    /\ rx \in RxRing /\ tx \in TxRing /\ arp \in ArpTable
    /\ port \in Ports \cup {NoPort}
    /\ call \in Calls
    /\ count \in [in : 0..MaxFrames, made : 0..MaxSent, wire : 0..MaxSent]
    /\ done \subseteq 1..MaxFrames /\ lost \subseteq 1..MaxFrames
    /\ truth \in [Ips -> Macs \cup {NoMac}]
    /\ lapped \in BOOLEAN

-----------------------------------------------------------------------------
(* The ARP cache. *)

\* An empty entry at the tail ends the scan: the ones after it are not read.
ArpEnd == IF arp.cache[arp.tail].ip = NoIp THEN arp.tail ELSE ARP_CACHE_SZ

Holding(ip) == {i \in 0..ArpEnd - 1 : arp.cache[i].ip = ip}

arp_cache_lookup(ip) ==
    IF Holding(ip) = {} THEN NoMac ELSE arp.cache[Min(Holding(ip))].mac

\* Mutant: a known address keeps its first MAC.
arp_cache_update_once(ip, mac) ==
    /\ arp' = IF Holding(ip) # {} THEN arp
              ELSE [arp EXCEPT !.cache[arp.tail] = [ip |-> ip, mac |-> mac],
                               !.tail = (@ + 1) % ARP_CACHE_SZ]
    /\ truth' = [truth EXCEPT ![ip] = mac]

arp_cache_update(ip, mac) ==
    /\ arp' = IF Holding(ip) # {}
              THEN [arp EXCEPT !.cache[Min(Holding(ip))].mac = mac]
              ELSE [arp EXCEPT !.cache[arp.tail] = [ip |-> ip, mac |-> mac],
                               !.tail = (@ + 1) % ARP_CACHE_SZ]
    /\ truth' = [truth EXCEPT ![ip] = mac]

-----------------------------------------------------------------------------
(* The transmit ring. *)

\* The buffer at the tail, whether or not the card is done with it.
e1k_tx_get_pktbuf == tx.tail

\* Mutant: the tail wraps one descriptor early.
e1k_send_pkt_early(pkt) ==
    /\ count' = [count EXCEPT !.made = @ + 1]
    /\ tx' = [tx EXCEPT !.buf[e1k_tx_get_pktbuf] = [pkt EXCEPT !.id = count.made + 1],
                        !.tail = (@ + 1) % (TX_DESC_NR - 1)]
    /\ lapped' = (lapped \/ count.made + 1 - count.wire >= TX_DESC_NR)

e1k_send_pkt(pkt) ==
    /\ count' = [count EXCEPT !.made = @ + 1]
    /\ tx' = [tx EXCEPT !.buf[e1k_tx_get_pktbuf] = [pkt EXCEPT !.id = count.made + 1],
                        !.tail = (@ + 1) % TX_DESC_NR]
    /\ lapped' = (lapped \/ count.made + 1 - count.wire >= TX_DESC_NR)

\* The card (external) sends what its head points to until it meets the tail;
\* what is left in the buffer no longer matters.
CardSends ==
    /\ tx.dh # tx.tail
    /\ tx' = [tx EXCEPT !.dh = (@ + 1) % TX_DESC_NR, !.buf[tx.dh] = NoTx]
    /\ count' = [count EXCEPT !.wire = @ + 1]
    /\ UNCHANGED <<rx, arp, port, call, done, lost, truth, lapped>>

-----------------------------------------------------------------------------
(* The receive ring. *)

\* The card (external) stores a frame at its head while it owns descriptors,
\* and drops it otherwise.
CardReceives ==
    /\ count.in < MaxFrames
    /\ count' = [count EXCEPT !.in = @ + 1]
    /\ \/ /\ rx.dh # rx.dt
          /\ rx' = [rx EXCEPT !.slot[rx.dh] = count.in + 1,
                              !.dh = (@ + 1) % RX_DESC_NR]
          /\ lost' = lost \cup ({rx.slot[rx.dh]} \ (done \cup {Empty}))
       \/ rx.dh = rx.dt /\ lost' = lost \cup {count.in + 1} /\ UNCHANGED rx
    /\ UNCHANGED <<tx, arp, port, call, done, truth, lapped>>

\* Mutant: the cursor wraps one descriptor early.
CursorEarly == (rx.tail + 1) % (RX_DESC_NR - 1)

\* e1k_recv_pkt moves its cursor before it looks, and does not move it back
\* when there is nothing; the register follows only a descriptor it read.
\* The card may own that descriptor all the while: it stores frames between
\* the test of the status, the copy, the clear and the write of the register.
Cursor == (rx.tail + 1) % RX_DESC_NR
Polled == rx.slot[Cursor]

e1k_rx_copy ==
    /\ call.op = "copy" /\ call' = [call EXCEPT !.op = "clear"]
    /\ done' = done \cup {rx.slot[rx.tail]}
    /\ UNCHANGED <<rx, tx, arp, port, count, lost, truth, lapped>>

\* Mutant: the status of a descriptor read is not cleared.
Uncleared == UNCHANGED rx

Cleared == rx' = [rx EXCEPT !.slot[rx.tail] = Empty]
e1k_rx_clear ==
    /\ call.op = "clear" /\ call' = [call EXCEPT !.op = "give"]
    /\ Cleared
    /\ lost' = lost \cup ({rx.slot[rx.tail]} \ (done \cup {Empty}))
    /\ UNCHANGED <<tx, arp, port, count, done, truth, lapped>>

-----------------------------------------------------------------------------
(* The generators: of a composed frame, the addresses it is for. *)

eth_pkt(mac, to) == [NoTx EXCEPT !.mac = mac, !.port = to]

\* A request is for everyone, an answer for the one that asked.
arp_who_has_pkt == eth_pkt(NoMac, NoPort)
net_gen_arp_is_at_pkt(mac) == eth_pkt(mac, NoPort)

\* An IP frame goes to the MAC the cache has for the address.
ip_pkt(ip, to) == eth_pkt(arp_cache_lookup(ip), to)
icmp_echo_reply(ip) == ip_pkt(ip, NoPort)
net_gen_pong_pkt(ip) == icmp_echo_reply(ip)
udp_pkt(ip) == ip_pkt(ip, port)
net_gen_udp_pkt == udp_pkt(Gateway)

NoAnswer == UNCHANGED <<tx, lapped, count>>

\* _net_gen_ip_pkt: without a MAC the length is 0, and nothing is sent.
SendComposed(pkt) == IF pkt.mac # NoMac THEN e1k_send_pkt(pkt) ELSE NoAnswer

-----------------------------------------------------------------------------
(* The dissectors: what a frame does besides being read. *)

arp_dissect(f) ==
    /\ \/ /\ f.op = "who_has" /\ arp_cache_update(f.ip, f.mac)
          /\ IF f.us THEN e1k_send_pkt(net_gen_arp_is_at_pkt(f.mac)) ELSE NoAnswer
       \/ f.op = "is_at" /\ arp_cache_update(f.ip, f.mac) /\ NoAnswer
    /\ UNCHANGED port

icmp_dissect(f) ==
    /\ SendComposed(net_gen_pong_pkt(f.ip))
    /\ UNCHANGED <<arp, truth, port>>

\* The peer's port follows whoever sends to ours.
udp_dissect(f) ==
    /\ port' = f.src
    /\ NoAnswer /\ UNCHANGED <<arp, truth>>

ip_dissect(f) ==
    \/ f.kind = "icmp" /\ icmp_dissect(f)
    \/ f.kind = "udp" /\ udp_dissect(f)

eth_dissect(f) ==
    \/ f.kind = "arp" /\ arp_dissect(f)
    \/ ip_dissect(f)
    \/ f.kind = "other" /\ NoAnswer /\ UNCHANGED <<arp, truth, port>>

-----------------------------------------------------------------------------
(* net_read and net_write. *)

Idle == [op |-> "idle"]

CallRead ==
    /\ call = Idle
    /\ \E t \in 0..1, l \in BOOLEAN :
         (t = 1 \/ l) /\ call' = [op |-> "read", times |-> t, last |-> l]
    /\ UNCHANGED <<rx, tx, arp, port, count, done, lost, truth, lapped>>

\* The bound leaves room for an answer to every frame to come.
CallWrite ==
    /\ call = Idle
    /\ \E n \in 1..2 :
         /\ count.made + n <= MaxSent - (MaxFrames - Cardinality(done))
         /\ call' = [op |-> "write", left |-> n]
    /\ UNCHANGED <<rx, tx, arp, port, count, done, lost, truth, lapped>>

\* After one __net_read: a full datagram lets the loop go on, anything less
\* ends the call (and the datagram is not counted), the last one always.
AfterRead(full) ==
    call' = IF call.times = 1 /\ full /\ call.last
            THEN [call EXCEPT !.op = "read", !.times = 0] ELSE Idle

net_read ==
    /\ call.op = "read"
    /\ rx' = [rx EXCEPT !.tail = Cursor]
    /\ IF Polled = Empty THEN AfterRead(FALSE) ELSE call' = [call EXCEPT !.op = "copy"]
    /\ UNCHANGED <<tx, arp, port, count, done, lost, truth, lapped>>

net_dissect ==
    /\ call.op = "give"
    /\ rx' = [rx EXCEPT !.dt = rx.tail]
    /\ \E f \in Arriving : eth_dissect(f) /\ AfterRead(f.kind = "udp" /\ f.full)
    /\ UNCHANGED <<done, lost>>

Reading == net_read \/ e1k_rx_copy \/ e1k_rx_clear \/ net_dissect

\* One __net_write: composed in the tail's buffer, then sent if the peer's
\* MAC is known.
net_write ==
    /\ call.op = "write"
    /\ call' = IF call.left = 1 THEN Idle ELSE [call EXCEPT !.left = @ - 1]
    /\ SendComposed(net_gen_udp_pkt)
    /\ UNCHANGED <<rx, arp, port, done, lost, truth>>

-----------------------------------------------------------------------------
e1k_rx_init == [slot |-> [i \in RxSlots |-> Empty], dh |-> 0,
                dt |-> RX_DESC_NR - 1, tail |-> RX_DESC_NR - 1]
e1k_tx_init == [buf |-> [i \in TxSlots |-> NoTx], dh |-> 0, tail |-> 0]
arp_init == [cache |-> [i \in 0..ARP_CACHE_SZ - 1 |-> [ip |-> NoIp, mac |-> NoMac]],
             tail |-> 0]

\* net_init and net_mem_init, which ends by asking for the gateway's MAC.
Init ==
    /\ rx = e1k_rx_init
    /\ tx = [e1k_tx_init EXCEPT !.buf[0] = [arp_who_has_pkt EXCEPT !.id = 1], !.tail = 1]
    /\ arp = arp_init
    /\ port = NoPort /\ call = Idle
    /\ count = [in |-> 0, made |-> 1, wire |-> 0]
    /\ done = {} /\ lost = {}
    /\ truth = [i \in Ips |-> NoMac]
    /\ lapped = FALSE

Next == CardSends \/ CardReceives \/ CallRead \/ CallWrite \/ Reading \/ net_write

\* A call runs to its end, and the stub polls again and again whatever it
\* writes: gdb_preempt reads at the exits and the locked loop reads for ever.
Fairness == WF_vars(Reading) /\ WF_vars(net_write) /\ SF_vars(CallRead)

Spec == Init /\ [][Next]_vars /\ Fairness

-----------------------------------------------------------------------------
\* What the cache answers is what the address last said of itself, whatever
\* evictions, wrapped tails and probes from 0.0.0.0 (an entry arp_cache_update
\* stores like any other, and the scan's end marker) did to the table.
ArpTrue ==
    \A ip \in Ips \ {NoIp} : arp_cache_lookup(ip) \in {NoMac, truth[ip]}

\* Every frame that arrived is in the ring, was read, or was lost: dropped or
\* written over by the card, or cleared by the driver when it came between the
\* copy of the frame before it and the clear.  e1k_recv_pkt reads no frame
\* twice although its cursor and the card's head lose step at the first empty
\* poll: a frame read is in the ring only until its status is cleared.
FramesAccounted ==
    LET held == {rx.slot[i] : i \in RxSlots} \ {Empty}
        copied == IF call.op = "clear" THEN {rx.slot[rx.tail]} ELSE {}
    IN /\ held \cup done \cup lost = 1..count.in
       /\ held \cap done \subseteq copied /\ held \cap lost = {} /\ done \cap lost = {}
       /\ \A i, j \in RxSlots : i # j /\ rx.slot[i] = rx.slot[j] => rx.slot[i] = Empty

\* Until TX_DESC_NR frames have been outstanding, the transmit ring is a
\* queue: the card still has to send exactly the frames composed and not yet
\* on the wire, oldest first (e1k_tx_get_pktbuf never looks at the head).
TxFifo ==
    ~lapped =>
        /\ (tx.tail - tx.dh) % TX_DESC_NR = count.made - count.wire
        /\ \A k \in 1..count.made - count.wire :
             tx.buf[(tx.dh + k - 1) % TX_DESC_NR].id = count.wire + k

\* A frame the card stored is read, or lost to a later one, however far the
\* cursor has strayed.
RxServed ==
    \A n \in 1..MaxFrames :
        (\E i \in RxSlots : rx.slot[i] = n) ~> (n \in done \cup lost)

-----------------------------------------------------------------------------
(* Inductive invariants. *)

\* The bounds hold together: one frame for each one still to be read, for the
\* one not yet dissected, and what is left of a write.
Due == IF call.op = "write" THEN call.left ELSE IF call.op \in {"clear", "give"} THEN 1 ELSE 0
BoundInv == count.made + Due + (MaxFrames - Cardinality(done)) <= MaxSent

\* What the driver has seen in a descriptor stays there or is written over.
CopyInv == call.op = "copy" => rx.slot[rx.tail] # Empty

\* The card never sends more than was composed, lapped or not.
RingInv == (tx.tail - tx.dh) % TX_DESC_NR <= count.made - count.wire

\* An entry is stale only behind the tail, where it waits to be written over,
\* while the address has a newer one in front of it; on either side of the
\* tail an address has one entry.
ArpInv ==
    /\ \A i \in 0..ARP_CACHE_SZ - 1 :
         LET e == arp.cache[i]
         IN e.ip # NoIp /\ e.mac # truth[e.ip] =>
              /\ arp.tail <= i
              /\ \E k \in 0..arp.tail - 1 : arp.cache[k].ip = e.ip
    /\ \A i, j \in 0..ARP_CACHE_SZ - 1 :
         /\ arp.cache[i].ip = arp.cache[j].ip /\ arp.cache[i].ip # NoIp
         /\ i < arp.tail <=> j < arp.tail
         => i = j

=============================================================================
