----------------------------- MODULE MCNetLink ------------------------------
(***************************************************************************)
(* A small network: the gateway with two MACs, another host that probes,   *)
(* asks and pings, and a client.                                           *)
(***************************************************************************)
EXTENDS NetLink

CONSTANTS gw, other, zero, m1, m2, p1

MCIps == {gw, other, zero}

ArpFrom(op, ip, mac, us) == [kind |-> "arp", op |-> op, ip |-> ip, mac |-> mac, us |-> us]

MCArriving ==
    {ArpFrom("is_at", gw, m, TRUE) : m \in {m1, m2}}
    \cup {ArpFrom("who_has", zero, m1, FALSE), ArpFrom("who_has", other, m2, TRUE)}
    \cup {[kind |-> "icmp", ip |-> other], [kind |-> "other"],
          [kind |-> "udp", src |-> p1, full |-> TRUE],
          [kind |-> "udp", src |-> p1, full |-> FALSE]}

=============================================================================
